----------------------------- MODULE CarryOverProofs -----------------------------
(***************************************************************************)
(* Theorems, for every value of the constants, about the kinds that a      *)
(* handler writes as a whole document and of which it models a part: the   *)
(* members of address maps, and the ACLs of overlays.                      *)
(***************************************************************************)
EXTENDS AddressMapProperties, OverlayProperties, TLAPS

-----------------------------------------------------------------------------
(* Addresses. *)

\* The octets of a number make up the number.
LEMMA Octets ==
    ASSUME NEW a \in Nat
    PROVE  /\ a = 256 * (a \div 256) + (a % 256)
           /\ a \div 256 = 256 * (a \div 65536) + ((a \div 256) % 256)
           /\ a \div 65536 = 256 * (a \div 16777216) + ((a \div 65536) % 256)
OBVIOUS

\* An address survives formatting and parsing.
THEOREM FormattedIsParsed ==
    ASSUME NEW a \in Nat
    PROVE  ParseIPv4(FormatIPv4(a)) = a
<1>1. ParseIPv4(FormatIPv4(a)) =
        16777216 * (a \div 16777216) + 65536 * ((a \div 65536) % 256)
           + 256 * ((a \div 256) % 256) + (a % 256)
  BY SMT DEF ParseIPv4, FormatIPv4
<1>2. /\ a \div 16777216 \in Nat /\ (a \div 65536) % 256 \in Nat
      /\ (a \div 256) % 256 \in Nat /\ a % 256 \in Nat
      /\ a \div 65536 \in Nat /\ a \div 256 \in Nat
  OBVIOUS
<1>3. QED
  BY <1>1, <1>2, Octets, SMT

\* One step of a division by a power of 256.
LEMMA Digits ==
    ASSUME NEW q \in Nat, NEW d \in Nat
    PROVE  /\ d < 256 => (256 * q + d) \div 256 = q /\ (256 * q + d) % 256 = d
           /\ d < 65536 => (65536 * q + d) \div 65536 = q
           /\ d < 16777216 => (16777216 * q + d) \div 16777216 = q
BY SMT

\* A dotted address survives parsing and formatting: no two dotted addresses
\* stand for one number.
THEOREM ParsedIsFormatted ==
    ASSUME NEW d \in Dotted
    PROVE  FormatIPv4(ParseIPv4(d)) = d
<1>1. PICK o1 \in Octet, o2 \in Octet, o3 \in Octet, o4 \in Octet : d = <<o1, o2, o3, o4>>
  BY DEF Dotted
<1>2. ParseIPv4(d) = 16777216 * o1 + 65536 * o2 + 256 * o3 + o4
  BY <1>1, SMT DEF ParseIPv4
<1>3. /\ ParseIPv4(d) \div 16777216 = o1
      /\ (ParseIPv4(d) \div 65536) % 256 = o2
      /\ (ParseIPv4(d) \div 256) % 256 = o3
      /\ ParseIPv4(d) % 256 = o4
  <2>1. /\ o1 \in Nat /\ o2 \in Nat /\ o3 \in Nat /\ o4 \in Nat
        /\ o1 < 256 /\ o2 < 256 /\ o3 < 256 /\ o4 < 256
    BY DEF Octet
  <2>2. ParseIPv4(d) \div 16777216 = o1
    <3>1. /\ ParseIPv4(d) = 16777216 * o1 + (65536 * o2 + 256 * o3 + o4)
          /\ 65536 * o2 + 256 * o3 + o4 \in Nat /\ 65536 * o2 + 256 * o3 + o4 < 16777216
      BY <1>2, <2>1, SMT
    <3>2. QED
      BY <2>1, <3>1, Digits, SMT
  <2>3. (ParseIPv4(d) \div 65536) % 256 = o2
    <3>1. /\ ParseIPv4(d) = 65536 * (256 * o1 + o2) + (256 * o3 + o4)
          /\ 256 * o3 + o4 \in Nat /\ 256 * o3 + o4 < 65536 /\ 256 * o1 + o2 \in Nat
      BY <1>2, <2>1, SMT
    <3>2. ParseIPv4(d) \div 65536 = 256 * o1 + o2
      BY <3>1, Digits, SMT
    <3>3. QED
      BY <2>1, <3>2, Digits, SMT
  <2>4. (ParseIPv4(d) \div 256) % 256 = o3 /\ ParseIPv4(d) % 256 = o4
    <3>1. /\ ParseIPv4(d) = 256 * (256 * (256 * o1 + o2) + o3) + o4
          /\ 256 * (256 * o1 + o2) + o3 \in Nat /\ 256 * o1 + o2 \in Nat
      BY <1>2, <2>1, SMT
    <3>2. ParseIPv4(d) \div 256 = 256 * (256 * o1 + o2) + o3 /\ ParseIPv4(d) % 256 = o4
      BY <2>1, <3>1, Digits, SMT
    <3>3. QED
      BY <2>1, <3>1, <3>2, Digits, SMT
  <2>5. QED
    BY <2>2, <2>3, <2>4
<1>4. FormatIPv4(ParseIPv4(d)) =
        <<ParseIPv4(d) \div 16777216, (ParseIPv4(d) \div 65536) % 256,
          (ParseIPv4(d) \div 256) % 256, ParseIPv4(d) % 256>>
  BY SMT DEF FormatIPv4
<1>5. QED
  BY <1>1, <1>3, <1>4, SMT

-----------------------------------------------------------------------------
(* Ranges. *)

\* Two inclusive ranges of numbers share an address.
Meet(s, t) == s[1] <= t[2] /\ t[1] <= s[2]

\* A range is found again under its dotted form.
LEMMA SpanOfDots ==
    ASSUME NEW s \in Span
    PROVE  SpanOf(Dots(s)) = s /\ s[1] \in Nat /\ s[2] \in Nat
BY FormattedIsParsed, AddressMapAssumption DEF SpanOf, Dots, Between

LEMMA SpanOfBlock ==
    ASSUME NEW w \in Wanted
    PROVE  SpanOf(w.range) \in Span /\ Dots(SpanOf(w.range)) = w.range
<1>1. PICK s \in Span : w.range = Dots(s)
  BY DEF Wanted
<1>2. QED
  BY <1>1, SpanOfDots

\* The ID of a range stands for that range alone.
LEMMA KeyOfRange ==
    ASSUME NEW s \in Span, NEW t \in Span, RangeKey(Dots(s)) = RangeKey(Dots(t))
    PROVE  s = t
<1> DEFINE a == FormatIPv4(s[1])
           b == FormatIPv4(s[2])
           c == FormatIPv4(t[1])
           d == FormatIPv4(t[2])
<1>1. RangeKey(Dots(s)) = IF a = b THEN <<a>> ELSE <<a, b>>
  BY DEF RangeKey, Dots, Between
<1>2. RangeKey(Dots(t)) = IF c = d THEN <<c>> ELSE <<c, d>>
  BY DEF RangeKey, Dots, Between
<1> HIDE DEF a, b, c, d
<1>3. \A u, v, w : <<u>> # <<v, w>>
  <2>1. \A u, v, w : Len(<<u>>) = 1 /\ Len(<<v, w>>) = 2
    OBVIOUS
  <2>2. QED
    BY <2>1
<1>4. \A u, v, w, x : /\ <<u>> = <<v>> => u = v
                     /\ <<u, v>> = <<w, x>> => u = w /\ v = x
  OBVIOUS
<1>5. a = c /\ b = d
  <2>1. (IF a = b THEN <<a>> ELSE <<a, b>>) = (IF c = d THEN <<c>> ELSE <<c, d>>)
    BY <1>1, <1>2
  <2>2. CASE a = b /\ c = d
    BY <1>4, <2>1, <2>2, Zenon
  <2>3. CASE a # b /\ c # d
    BY <1>4, <2>1, <2>3, Zenon
  <2>4. (a = b) <=> (c = d)
    BY <1>3, <2>1, Zenon
  <2>5. QED
    BY <2>2, <2>3, <2>4
<1>6. Dots(s) = Dots(t)
  BY <1>5 DEF a, b, c, d, Dots
<1>7. QED
  BY <1>6, SpanOfDots

\* What an import finds in an ID is the range the ID was made of.
LEMMA ImportOfKey ==
    ASSUME NEW s \in Span
    PROVE  ImportedRange(RangeKey(Dots(s))) = Dots(s)
<1> DEFINE a == FormatIPv4(s[1])
           b == FormatIPv4(s[2])
<1>1. Dots(s) = Between(a, b) /\ RangeKey(Dots(s)) = IF a = b THEN <<a>> ELSE <<a, b>>
  BY DEF RangeKey, Dots, Between
<1> HIDE DEF a, b
<1>2. QED
  BY <1>1 DEF ImportedRange

LEMMA OverlapOfSpans ==
    ASSUME NEW s \in Span, NEW t \in Span
    PROVE  Overlap(Dots(s), Dots(t)) <=> Meet(s, t)
BY FormattedIsParsed, AddressMapAssumption DEF Overlap, Dots, Between, Meet

\* A valid range meets itself.
LEMMA ValidMeets ==
    ASSUME NEW s \in Span, ValidRange(Dots(s))
    PROVE  Meet(s, s)
BY FormattedIsParsed, AddressMapAssumption DEF ValidRange, Dots, Between, Meet

-----------------------------------------------------------------------------
(* What an invariant of any configuration says. *)

Valid   == {s \in Span : ValidRange(Dots(s))}
MapTables == UNION {[S -> Entry] : S \in SUBSET Valid}

\* The range r is to hold.
Target(r) == SpanOf(config[r].range)

\* All blocks are planned before any is applied.
PlannedTogether == \A q, r \in Resource : pc[q] \in Planning => pc[r] \in Planning

\* Where a handler stands tells what it is there for.
OperationIsKnown ==
    \A r \in Resource :
        /\ pc[r] = "delete" => Removing(r)
        /\ pc[r] \in {"check", "post"} => Creating(r)
        /\ pc[r] \in {"recheck", "carry", "repost"} => Updating(r)
        /\ pc[r] = "readback" => Creating(r) \/ (Kept(r) /\ ~Replacing(r))

\* What a handler writes it has found valid before.
Writing == {"post", "carry", "repost", "readback"}
WritesAreValid == \A r \in Resource : pc[r] \in Writing => ~Invalid(r)

\* Between the two requests of an update nobody else holds the mutex.
UpdatesAreLocked == \A r \in Resource : pc[r] = "repost" => lock = r

MapInv == TypeOK /\ PlannedTogether /\ OperationIsKnown /\ WritesAreValid /\ UpdatesAreLocked

-----------------------------------------------------------------------------
(* MapTables of address maps. *)

\* What a table of address maps is.
LEMMA MapTable ==
    ASSUME NEW f
    PROVE  f \in MapTables <=>
             /\ f = [s \in DOMAIN f |-> f[s]]
             /\ DOMAIN f \subseteq Valid
             /\ \A s \in DOMAIN f : f[s] \in Entry
BY DEF MapTables

\* An entry more, or in place of another one.
LEMMA BindEntry ==
    ASSUME NEW f \in MapTables, NEW s \in Valid, NEW e \in Entry
    PROVE  Bind(f, s, e) \in MapTables
<1>1. DOMAIN f \subseteq Valid /\ \A x \in DOMAIN f : f[x] \in Entry
  BY MapTable
<1>2. /\ DOMAIN Bind(f, s, e) \subseteq Valid
      /\ \A x \in DOMAIN Bind(f, s, e) : Bind(f, s, e)[x] \in Entry
  BY <1>1 DEF Bind
<1>3. QED
  BY <1>2, MapTable DEF Bind

\* An entry less.
LEMMA UnbindEntry ==
    ASSUME NEW f \in MapTables, NEW s
    PROVE  Unbind(f, s) \in MapTables
<1>1. DOMAIN f \subseteq Valid /\ \A x \in DOMAIN f : f[x] \in Entry
  BY MapTable
<1>2. /\ DOMAIN Unbind(f, s) \subseteq Valid
      /\ \A x \in DOMAIN Unbind(f, s) : Unbind(f, s)[x] \in Entry
  BY <1>1 DEF Unbind, Restrict
<1>3. Unbind(f, s) = [x \in DOMAIN Unbind(f, s) |-> Unbind(f, s)[x]]
  BY DEF Unbind, Restrict
<1>4. QED
  BY <1>2, <1>3, MapTable

\* What is recorded of an entry is a block that may be declared.
LEMMA StoredEntry ==
    ASSUME TypeOK, NEW s \in DOMAIN maps
    PROVE  /\ s \in Valid
           /\ Stored(s) \in Wanted /\ Stored(s) # None
           /\ Stored(s).range = Dots(s)
<1>1. s \in Valid /\ maps[s] \in Entry
  BY MapTable DEF TypeOK, MapTables, Valid
<1>2. QED
  BY <1>1, AddressMapAssumption DEF Stored, Entry, Wanted, Valid

\* An import looks up the range it was given.
LEMMA ImportedEntry ==
    ASSUME TypeOK, NEW r \in Resource, ImportState(r)
    PROVE  \E s \in DOMAIN maps :
               /\ \A q \in Resource : tf[q] # None => tf[q].range # Dots(s)
               /\ Import(r, Stored(s))
<1>1. PICK s \in DOMAIN maps :
          /\ \A q \in Resource : tf[q] # None => tf[q].range # ImportedRange(RangeKey(Dots(s)))
          /\ Import(r, Stored(SpanOf(ImportedRange(RangeKey(Dots(s))))))
  BY DEF ImportState
<1>2. s \in Span
  BY StoredEntry DEF Valid
<1>3. QED
  BY <1>1, <1>2, ImportOfKey, SpanOfDots

\* What a block writes is an entry, under a range that is valid.
LEMMA WrittenEntry ==
    ASSUME MapInv, NEW r \in Resource, pc[r] \in Writing, NEW hidden \in Hidden
    PROVE  /\ config[r] \in Wanted /\ Target(r) \in Valid
           /\ Dots(Target(r)) = config[r].range
           /\ Written(r, hidden) \in MapTables
<1>1. config[r] \in Wanted
  BY DEF MapInv, OperationIsKnown, Creating, Updating, Kept, TypeOK, TerraformTypeOK, Writing
<1>2. Target(r) \in Span /\ Dots(Target(r)) = config[r].range
  BY <1>1, SpanOfBlock DEF Target
<1>3. Target(r) \in Valid
  BY <1>1, <1>2, AddressMapAssumption DEF MapInv, WritesAreValid, Invalid, Valid
<1>4. [name |-> config[r].name, attr |-> config[r].attr, hidden |-> hidden] \in Entry
  BY <1>1 DEF Wanted, Entry
<1>5. QED
  BY <1>1, <1>2, <1>3, <1>4, BindEntry DEF Written, Target, MapInv, TypeOK, MapTables, Valid

-----------------------------------------------------------------------------
(* The invariant, for any configurations. *)

LEMMA MapInit == Init => MapInv
BY AddressMapAssumption, TerraformAssumption
DEF Init, TerraformInit, MapInv, TypeOK, TerraformTypeOK, Ended, Planning, PlannedTogether,
    OperationIsKnown, WritesAreValid, Writing, UpdatesAreLocked

LEMMA MapTypeStep == MapInv /\ [Next]_vars => TypeOK'
<1> SUFFICES ASSUME MapInv, [Next]_vars PROVE TypeOK'
  OBVIOUS
<1> USE DEF MapInv, TerraformTypeOK
<1>1. CASE StartRun
  BY <1>1, AddressMapAssumption DEF StartRun, StartTerraform, TypeOK, Planning
<1>2. CASE EndPlanning
  BY <1>2 DEF EndPlanning, ApplyPlan, TypeOK, Planning, Ended, Applying, budgets
<1>3. ASSUME NEW r \in Resource, Read(r) PROVE TypeOK'
  <2>1. tf' \in [Resource -> Wanted \cup {None}]
    <3>1. CASE SpanOf(tf[r].range) \in DOMAIN maps /\ Record(r, Stored(SpanOf(tf[r].range)))
      BY <3>1, StoredEntry DEF Record, TypeOK
    <3>2. CASE UNCHANGED tf \/ Record(r, None)
      BY <3>2 DEF Record, TypeOK
    <3>3. QED
      BY <1>3, <3>1, <3>2 DEF Read
  <2>2. QED
    BY <1>3, <2>1 DEF Read, Refreshed, Goto, TypeOK, Planning, budgets
<1>4. ASSUME NEW r \in Resource, ModifyPlan(r) \/ PlanCreate(r) PROVE TypeOK'
  BY <1>4 DEF ModifyPlan, PlanCreate, Goto, Planned, TypeOK, Planning, budgets
<1>5. ASSUME NEW r \in Resource, CheckRangeAndName(r) \/ CheckOthers(r) \/ DeleteUnknown(r)
      PROVE  TypeOK'
  BY <1>5
  DEF CheckRangeAndName, CheckOthers, DeleteUnknown, Goto, TypeOK, Ended, Applying, budgets
<1>6. ASSUME NEW r \in Resource, Post(r) \/ PostLost(r) \/ Repost(r) \/ RepostLost(r)
      PROVE  TypeOK'
  <2>1. \E hidden \in Hidden : pc[r] \in Writing /\ maps' = Written(r, hidden)
    BY <1>6, AddressMapAssumption DEF Post, PostLost, Repost, RepostLost, Writing, TypeOK
  <2>2. maps' \in MapTables
    BY <2>1, WrittenEntry
  <2>3. CASE Post(r) \/ Repost(r)
    BY <2>2, <2>3 DEF Post, Repost, Released, Goto, TypeOK, MapTables, Valid, Applying, budgets
  <2>4. CASE PostLost(r) \/ RepostLost(r)
    <3>1. LoseAnswer(r) /\ UNCHANGED carried
      BY <2>4 DEF PostLost, RepostLost
    <3>2. QED
      BY <2>2, <3>1 DEF LoseAnswer, Goto, Released, TypeOK, MapTables, Valid, Ended
  <2>5. QED
    BY <1>6, <2>3, <2>4
<1>7. ASSUME NEW r \in Resource, CarryOver(r) \/ CarryNothing(r) PROVE TypeOK'
  <2>1. \A s \in DOMAIN maps : maps[s].hidden \in Hidden
    BY MapTable DEF TypeOK, MapTables, Valid, Entry
  <2>2. carried' \in [Resource -> Hidden]
    BY <1>7, <2>1, AddressMapAssumption DEF CarryOver, CarryNothing, TypeOK
  <2>3. CASE CarryOver(r)
    BY <2>2, <2>3 DEF CarryOver, Goto, TypeOK, Applying, budgets
  <2>4. CASE CarryNothing(r)
    BY <2>2, <2>4 DEF CarryNothing, Fault, Goto, TypeOK, Applying
  <2>5. QED
    BY <1>7, <2>3, <2>4
<1>8. ASSUME NEW r \in Resource, ReadBack(r) PROVE TypeOK'
  <2>1. tf' \in [Resource -> Wanted \cup {None}]
    <3>1. CASE Target(r) \in DOMAIN maps /\ Record(r, Stored(Target(r)))
      BY <3>1, StoredEntry DEF Record, TypeOK
    <3>2. CASE UNCHANGED tf
      BY <3>2 DEF TypeOK
    <3>3. QED
      BY <1>8, <3>1, <3>2 DEF ReadBack, Target
  <2>2. QED
    BY <1>8, <2>1 DEF ReadBack, Goto, TypeOK, Ended, budgets
<1>9. ASSUME NEW r \in Resource, Delete(r) \/ DeleteLost(r) PROVE TypeOK'
  <2>1. maps' \in MapTables
    BY <1>9, UnbindEntry DEF Delete, DeleteLost, TypeOK, MapTables, Valid
  <2>2. CASE Delete(r)
    BY <2>1, <2>2 DEF Delete, Record, Goto, TypeOK, MapTables, Valid, Ended, Applying, budgets
  <2>3. CASE DeleteLost(r)
    BY <2>1, <2>3 DEF DeleteLost, LoseAnswer, Goto, Released, TypeOK, MapTables, Valid, Ended
  <2>4. QED
    BY <1>9, <2>2, <2>3
<1>10. ASSUME NEW r \in Resource, RequestFails(r) PROVE TypeOK'
  BY <1>10 DEF RequestFails, FailRequest, Fault, Released, Goto, Planned, TypeOK, Ended, Planning
<1>11. ASSUME NEW r \in Resource, ImportState(r) PROVE TypeOK'
  <2>1. PICK s \in DOMAIN maps : Import(r, Stored(s))
    BY <1>11, ImportedEntry
  <2>2. QED
    BY <1>11, <2>1, StoredEntry DEF ImportState, Import, Record, TypeOK, budgets
<1>12. CASE UIEdit
  <2>1. maps' \in MapTables
    BY <1>12, BindEntry, UnbindEntry DEF UIEdit, TypeOK, MapTables, Valid
  <2>2. QED
    BY <1>12, <2>1 DEF UIEdit, EditedInUI, TypeOK, MapTables, Valid
<1>13. CASE Rest \/ UNCHANGED vars
  BY <1>13 DEF Rest, vars, tfVars, budgets, TypeOK
<1>14. QED
  BY <1>1, <1>2, <1>3, <1>4, <1>5, <1>6, <1>7, <1>8, <1>9, <1>10, <1>11, <1>12, <1>13
  DEF Next, Handler

\* The phases of a run, and what a handler is there for while it is at work.
LEMMA MapPhaseStep ==
    MapInv /\ [Next]_vars => PlannedTogether' /\ OperationIsKnown' /\ WritesAreValid'
<1> DEFINE Known(r) == /\ pc'[r] = "delete" => Removing(r)'
                       /\ pc'[r] \in {"check", "post"} => Creating(r)'
                       /\ pc'[r] \in {"recheck", "carry", "repost"} => Updating(r)'
                       /\ pc'[r] = "readback" => Creating(r)' \/ (Kept(r)' /\ ~Replacing(r)')
           Good(p, q) == /\ Known(q)
                         /\ pc'[q] \in Writing => ~Invalid(q)'
                         /\ pc'[p] \in Planning => pc'[q] \in Planning
<1> SUFFICES ASSUME MapInv, [Next]_vars, NEW p \in Resource, NEW q \in Resource
             PROVE  Good(p, q)
  BY DEF PlannedTogether, OperationIsKnown, WritesAreValid, Invalid, Creating, Removing, Updating,
         Replacing, Deleting, Kept
<1> USE DEF MapInv, TypeOK, TerraformTypeOK, PlannedTogether, OperationIsKnown, WritesAreValid,
            Writing, Invalid, Planning, Removing, Replacing, Updating, Creating, Deleting, Kept
<1>1. CASE StartRun
  BY <1>1 DEF StartRun, StartTerraform
<1>2. CASE EndPlanning
  BY <1>2 DEF EndPlanning, ApplyPlan
<1>3. ASSUME NEW r \in Resource, Read(r) PROVE Good(p, q)
  BY <1>3 DEF Read, Refreshed, Record, Goto
<1>4. ASSUME NEW r \in Resource, ModifyPlan(r) \/ PlanCreate(r) PROVE Good(p, q)
  BY <1>4 DEF ModifyPlan, PlanCreate, Planned, Goto
<1>5. ASSUME NEW r \in Resource, CheckRangeAndName(r) \/ CheckOthers(r) \/ DeleteUnknown(r)
      PROVE  Good(p, q)
  BY <1>5 DEF CheckRangeAndName, CheckOthers, Conflict, DeleteUnknown, Goto
<1>6. ASSUME NEW r \in Resource, Post(r) \/ Repost(r) \/ CarryOver(r) \/ CarryNothing(r)
      PROVE  Good(p, q)
  BY <1>6 DEF Post, Repost, CarryOver, CarryNothing, Goto
<1>7. ASSUME NEW r \in Resource, PostLost(r) \/ RepostLost(r) \/ DeleteLost(r) PROVE Good(p, q)
  <2>1. LoseAnswer(r) /\ pc[r] \in {"post", "repost", "delete"}
    BY <1>7 DEF PostLost, RepostLost, DeleteLost
  <2>2. QED
    BY <2>1 DEF LoseAnswer, Goto
<1>8. ASSUME NEW r \in Resource, ReadBack(r) \/ Delete(r) PROVE Good(p, q)
  BY <1>8 DEF ReadBack, Delete, Record, Goto
<1>9. ASSUME NEW r \in Resource, RequestFails(r) PROVE Good(p, q)
  BY <1>9 DEF RequestFails, Requesting, FailRequest, Fault, Planned, Goto
<1>10. ASSUME NEW r \in Resource, ImportState(r) PROVE Good(p, q)
  BY <1>10 DEF ImportState, Import, Record, AllEnded, Ended
<1>11. CASE UIEdit \/ Rest \/ UNCHANGED vars
  BY <1>11 DEF UIEdit, EditedInUI, Rest, vars, tfVars
<1>12. QED
  BY <1>1, <1>2, <1>3, <1>4, <1>5, <1>6, <1>7, <1>8, <1>9, <1>10, <1>11 DEF Next, Handler

\* The mutex is taken while it is free, and given back by the one who has it.
LEMMA MapLockStep == MapInv /\ [Next]_vars => UpdatesAreLocked'
<1> SUFFICES ASSUME MapInv, [Next]_vars, NEW q \in Resource, pc'[q] = "repost"
             PROVE  lock' = q
  BY DEF UpdatesAreLocked
<1> USE DEF MapInv, TypeOK, TerraformTypeOK, UpdatesAreLocked, Goto
<1>1. CASE StartRun \/ EndPlanning
  BY <1>1 DEF StartRun, StartTerraform, EndPlanning, ApplyPlan
<1>2. ASSUME NEW r \in Resource, Read(r) \/ ModifyPlan(r) \/ PlanCreate(r) PROVE lock' = q
  BY <1>2 DEF Read, Refreshed, ModifyPlan, PlanCreate, Planned
<1>3. ASSUME NEW r \in Resource, CheckRangeAndName(r) \/ CheckOthers(r) \/ DeleteUnknown(r)
      PROVE  lock' = q
  BY <1>3 DEF CheckRangeAndName, CheckOthers, DeleteUnknown
<1>4. ASSUME NEW r \in Resource, Post(r) \/ ReadBack(r) \/ Delete(r) PROVE lock' = q
  BY <1>4 DEF Post, ReadBack, Delete, Record
<1>5. ASSUME NEW r \in Resource, CarryOver(r) \/ CarryNothing(r) PROVE lock' = q
  BY <1>5, TerraformAssumption DEF CarryOver, CarryNothing
<1>6. ASSUME NEW r \in Resource, Repost(r) PROVE lock' = q
  BY <1>6 DEF Repost, Released
<1>7. ASSUME NEW r \in Resource, PostLost(r) \/ RepostLost(r) \/ DeleteLost(r) PROVE lock' = q
  <2>1. LoseAnswer(r)
    BY <1>7 DEF PostLost, RepostLost, DeleteLost
  <2>2. QED
    BY <2>1 DEF LoseAnswer, Released
<1>8. ASSUME NEW r \in Resource, RequestFails(r) PROVE lock' = q
  BY <1>8 DEF RequestFails, FailRequest, Released, Planned
<1>9. ASSUME NEW r \in Resource, ImportState(r) PROVE lock' = q
  BY <1>9 DEF ImportState, Import, Record
<1>10. CASE UIEdit \/ Rest \/ UNCHANGED vars
  BY <1>10 DEF UIEdit, EditedInUI, Rest, vars, tfVars
<1>11. QED
  BY <1>1, <1>2, <1>3, <1>4, <1>5, <1>6, <1>7, <1>8, <1>9, <1>10 DEF Next, Handler

LEMMA MapInvariant == Spec => []MapInv
<1>1. MapInv /\ [Next]_vars => MapInv'
  BY MapTypeStep, MapPhaseStep, MapLockStep DEF MapInv
<1>2. QED
  BY MapInit, <1>1, PTL DEF Spec

-----------------------------------------------------------------------------
(* The invariant, for configurations whose ranges are disjoint.            *)

\* No configuration declares an address twice, as the provider asks for.
Disjoint(c) ==
    \A q, r \in Resource :
        c[q] # None /\ c[r] # None /\ q # r => ~Overlap(c[q].range, c[r].range)

DisjointBlocks == \A c \in Configs : Disjoint(c)

\* Nor does the Orchestrator hold one twice at the start.
Separate(f) == \A s, t \in DOMAIN f : Meet(s, t) => s = t

DisjointInitially == \A start \in InitialMaps : Separate(start)

MapsAreDisjoint == "edit" \notin happened => Separate(maps)

EditsMakeStale == "edit" \notin happened => stale = {}

\* Nothing but the entry of its own range overlaps what r writes.
Clear(r) == \A t \in DOMAIN maps : t # Target(r) => ~Meet(Target(r), t)

CheckedIsClear ==
    "edit" \notin happened => \A r \in Resource : pc[r] \in {"post", "carry", "repost"} => Clear(r)

\* A create still finds its range unused when it writes.
CheckedIsFree ==
    \A r \in Resource : pc[r] = "post" /\ r \notin stale => Target(r) \notin DOMAIN maps

\* An update still finds the fields it has read when it writes.
CarriedIsCurrent ==
    \A r \in Resource :
        pc[r] = "repost" /\ r \notin stale /\ "fault" \notin happened /\ Target(r) \in DOMAIN maps =>
            carried[r] = maps[Target(r)].hidden

\* The state of r is what the Orchestrator holds.
Owned(r)  == SpanOf(tf[r].range)
Backed(r) == Owned(r) \in DOMAIN maps /\ tf[r] = Stored(Owned(r))

\* A plan is made of what the Orchestrator holds.
PlanIsCurrent ==
    "edit" \notin happened =>
        \A r \in Resource : pc[r] \in {"plan", "replan", "ready"} /\ tf[r] # None => Backed(r)

\* What resources own exists, and no address map has two owners.
OwnersAreDistinct ==
    Undisturbed =>
        /\ \A r \in Resource : tf[r] # None => Owned(r) \in DOMAIN maps
        /\ \A q, r \in Resource :
              tf[q] # None /\ tf[r] # None /\ tf[q].range = tf[r].range => q = r

\* A handler reads back what it has written, and nobody else owns that.
WrittenIsFound ==
    Undisturbed =>
        \A r \in Resource : pc[r] = "readback" =>
            /\ Target(r) \in DOMAIN maps /\ Stored(Target(r)) = config[r]
            /\ \A q \in Resource : q # r /\ tf[q] # None => tf[q].range # config[r].range

BlockInv ==
    /\ MapInv /\ Disjoint(config)
    /\ MapsAreDisjoint /\ EditsMakeStale /\ CheckedIsClear /\ CheckedIsFree /\ CarriedIsCurrent
    /\ PlanIsCurrent /\ OwnersAreDistinct /\ WrittenIsFound /\ AppliedIsStored

LEMMA BlockInit ==
    ASSUME DisjointInitially
    PROVE  Init => BlockInv
<1> SUFFICES ASSUME Init PROVE BlockInv
  OBVIOUS
<1>1. Disjoint(config)
  BY DEF Init, TerraformInit, Disjoint
<1>2. MapsAreDisjoint
  BY DEF Init, MapsAreDisjoint, DisjointInitially
<1>3. /\ EditsMakeStale /\ CheckedIsClear /\ CheckedIsFree /\ CarriedIsCurrent
      /\ PlanIsCurrent /\ OwnersAreDistinct /\ WrittenIsFound /\ AppliedIsStored
  BY DEF Init, TerraformInit, EditsMakeStale, CheckedIsClear, CheckedIsFree, CarriedIsCurrent,
         PlanIsCurrent, OwnersAreDistinct, WrittenIsFound, AppliedIsStored
<1>4. QED
  BY <1>1, <1>2, <1>3, MapInit DEF BlockInv

\* Nothing makes up for an edit, a failure or a lost answer.
LEMMA HappenedGrows ==
    ASSUME [Next]_vars
    PROVE  happened \subseteq happened'
BY DEF Next, Handler, StartRun, StartTerraform, EndPlanning, ApplyPlan, Read, Refreshed, ModifyPlan,
       PlanCreate, CheckRangeAndName, CheckOthers, Post, PostLost, CarryOver, CarryNothing, Repost,
       RepostLost, ReadBack, Delete, DeleteLost, LoseAnswer, DeleteUnknown, RequestFails,
       FailRequest, Fault, ImportState, Import, UIEdit, EditedInUI, Rest, vars, tfVars, budgets

LEMMA DisturbanceStays ==
    ASSUME [Next]_vars, Undisturbed'
    PROVE  Undisturbed
BY HappenedGrows DEF Undisturbed

\* The configuration is that of the run.
LEMMA ConfigStays ==
    ASSUME [Next]_vars, ~StartRun
    PROVE  config' = config
BY DEF Next, Handler, EndPlanning, ApplyPlan, Read, Refreshed, ModifyPlan, PlanCreate,
       CheckRangeAndName, CheckOthers, Post, PostLost, CarryOver, CarryNothing, Repost, RepostLost,
       ReadBack, Delete, DeleteLost, LoseAnswer, DeleteUnknown, RequestFails, FailRequest,
       ImportState, Import, UIEdit, EditedInUI, Rest, vars, tfVars

LEMMA DisjointStep ==
    ASSUME DisjointBlocks, Disjoint(config), [Next]_vars
    PROVE  Disjoint(config')
<1>1. CASE StartRun
  BY <1>1 DEF StartRun, StartTerraform, DisjointBlocks
<1>2. QED
  BY <1>1, ConfigStays

\* A handler at one of its writes.
WritingOf(r) == Post(r) \/ PostLost(r) \/ Repost(r) \/ RepostLost(r)
RemovalOf(r) == Delete(r) \/ DeleteLost(r)

\* A step that changes address maps is a write, a delete or an edit in the UI.
LEMMA WhoWrites ==
    ASSUME MapInv, [Next]_vars, maps' # maps
    PROVE  \/ UIEdit
           \/ \E r \in Resource : WritingOf(r)
           \/ \E r \in Resource : RemovalOf(r)
BY DEF Next, Handler, StartRun, EndPlanning, Read, ModifyPlan, PlanCreate, CheckRangeAndName,
       CheckOthers, CarryOver, CarryNothing, ReadBack, DeleteUnknown, RequestFails, ImportState,
       Rest, vars, WritingOf, RemovalOf

\* What a write does.
LEMMA WriteOfBlock ==
    ASSUME MapInv, NEW r \in Resource, WritingOf(r)
    PROVE  /\ pc[r] \in {"post", "repost"} /\ pc'[r] # pc[r]
           /\ \A q \in Resource : q # r => pc'[q] = pc[q]
           /\ config' = config /\ tf' = tf /\ carried' = carried /\ stale' = stale
           /\ config[r] \in Wanted /\ config[r] # None
           /\ Target(r) \in Valid /\ Dots(Target(r)) = config[r].range
           /\ DOMAIN maps' = DOMAIN maps \cup {Target(r)}
           /\ \A t \in DOMAIN maps : t # Target(r) => maps'[t] = maps[t]
           /\ Stored(Target(r))' = config[r]
<1>1. /\ pc[r] \in {"post", "repost"} /\ pc'[r] # pc[r]
      /\ \A q \in Resource : q # r => pc'[q] = pc[q]
      /\ config' = config /\ tf' = tf /\ carried' = carried /\ stale' = stale
  BY DEF WritingOf, Post, PostLost, Repost, RepostLost, LoseAnswer, Goto, MapInv, TypeOK,
         TerraformTypeOK
<1>2. PICK hidden \in Hidden : maps' = Written(r, hidden)
  BY AddressMapAssumption
  DEF WritingOf, Post, PostLost, Repost, RepostLost, MapInv, TypeOK
<1>3. config[r] \in Wanted /\ Target(r) \in Valid /\ Dots(Target(r)) = config[r].range
  BY <1>1, <1>2, WrittenEntry DEF Writing
<1>4. config[r] # None
  BY <1>3, AddressMapAssumption
<1>5. /\ DOMAIN maps' = DOMAIN maps \cup {Target(r)}
      /\ \A t \in DOMAIN maps : t # Target(r) => maps'[t] = maps[t]
      /\ maps'[Target(r)] = [name |-> config[r].name, attr |-> config[r].attr, hidden |-> hidden]
  BY <1>2 DEF Written, Target, Bind
<1>6. Stored(Target(r))' = [range |-> config[r].range, name |-> config[r].name, attr |-> config[r].attr]
  BY <1>1, <1>3, <1>5 DEF Stored, Target
<1>7. QED
  BY <1>1, <1>3, <1>4, <1>5, <1>6 DEF Wanted

\* What a delete does.
LEMMA DeleteOfBlock ==
    ASSUME MapInv, NEW r \in Resource, RemovalOf(r)
    PROVE  /\ pc[r] = "delete" /\ pc'[r] # pc[r]
           /\ \A q \in Resource : q # r => pc'[q] = pc[q] /\ tf'[q] = tf[q]
           /\ tf'[r] \in {tf[r], None} /\ tf[r] # None
           /\ config' = config /\ carried' = carried /\ stale' = stale
           /\ DOMAIN maps' = DOMAIN maps \ {Owned(r)}
           /\ \A t \in DOMAIN maps' : maps'[t] = maps[t]
<1>1. /\ pc[r] = "delete" /\ pc'[r] # pc[r]
      /\ \A q \in Resource : q # r => pc'[q] = pc[q] /\ tf'[q] = tf[q]
      /\ tf'[r] \in {tf[r], None}
      /\ config' = config /\ carried' = carried /\ stale' = stale
      /\ maps' = Unbind(maps, Owned(r))
  BY DEF RemovalOf, Delete, DeleteLost, LoseAnswer, Record, Goto, Owned, MapInv, TypeOK,
         TerraformTypeOK
<1>2. tf[r] # None
  BY <1>1 DEF MapInv, OperationIsKnown, Removing, Deleting, Replacing, Kept
<1>3. QED
  BY <1>1, <1>2 DEF Unbind, Restrict

\* The ranges of other blocks are elsewhere.
LEMMA Elsewhere ==
    ASSUME MapInv, Disjoint(config), NEW r \in Resource, NEW q \in Resource, q # r,
           config[r] \in Wanted, Target(r) \in Valid, config[q] # None
    PROVE  /\ Target(q) # Target(r) /\ ~Meet(Target(q), Target(r))
           /\ config[q].range # config[r].range
<1>1. config[q] \in Wanted /\ config[r] # None
  BY AddressMapAssumption DEF MapInv, TypeOK, TerraformTypeOK
<1>2. /\ Target(q) \in Span /\ Dots(Target(q)) = config[q].range
      /\ Target(r) \in Span /\ Dots(Target(r)) = config[r].range
  BY <1>1, SpanOfBlock DEF Target
<1>3. ~Meet(Target(q), Target(r))
  BY <1>1, <1>2, OverlapOfSpans DEF Disjoint
<1>4. Meet(Target(r), Target(r))
  BY <1>2, ValidMeets DEF Valid
<1>5. Target(q) # Target(r)
  BY <1>3, <1>4
<1>6. QED
  BY <1>3, <1>5 DEF Target

\* Where handlers at work come from.
LEMMA Arrivals ==
    ASSUME MapInv, [Next]_vars, NEW q \in Resource, pc'[q] # pc[q]
    PROVE  /\ pc'[q] = "post" => CheckRangeAndName(q)
           /\ pc'[q] = "carry" => CheckOthers(q)
           /\ pc'[q] = "repost" => CarryOver(q) \/ CarryNothing(q)
           /\ pc'[q] = "readback" => Post(q) \/ Repost(q)
           /\ pc'[q] = "ok" => EndPlanning \/ ReadBack(q) \/ Delete(q)
<1> DEFINE Came == /\ pc'[q] = "post" => CheckRangeAndName(q)
                   /\ pc'[q] = "carry" => CheckOthers(q)
                   /\ pc'[q] = "repost" => CarryOver(q) \/ CarryNothing(q)
                   /\ pc'[q] = "readback" => Post(q) \/ Repost(q)
                   /\ pc'[q] = "ok" => EndPlanning \/ ReadBack(q) \/ Delete(q)
<1> USE DEF MapInv, TypeOK, TerraformTypeOK, Goto
<1>1. CASE StartRun \/ EndPlanning \/ UIEdit \/ Rest \/ UNCHANGED vars
  BY <1>1 DEF StartRun, StartTerraform, EndPlanning, ApplyPlan, UIEdit, EditedInUI, Rest, vars, tfVars
<1>2. ASSUME NEW r \in Resource, Read(r) \/ ModifyPlan(r) \/ PlanCreate(r) \/ ImportState(r)
      PROVE  Came
  BY <1>2 DEF Read, Refreshed, ModifyPlan, PlanCreate, Planned, ImportState, Import
<1>3. ASSUME NEW r \in Resource,
             \/ CheckRangeAndName(r) \/ CheckOthers(r) \/ Post(r) \/ Repost(r)
             \/ CarryOver(r) \/ CarryNothing(r) \/ ReadBack(r) \/ Delete(r) \/ DeleteUnknown(r)
      PROVE  Came
  BY <1>3 DEF CheckRangeAndName, CheckOthers, Post, Repost, CarryOver, CarryNothing, ReadBack,
              Delete, DeleteUnknown
<1>4. ASSUME NEW r \in Resource, LoseAnswer(r) \/ RequestFails(r) PROVE Came
  BY <1>4 DEF LoseAnswer, RequestFails, FailRequest, Planned
<1>5. QED
  BY <1>1, <1>2, <1>3, <1>4 DEF Next, Handler, PostLost, RepostLost, DeleteLost

\* A handler that waits keeps what it has found out.
LEMMA Waiting ==
    ASSUME MapInv, [Next]_vars, NEW q \in Resource, pc'[q] = pc[q], pc[q] \in Writing
    PROVE  /\ config' = config /\ tf'[q] = tf[q] /\ carried'[q] = carried[q]
           /\ q \notin stale' => q \notin stale
<1> DEFINE Stays == /\ config' = config /\ tf'[q] = tf[q] /\ carried'[q] = carried[q]
                    /\ q \notin stale' => q \notin stale
<1> USE DEF MapInv, TypeOK, TerraformTypeOK, Goto, Writing
<1>1. CASE StartRun \/ EndPlanning \/ UIEdit \/ Rest \/ UNCHANGED vars
  BY <1>1 DEF StartRun, StartTerraform, EndPlanning, ApplyPlan, UIEdit, EditedInUI, Rest, vars, tfVars
<1>2. ASSUME NEW r \in Resource, Read(r) \/ ModifyPlan(r) \/ PlanCreate(r) PROVE Stays
  BY <1>2 DEF Read, Refreshed, Record, ModifyPlan, PlanCreate, Planned
<1>3. ASSUME NEW r \in Resource,
             \/ CheckRangeAndName(r) \/ CheckOthers(r) \/ Post(r) \/ Repost(r)
             \/ CarryOver(r) \/ CarryNothing(r) \/ DeleteUnknown(r)
      PROVE  Stays
  BY <1>3 DEF CheckRangeAndName, CheckOthers, Post, Repost, CarryOver, CarryNothing, DeleteUnknown
<1>4. ASSUME NEW r \in Resource, ReadBack(r) \/ Delete(r) PROVE Stays
  BY <1>4 DEF ReadBack, Delete, Record
<1>5. ASSUME NEW r \in Resource,
             (LoseAnswer(r) /\ UNCHANGED carried) \/ RequestFails(r)
      PROVE  Stays
  BY <1>5 DEF LoseAnswer, RequestFails, FailRequest
<1>6. ASSUME NEW r \in Resource, ImportState(r) PROVE Stays
  BY <1>6 DEF ImportState, Import, AllEnded, Ended
<1>7. QED
  BY <1>1, <1>2, <1>3, <1>4, <1>5, <1>6 DEF Next, Handler, PostLost, RepostLost, DeleteLost

\* An entry that is written replaces the one of its range or overlaps none.
LEMMA SeparateStep ==
    ASSUME BlockInv, [Next]_vars
    PROVE  MapsAreDisjoint'
<1> SUFFICES ASSUME "edit" \notin happened', NEW s \in DOMAIN maps', NEW t \in DOMAIN maps',
                    Meet(s, t)
             PROVE  s = t
  BY DEF MapsAreDisjoint, Separate
<1>1. "edit" \notin happened /\ ~UIEdit /\ MapInv
  BY HappenedGrows DEF UIEdit, EditedInUI, BlockInv
<1>2. \A u, v \in DOMAIN maps : Meet(u, v) => u = v
  BY <1>1 DEF BlockInv, MapsAreDisjoint, Separate
<1>3. CASE maps' = maps
  BY <1>2, <1>3
<1>4. ASSUME NEW r \in Resource, WritingOf(r) PROVE s = t
  <2>1. \A u \in DOMAIN maps : u # Target(r) => ~Meet(Target(r), u) /\ ~Meet(u, Target(r))
    BY <1>1, <1>4, WriteOfBlock DEF BlockInv, CheckedIsClear, Clear, Meet
  <2>2. DOMAIN maps' = DOMAIN maps \cup {Target(r)}
    BY <1>1, <1>4, WriteOfBlock
  <2>3. QED
    BY <1>2, <2>1, <2>2
<1>5. ASSUME NEW r \in Resource, RemovalOf(r) PROVE s = t
  BY <1>1, <1>2, <1>5, DeleteOfBlock
<1>6. QED
  BY <1>1, <1>3, <1>4, <1>5, WhoWrites

LEMMA StaleStep ==
    ASSUME BlockInv, [Next]_vars
    PROVE  EditsMakeStale'
<1> SUFFICES ASSUME "edit" \notin happened' PROVE stale' = {}
  BY DEF EditsMakeStale
<1>1. stale = {} /\ ~UIEdit
  BY HappenedGrows DEF UIEdit, EditedInUI, BlockInv, EditsMakeStale
<1>2. QED
  BY <1>1
  DEF Next, Handler, StartRun, StartTerraform, EndPlanning, ApplyPlan, Read, Refreshed, ModifyPlan,
      PlanCreate, CheckRangeAndName, CheckOthers, Post, PostLost, CarryOver, CarryNothing, Repost,
      RepostLost, ReadBack, Delete, DeleteLost, LoseAnswer, DeleteUnknown, RequestFails,
      FailRequest, ImportState, Import, Rest, vars, tfVars

\* What a check has found free of overlaps stays so: the other blocks of the
\* configuration write elsewhere.
LEMMA ClearStep ==
    ASSUME BlockInv, [Next]_vars
    PROVE  CheckedIsClear'
<1> SUFFICES ASSUME "edit" \notin happened', NEW q \in Resource,
                    pc'[q] \in {"post", "carry", "repost"}
             PROVE  Clear(q)'
  BY DEF CheckedIsClear
<1>1. "edit" \notin happened /\ ~UIEdit /\ MapInv /\ Disjoint(config)
  BY HappenedGrows DEF UIEdit, EditedInUI, BlockInv
<1>2. CASE pc'[q] # pc[q]
  <2>1. \/ CheckRangeAndName(q) \/ CheckOthers(q)
        \/ (CarryOver(q) \/ CarryNothing(q)) /\ Clear(q)
    BY <1>1, <1>2, Arrivals DEF BlockInv, CheckedIsClear, CarryOver, CarryNothing
  <2>2. CASE (CarryOver(q) \/ CarryNothing(q)) /\ Clear(q)
    BY <2>2 DEF CarryOver, CarryNothing, Clear, Target
  <2>3. CASE CheckRangeAndName(q) \/ CheckOthers(q)
    <3>1. /\ ~OverlapsOther(config[q].range, {RangeKey(config[q].range)})
          /\ config[q] \in Wanted
          /\ config' = config /\ maps' = maps
      BY <1>1, <2>3
      DEF CheckRangeAndName, CheckOthers, Conflict, Goto, MapInv, TypeOK, TerraformTypeOK,
          OperationIsKnown, Creating, Updating, Kept
    <3>2. Target(q) \in Span /\ Dots(Target(q)) = config[q].range
      BY <3>1, SpanOfBlock DEF Target
    <3>3. ASSUME NEW t \in DOMAIN maps, t # Target(q) PROVE ~Meet(Target(q), t)
      <4>1. t \in Span
        BY <1>1, StoredEntry DEF MapInv, Valid
      <4>2. RangeKey(Dots(t)) # RangeKey(config[q].range)
        BY <3>2, <3>3, <4>1, KeyOfRange
      <4>3. ~Overlap(config[q].range, Dots(t))
        BY <3>1, <4>2 DEF OverlapsOther
      <4>4. QED
        BY <3>2, <4>1, <4>3, OverlapOfSpans
    <3>4. QED
      BY <3>1, <3>3 DEF Clear, Target
  <2>4. QED
    BY <2>1, <2>2, <2>3
<1>3. CASE pc'[q] = pc[q]
  <2>1. config' = config /\ Clear(q) /\ config[q] # None
    BY <1>1, <1>3, Waiting
    DEF Writing, BlockInv, CheckedIsClear, MapInv, OperationIsKnown, Creating, Updating, Kept
  <2>2. \A t \in DOMAIN maps' : t \in DOMAIN maps \/ ~Meet(Target(q), t)
    <3>1. ASSUME NEW r \in Resource, WritingOf(r) PROVE <2>2
      <4>1. r # q /\ config[r] \in Wanted /\ Target(r) \in Valid
            /\ DOMAIN maps' = DOMAIN maps \cup {Target(r)}
        BY <1>1, <1>3, <3>1, WriteOfBlock
      <4>2. ~Meet(Target(q), Target(r))
        BY <1>1, <2>1, <4>1, Elsewhere
      <4>3. QED
        BY <4>1, <4>2
    <3>2. ASSUME NEW r \in Resource, RemovalOf(r) PROVE <2>2
      BY <1>1, <3>2, DeleteOfBlock
    <3>3. QED
      BY <1>1, <3>1, <3>2, WhoWrites
  <2>3. QED
    BY <2>1, <2>2 DEF Clear, Target
<1>4. QED
  BY <1>2, <1>3

LEMMA FreeStep ==
    ASSUME BlockInv, [Next]_vars
    PROVE  CheckedIsFree'
<1> SUFFICES ASSUME NEW q \in Resource, pc'[q] = "post", q \notin stale'
             PROVE  Target(q)' \notin DOMAIN maps'
  BY DEF CheckedIsFree
<1>1. MapInv /\ Disjoint(config)
  BY DEF BlockInv
<1>2. CASE pc'[q] # pc[q]
  <2>1. CheckRangeAndName(q)
    BY <1>1, <1>2, Arrivals
  <2>2. /\ ~InUse(config[q].range) /\ config[q] \in Wanted
        /\ config' = config /\ maps' = maps
    BY <1>1, <2>1 DEF CheckRangeAndName, Goto, MapInv, TypeOK, TerraformTypeOK,
                      OperationIsKnown, Creating
  <2>3. Dots(Target(q)) = config[q].range
    BY <2>2, SpanOfBlock DEF Target
  <2>4. QED
    BY <2>2, <2>3 DEF InUse, Target
<1>3. CASE pc'[q] = pc[q]
  <2>1. config' = config /\ config[q] # None /\ Target(q) \notin DOMAIN maps
    BY <1>1, <1>3, Waiting
    DEF Writing, BlockInv, CheckedIsFree, MapInv, OperationIsKnown, Creating
  <2>2. ~UIEdit
    BY DEF UIEdit, EditedInUI
  <2>3. Target(q) \notin DOMAIN maps'
    <3>1. ASSUME NEW r \in Resource, WritingOf(r) PROVE Target(q) \notin DOMAIN maps'
      <4>1. r # q /\ config[r] \in Wanted /\ Target(r) \in Valid
            /\ DOMAIN maps' = DOMAIN maps \cup {Target(r)}
        BY <1>1, <1>3, <3>1, WriteOfBlock
      <4>2. Target(q) # Target(r)
        BY <1>1, <2>1, <4>1, Elsewhere
      <4>3. QED
        BY <2>1, <4>1, <4>2
    <3>2. ASSUME NEW r \in Resource, RemovalOf(r) PROVE Target(q) \notin DOMAIN maps'
      BY <1>1, <2>1, <3>2, DeleteOfBlock
    <3>3. QED
      BY <1>1, <2>1, <2>2, <3>1, <3>2, WhoWrites
  <2>4. QED
    BY <2>1, <2>3 DEF Target
<1>4. QED
  BY <1>2, <1>3

\* While an update holds the mutex nobody but the UI writes.
LEMMA CarriedStep ==
    ASSUME BlockInv, [Next]_vars
    PROVE  CarriedIsCurrent'
<1> SUFFICES ASSUME NEW q \in Resource, pc'[q] = "repost", q \notin stale',
                    "fault" \notin happened', Target(q)' \in DOMAIN maps'
             PROVE  carried'[q] = maps'[Target(q)'].hidden
  BY DEF CarriedIsCurrent
<1>1. MapInv /\ "fault" \notin happened /\ ~UIEdit
  BY HappenedGrows DEF BlockInv, UIEdit, EditedInUI
<1>2. CASE pc'[q] # pc[q]
  <2>1. CarryOver(q)
    BY <1>1, <1>2, Arrivals DEF CarryNothing, Fault
  <2>2. QED
    BY <1>1, <2>1 DEF CarryOver, Target, MapInv, TypeOK
<1>3. CASE pc'[q] = pc[q]
  <2>1. config' = config /\ carried'[q] = carried[q] /\ q \notin stale /\ lock = q
    BY <1>1, <1>3, Waiting DEF Writing, MapInv, UpdatesAreLocked
  <2>2. maps' = maps
    <3>1. ASSUME NEW r \in Resource PROVE ~WritingOf(r) /\ ~RemovalOf(r)
      <4>1. WritingOf(r) \/ RemovalOf(r) => r # q /\ (lock = Free \/ lock = r)
        BY <1>1, <1>3, WriteOfBlock, DeleteOfBlock
        DEF WritingOf, RemovalOf, Post, PostLost, Repost, RepostLost, Delete, DeleteLost, MapInv,
            UpdatesAreLocked
      <4>2. QED
        BY <2>1, <4>1, TerraformAssumption
    <3>2. QED
      BY <1>1, <3>1, WhoWrites
  <2>3. QED
    BY <1>1, <1>3, <2>1, <2>2 DEF BlockInv, CarriedIsCurrent, Target
<1>4. QED
  BY <1>2, <1>3

\* What was planned comes from a refresh of the same run, and while blocks are
\* planned only the UI writes.
LEMMA PlanStep ==
    ASSUME BlockInv, [Next]_vars
    PROVE  PlanIsCurrent'
<1> DEFINE Current(q) == pc'[q] \in {"plan", "replan", "ready"} /\ tf'[q] # None => Backed(q)'
<1> SUFFICES ASSUME "edit" \notin happened', NEW q \in Resource PROVE Current(q)
  BY DEF PlanIsCurrent, Backed, Owned, Stored
<1>1. "edit" \notin happened /\ ~UIEdit
  BY HappenedGrows DEF UIEdit, EditedInUI
<1> USE DEF BlockInv, MapInv, TypeOK, TerraformTypeOK, PlanIsCurrent, PlannedTogether, Planning,
            Backed, Owned, Stored
<1>2. CASE StartRun \/ EndPlanning
  BY <1>2 DEF StartRun, StartTerraform, EndPlanning, ApplyPlan
<1>3. ASSUME NEW r \in Resource, Read(r) PROVE Current(q)
  <2>1. CASE q # r
    BY <1>1, <1>3, <2>1 DEF Read, Refreshed, Record, Goto
  <2>2. CASE q = r /\ tf[r] # None /\ Owned(r) \in DOMAIN maps
    <3>1. Owned(r) \in Span /\ tf'[r] = Stored(Owned(r)) /\ maps' = maps
      BY <1>3, <2>2, StoredEntry DEF Read, Record, Valid
    <3>2. SpanOf(tf'[r].range) = Owned(r)
      BY <3>1, SpanOfDots
    <3>3. QED
      BY <2>2, <3>1, <3>2
  <2>3. CASE q = r /\ (tf[r] = None \/ Owned(r) \notin DOMAIN maps)
    BY <1>3, <2>3 DEF Read, Record
  <2>4. QED
    BY <2>1, <2>2, <2>3
<1>4. ASSUME NEW r \in Resource, ModifyPlan(r) \/ PlanCreate(r) PROVE Current(q)
  BY <1>1, <1>4 DEF ModifyPlan, PlanCreate, Planned, Goto
<1>5. ASSUME NEW r \in Resource, pc[r] \notin Planning, pc'[r] \notin Planning,
             \A s \in Resource : s # r => pc'[s] = pc[s]
      PROVE  Current(q)
  BY <1>5
<1>6. ASSUME NEW r \in Resource,
             \/ CheckRangeAndName(r) \/ CheckOthers(r) \/ Post(r) \/ CarryOver(r)
             \/ CarryNothing(r) \/ Repost(r) \/ ReadBack(r) \/ Delete(r) \/ DeleteUnknown(r)
             \/ PostLost(r) \/ RepostLost(r) \/ DeleteLost(r)
      PROVE  Current(q)
  <2>1. /\ pc[r] \notin Planning /\ pc'[r] \notin Planning
        /\ \A s \in Resource : s # r => pc'[s] = pc[s]
    <3>1. CASE PostLost(r) \/ RepostLost(r) \/ DeleteLost(r)
      BY <3>1 DEF PostLost, RepostLost, DeleteLost, LoseAnswer, Goto
    <3>2. QED
      BY <1>6, <3>1
      DEF CheckRangeAndName, CheckOthers, Post, CarryOver, CarryNothing, Repost, ReadBack, Delete,
          DeleteUnknown, Goto
  <2>2. QED
    BY <1>5, <2>1
<1>7. ASSUME NEW r \in Resource, RequestFails(r) PROVE Current(q)
  BY <1>1, <1>7 DEF RequestFails, Requesting, FailRequest, Fault, Planned, Goto
<1>8. ASSUME NEW r \in Resource, ImportState(r) PROVE Current(q)
  BY <1>8 DEF ImportState, Import, AllEnded, Ended
<1>9. CASE Rest \/ UNCHANGED vars
  BY <1>1, <1>9 DEF Rest, vars, tfVars
<1>10. QED
  BY <1>1, <1>2, <1>3, <1>4, <1>6, <1>7, <1>8, <1>9 DEF Next, Handler

\* Undisturbed, every change of the state or of the address maps is one of
\* these.
LEMMA UndisturbedSteps ==
    ASSUME BlockInv, [Next]_vars, Undisturbed'
    PROVE  \/ UNCHANGED <<tf, maps>>
           \/ \E r \in Resource :
                 Read(r) \/ Post(r) \/ Repost(r) \/ ReadBack(r) \/ Delete(r) \/ ImportState(r)
<1>1. ~UIEdit /\ \A r \in Resource : ~PostLost(r) /\ ~RepostLost(r) /\ ~DeleteLost(r)
  BY DEF UIEdit, EditedInUI, PostLost, RepostLost, DeleteLost, LoseAnswer, Undisturbed
<1>2. QED
  BY <1>1
  DEF Next, Handler, StartRun, StartTerraform, EndPlanning, ApplyPlan, ModifyPlan, PlanCreate,
      CheckRangeAndName, CheckOthers, CarryOver, CarryNothing, DeleteUnknown, RequestFails,
      FailRequest, Rest, vars, tfVars

\* Undisturbed, what a write finds under its range.
LEMMA WriteFinds ==
    ASSUME BlockInv, Undisturbed, NEW r \in Resource, Post(r) \/ Repost(r)
    PROVE  /\ Post(r) => tf[r] = None /\ Target(r) \notin DOMAIN maps
           /\ Repost(r) => /\ tf[r] # None /\ tf[r].range = config[r].range
                           /\ Target(r) \in DOMAIN maps
           /\ \A q \in Resource : q # r /\ tf[q] # None => tf[q].range # config[r].range
<1>1. /\ "edit" \notin happened /\ stale = {}
      /\ \A q \in Resource : tf[q] # None => Owned(q) \in DOMAIN maps
      /\ \A p, q \in Resource : tf[p] # None /\ tf[q] # None /\ tf[p].range = tf[q].range => p = q
  BY DEF BlockInv, EditsMakeStale, OwnersAreDistinct, Undisturbed
<1>2. CASE Post(r)
  <2>1. tf[r] = None /\ Target(r) \notin DOMAIN maps /\ ~Repost(r)
    BY <1>1, <1>2
    DEF Post, Repost, BlockInv, CheckedIsFree, MapInv, OperationIsKnown, Creating
  <2>2. QED
    BY <1>1, <1>2, <2>1 DEF Owned, Target
<1>3. CASE Repost(r)
  <2>1. tf[r] # None /\ tf[r].range = config[r].range /\ ~Post(r)
    BY <1>3 DEF Post, Repost, BlockInv, MapInv, OperationIsKnown, Updating, Replacing, Kept
  <2>2. QED
    BY <1>1, <1>3, <2>1 DEF Owned, Target
<1>4. QED
  BY <1>2, <1>3

\* What is read back undisturbed.
LEMMA ReadBackFinds ==
    ASSUME BlockInv, Undisturbed, NEW r \in Resource, ReadBack(r)
    PROVE  /\ \A q \in Resource : q # r => tf'[q] = tf[q]
           /\ tf'[r] = config[r] /\ config[r] \in Wanted /\ config[r] # None
           /\ Target(r) \in DOMAIN maps /\ Stored(Target(r)) = config[r]
           /\ tf[r] = None \/ tf[r].range = config[r].range
           /\ \A q \in Resource : q # r /\ tf[q] # None => tf[q].range # config[r].range
<1>1. /\ Target(r) \in DOMAIN maps /\ Stored(Target(r)) = config[r]
      /\ \A q \in Resource : q # r /\ tf[q] # None => tf[q].range # config[r].range
  BY DEF ReadBack, BlockInv, WrittenIsFound
<1>2. /\ config[r] # None /\ config[r] \in Wanted
      /\ tf[r] = None \/ tf[r].range = config[r].range
  BY DEF ReadBack, BlockInv, MapInv, OperationIsKnown, Creating, Replacing, Kept, TypeOK,
         TerraformTypeOK
<1>3. Record(r, config[r])
  BY <1>1 DEF ReadBack, Target
<1>4. QED
  BY <1>1, <1>2, <1>3 DEF Record, BlockInv, MapInv, TypeOK, TerraformTypeOK

LEMMA OwnersStep ==
    ASSUME BlockInv, [Next]_vars
    PROVE  OwnersAreDistinct'
<1> DEFINE Distinct == /\ \A r \in Resource : tf'[r] # None => SpanOf(tf'[r].range) \in DOMAIN maps'
                       /\ \A p, q \in Resource :
                             tf'[p] # None /\ tf'[q] # None /\ tf'[p].range = tf'[q].range => p = q
<1> SUFFICES ASSUME Undisturbed' PROVE Distinct
  BY DEF OwnersAreDistinct, Owned
<1>1. Undisturbed /\ MapInv
  BY DisturbanceStays DEF BlockInv
<1>2. /\ \A r \in Resource : tf[r] # None => SpanOf(tf[r].range) \in DOMAIN maps
      /\ \A p, q \in Resource :
            tf[p] # None /\ tf[q] # None /\ tf[p].range = tf[q].range => p = q
      /\ tf \in [Resource -> Wanted \cup {None}]
  BY <1>1 DEF BlockInv, OwnersAreDistinct, Owned, MapInv, TypeOK, TerraformTypeOK
<1>3. CASE UNCHANGED <<tf, maps>>
  BY <1>2, <1>3
<1>4. ASSUME NEW r \in Resource, Read(r) PROVE Distinct
  <2>1. tf[r] # None => /\ SpanOf(tf[r].range) \in DOMAIN maps
                        /\ Stored(SpanOf(tf[r].range)).range = tf[r].range
    BY <1>2, SpanOfBlock, StoredEntry, AddressMapAssumption DEF MapInv, BlockInv
  <2>2. /\ \A q \in Resource : q # r => tf'[q] = tf[q]
        /\ tf'[r] = None \/ (tf[r] # None /\ tf'[r].range = tf[r].range)
    BY <1>2, <1>4, <2>1 DEF Read, Record
  <2>3. QED
    BY <1>2, <1>4, <2>2 DEF Read
<1>5. ASSUME NEW r \in Resource, Post(r) \/ Repost(r) PROVE Distinct
  BY <1>1, <1>2, <1>5, WriteOfBlock DEF WritingOf
<1>6. ASSUME NEW r \in Resource, ReadBack(r) PROVE Distinct
  <2>1. maps' = maps
    BY <1>6 DEF ReadBack
  <2>2. QED
    BY <1>1, <1>2, <1>6, <2>1, ReadBackFinds DEF Target
<1>7. ASSUME NEW r \in Resource, Delete(r) PROVE Distinct
  <2>1. /\ \A q \in Resource : q # r => tf'[q] = tf[q]
        /\ tf'[r] = None /\ tf[r] # None
        /\ DOMAIN maps' = DOMAIN maps \ {SpanOf(tf[r].range)}
    BY <1>1, <1>2, <1>7, DeleteOfBlock DEF RemovalOf, Delete, Record, Owned
  <2>2. ASSUME NEW q \in Resource, q # r, tf[q] # None
        PROVE  SpanOf(tf[q].range) # SpanOf(tf[r].range)
    <3>1. tf[q] \in Wanted /\ tf[r] \in Wanted
      BY <1>2, <2>1, <2>2
    <3>2. QED
      BY <1>2, <2>1, <2>2, <3>1, SpanOfBlock
  <2>3. QED
    BY <1>2, <2>1, <2>2
<1>8. ASSUME NEW r \in Resource, ImportState(r) PROVE Distinct
  <2>1. PICK s \in DOMAIN maps :
           /\ \A q \in Resource : tf[q] # None => tf[q].range # Dots(s)
           /\ Import(r, Stored(s))
    BY <1>1, <1>8, ImportedEntry DEF MapInv
  <2>2. s \in Span /\ Stored(s).range = Dots(s) /\ SpanOf(Dots(s)) = s
    BY <1>1, StoredEntry, SpanOfDots DEF MapInv, Valid
  <2>3. /\ \A q \in Resource : q # r => tf'[q] = tf[q]
        /\ tf'[r].range = Dots(s)
    BY <1>2, <2>1, <2>2 DEF Import, Record
  <2>4. QED
    BY <1>2, <1>8, <2>1, <2>2, <2>3 DEF ImportState
<1>9. QED
  BY <1>3, <1>4, <1>5, <1>6, <1>7, <1>8, UndisturbedSteps

\* Between a write and the read-back, which is made without the mutex, nobody
\* touches the entry.
LEMMA FoundStep ==
    ASSUME BlockInv, [Next]_vars
    PROVE  WrittenIsFound'
<1> SUFFICES ASSUME Undisturbed', NEW q \in Resource, pc'[q] = "readback"
             PROVE  /\ Target(q)' \in DOMAIN maps' /\ Stored(Target(q))' = config'[q]
                    /\ \A p \in Resource : p # q /\ tf'[p] # None => tf'[p].range # config'[q].range
  BY DEF WrittenIsFound
<1>1. Undisturbed /\ MapInv /\ Disjoint(config)
  BY DisturbanceStays DEF BlockInv
<1>2. CASE pc'[q] # pc[q]
  <2>1. Post(q) \/ Repost(q)
    BY <1>1, <1>2, Arrivals
  <2>2. /\ config' = config /\ tf' = tf
        /\ DOMAIN maps' = DOMAIN maps \cup {Target(q)} /\ Stored(Target(q))' = config[q]
    BY <1>1, <2>1, WriteOfBlock DEF WritingOf
  <2>3. Target(q)' = Target(q)
    BY <2>2 DEF Target
  <2>4. \A p \in Resource : p # q /\ tf[p] # None => tf[p].range # config[q].range
    BY <1>1, <2>1, WriteFinds
  <2>5. QED
    BY <2>2, <2>3, <2>4
<1>3. CASE pc'[q] = pc[q]
  <2>1. /\ config' = config /\ tf'[q] = tf[q] /\ config[q] # None
        /\ Target(q) \in DOMAIN maps /\ Stored(Target(q)) = config[q]
        /\ \A p \in Resource : p # q /\ tf[p] # None => tf[p].range # config[q].range
    BY <1>1, <1>3, Waiting
    DEF Writing, BlockInv, WrittenIsFound, MapInv, OperationIsKnown, Creating, Kept
  <2>2. config[q] \in Wanted
    BY <1>1, <2>1 DEF MapInv, TypeOK, TerraformTypeOK
  <2> DEFINE Found == /\ Target(q) \in DOMAIN maps' /\ maps'[Target(q)] = maps[Target(q)]
                      /\ \A p \in Resource : p # q /\ tf'[p] # None => tf'[p].range # config[q].range
  <2>3. ASSUME UNCHANGED <<tf, maps>> PROVE Found
    BY <2>1, <2>3
  <2>4. ASSUME NEW r \in Resource, Read(r) \/ ImportState(r) PROVE FALSE
    BY <1>1, <1>3, <2>4
    DEF Read, ImportState, Import, AllEnded, Ended, MapInv, PlannedTogether, Planning
  <2>5. ASSUME NEW r \in Resource, Post(r) \/ Repost(r) PROVE Found
    <3>1. r # q /\ config[r] \in Wanted /\ Target(r) \in Valid /\ tf' = tf
          /\ DOMAIN maps' = DOMAIN maps \cup {Target(r)}
          /\ \A t \in DOMAIN maps : t # Target(r) => maps'[t] = maps[t]
      BY <1>1, <1>3, <2>5, WriteOfBlock DEF WritingOf
    <3>2. Target(q) # Target(r)
      BY <1>1, <2>1, <3>1, Elsewhere
    <3>3. QED
      BY <2>1, <3>1, <3>2
  <2>6. ASSUME NEW r \in Resource, ReadBack(r) PROVE Found
    <3>1. r # q /\ maps' = maps
      BY <1>1, <1>3, <2>6 DEF ReadBack, Goto, MapInv, TypeOK, TerraformTypeOK
    <3>2. /\ \A p \in Resource : p # r => tf'[p] = tf[p]
          /\ tf'[r] = config[r] /\ config[r] \in Wanted /\ Target(r) \in DOMAIN maps
      BY <1>1, <2>6, ReadBackFinds
    <3>3. Target(r) \in Valid
      BY <1>1, <3>2, StoredEntry DEF MapInv
    <3>4. config[q].range # config[r].range
      BY <1>1, <2>1, <3>1, <3>2, <3>3, Elsewhere
    <3>5. QED
      BY <2>1, <3>1, <3>2, <3>4
  <2>7. ASSUME NEW r \in Resource, Delete(r) PROVE Found
    <3>1. /\ r # q /\ tf[r] # None
          /\ \A p \in Resource : p # r => tf'[p] = tf[p]
          /\ tf'[r] \in {tf[r], None}
          /\ DOMAIN maps' = DOMAIN maps \ {Owned(r)}
          /\ \A t \in DOMAIN maps' : maps'[t] = maps[t]
      BY <1>1, <1>3, <2>7, DeleteOfBlock DEF RemovalOf
    <3>2. tf[r] \in Wanted /\ tf[r].range # config[q].range
      BY <1>1, <2>1, <3>1 DEF MapInv, TypeOK, TerraformTypeOK
    <3>3. Owned(r) # Target(q)
      BY <2>2, <3>2, SpanOfBlock DEF Owned, Target
    <3>4. QED
      BY <2>1, <3>1, <3>3
  <2>8. Found
    BY <2>3, <2>4, <2>5, <2>6, <2>7, UndisturbedSteps
  <2>9. QED
    BY <2>1, <2>8 DEF Target, Stored
<1>4. QED
  BY <1>2, <1>3

LEMMA AppliedStep ==
    ASSUME BlockInv, [Next]_vars
    PROVE  AppliedIsStored'
<1> SUFFICES ASSUME NEW q \in Resource, Undisturbed', pc'[q] = "ok", config'[q] # None
             PROVE  tf'[q] = config'[q] /\ Target(q)' \in DOMAIN maps' /\ Stored(Target(q))' = config'[q]
  BY DEF AppliedIsStored, Target
<1>1. Undisturbed /\ MapInv /\ Disjoint(config)
  BY DisturbanceStays DEF BlockInv
<1>2. ~StartRun
  BY DEF StartRun, StartTerraform
<1>3. config' = config /\ config[q] # None /\ config[q] \in Wanted
  BY <1>1, <1>2, ConfigStays DEF MapInv, TypeOK, TerraformTypeOK
<1>4. CASE pc'[q] # pc[q]
  <2>1. CASE EndPlanning
    <3>1. pc[q] = "ready" /\ ~Removing(q) /\ ~Creating(q) /\ ~Updating(q) /\ UNCHANGED <<tf, maps>>
      BY <1>4, <2>1 DEF EndPlanning, ApplyPlan, MapInv, TypeOK, TerraformTypeOK
    <3>2. tf[q] = config[q]
      BY <1>3, <3>1 DEF Removing, Replacing, Deleting, Creating, Updating, Kept
    <3>3. Backed(q)
      BY <1>1, <1>3, <3>1, <3>2 DEF BlockInv, PlanIsCurrent, Undisturbed
    <3>4. QED
      BY <1>3, <3>1, <3>2, <3>3 DEF Backed, Owned, Target, Stored
  <2>2. CASE ReadBack(q)
    <3>1. maps' = maps
      BY <2>2 DEF ReadBack
    <3>2. QED
      BY <1>1, <1>3, <2>2, <3>1, ReadBackFinds DEF Target, Stored
  <2>3. CASE Delete(q)
    <3>1. Deleting(q)
      BY <1>1, <1>4, <2>3
      DEF Delete, Goto, Replacing, Removing, MapInv, OperationIsKnown, TypeOK, TerraformTypeOK
    <3>2. QED
      BY <1>3, <3>1 DEF Deleting
  <2>4. QED
    BY <1>1, <1>4, <2>1, <2>2, <2>3, Arrivals
<1>5. CASE pc'[q] = pc[q]
  <2>1. tf[q] = config[q] /\ Target(q) \in DOMAIN maps /\ Stored(Target(q)) = config[q]
    BY <1>1, <1>3, <1>5 DEF BlockInv, AppliedIsStored, Target
  <2> DEFINE Holds == tf'[q] = tf[q] /\ Target(q) \in DOMAIN maps' /\ maps'[Target(q)] = maps[Target(q)]
  <2>2. ASSUME UNCHANGED <<tf, maps>> PROVE Holds
    BY <2>1, <2>2
  <2>3. ASSUME NEW r \in Resource, Read(r) PROVE FALSE
    BY <1>1, <1>5, <2>3 DEF Read, MapInv, PlannedTogether, Planning
  <2>4. ASSUME NEW r \in Resource, ImportState(r) PROVE Holds
    <3>1. tf[r] = None /\ r # q
      BY <1>3, <2>1, <2>4 DEF ImportState, Import
    <3>2. QED
      BY <1>1, <2>1, <2>4, <3>1 DEF ImportState, Import, Record, MapInv, TypeOK, TerraformTypeOK
  <2>5. ASSUME NEW r \in Resource, Post(r) \/ Repost(r) PROVE Holds
    <3>1. r # q /\ config[r] \in Wanted /\ Target(r) \in Valid /\ tf' = tf
          /\ DOMAIN maps' = DOMAIN maps \cup {Target(r)}
          /\ \A t \in DOMAIN maps : t # Target(r) => maps'[t] = maps[t]
      BY <1>1, <1>5, <2>5, WriteOfBlock DEF WritingOf
    <3>2. Target(q) # Target(r)
      BY <1>1, <1>3, <3>1, Elsewhere
    <3>3. QED
      BY <2>1, <3>1, <3>2
  <2>6. ASSUME NEW r \in Resource, ReadBack(r) PROVE Holds
    <3>1. r # q /\ maps' = maps
      BY <1>5, <2>6 DEF ReadBack, Goto
    <3>2. tf'[q] = tf[q]
      BY <1>1, <2>6, <3>1, ReadBackFinds
    <3>3. QED
      BY <2>1, <3>1, <3>2
  <2>7. ASSUME NEW r \in Resource, Delete(r) PROVE Holds
    <3>1. /\ r # q /\ tf[r] # None /\ tf'[q] = tf[q]
          /\ DOMAIN maps' = DOMAIN maps \ {Owned(r)}
          /\ \A t \in DOMAIN maps' : maps'[t] = maps[t]
      BY <1>1, <1>5, <2>7, DeleteOfBlock DEF RemovalOf
    <3>2. tf[r] \in Wanted /\ tf[r].range # config[q].range
      BY <1>1, <1>3, <2>1, <3>1 DEF MapInv, TypeOK, TerraformTypeOK, BlockInv, OwnersAreDistinct
    <3>3. Owned(r) # Target(q)
      BY <1>3, <3>2, SpanOfBlock DEF Owned, Target
    <3>4. QED
      BY <2>1, <3>1, <3>3
  <2>8. Holds
    BY <2>2, <2>3, <2>4, <2>5, <2>6, <2>7, UndisturbedSteps
  <2>9. QED
    BY <1>3, <2>1, <2>8 DEF Target, Stored
<1>6. QED
  BY <1>4, <1>5

LEMMA BlockInvariant ==
    ASSUME DisjointBlocks, DisjointInitially
    PROVE  Spec => []BlockInv
<1>1. Init => BlockInv
  BY BlockInit
<1>2. BlockInv /\ [Next]_vars => BlockInv'
  <2> SUFFICES ASSUME BlockInv, [Next]_vars PROVE BlockInv'
    OBVIOUS
  <2>1. MapInv' /\ Disjoint(config')
    BY MapTypeStep, MapPhaseStep, MapLockStep, DisjointStep DEF BlockInv, MapInv
  <2>2. /\ MapsAreDisjoint' /\ EditsMakeStale' /\ CheckedIsClear' /\ CheckedIsFree'
        /\ CarriedIsCurrent' /\ PlanIsCurrent' /\ OwnersAreDistinct' /\ WrittenIsFound'
        /\ AppliedIsStored'
    BY SeparateStep, StaleStep, ClearStep, FreeStep, CarriedStep, PlanStep, OwnersStep, FoundStep,
       AppliedStep
  <2>3. QED
    BY <2>1, <2>2 DEF BlockInv, Disjoint
<1>3. QED
  BY <1>1, <1>2, PTL DEF Spec

-----------------------------------------------------------------------------

\* Every variable keeps its type, with any blocks and ranges, overlapping or
\* not; no range is ever stored the wrong way round.
THEOREM AddressMapsTypeCorrect == Spec => []TypeOK
<1>1. MapInv => TypeOK
  BY DEF MapInv
<1>2. QED
  BY <1>1, MapInvariant, PTL

\* No address is ever covered by two entries, although overlaps are looked for
\* outside the mutex and some time before the POST, until the UI is used.
THEOREM NoAddressIsAmbiguous ==
    ASSUME DisjointBlocks, DisjointInitially
    PROVE  Spec => []NoOverlap
<1>1. ASSUME BlockInv PROVE NoOverlap
  <2> SUFFICES ASSUME "edit" \notin happened, NEW s \in DOMAIN maps, NEW t \in DOMAIN maps,
                      NEW a \in s[1]..s[2], Covers(Dots(t), a)
               PROVE  s = t
    BY DEF NoOverlap
  <2>1. s \in Span /\ t \in Span
    BY <1>1, StoredEntry DEF BlockInv, MapInv, Valid
  <2>2. /\ s[1] \in Nat /\ s[2] \in Nat /\ t[1] \in Nat /\ t[2] \in Nat
        /\ s[1] <= a /\ a <= s[2] /\ a \in Int
    BY <2>1, SpanOfDots
  <2>3. t[1] <= a /\ a <= t[2]
    BY <2>1, <2>2, FormattedIsParsed DEF Covers, Dots, Between
  <2>4. Meet(s, t)
    BY <2>2, <2>3 DEF Meet
  <2>5. QED
    BY <1>1, <2>4 DEF BlockInv, MapsAreDisjoint, Separate
<1>2. QED
  BY <1>1, BlockInvariant, PTL

\* A block that a run reports as applied is stored as declared, although its
\* entry is written and read back in two requests with nothing held between
\* them, and other handlers may be at work.
THEOREM AppliedMapsAreStored ==
    ASSUME DisjointBlocks, DisjointInitially
    PROVE  Spec => []AppliedIsStored
<1>1. BlockInv => AppliedIsStored
  BY DEF BlockInv
<1>2. QED
  BY <1>1, BlockInvariant, PTL

\* A write leaves the fields that the provider does not model as they are,
\* unless the UI was used after they were read, or a listing has failed.
THEOREM HiddenFieldsStay ==
    ASSUME DisjointBlocks, DisjointInitially
    PROVE  Spec => HiddenFieldsSurvive
<1>1. ASSUME BlockInv, [Next]_vars, NEW r \in Resource, NEW s \in DOMAIN maps \cap DOMAIN maps',
             Writes(r), maps'[s].hidden # maps[s].hidden
      PROVE  r \in stale \/ "fault" \in happened
  <2>1. pc[r] \in {"post", "repost"} /\ pc'[r] # pc[r] /\ maps' # maps /\ MapInv
    BY <1>1 DEF Writes, BlockInv
  <2>2. Post(r) \/ PostLost(r) \/ Repost(r) \/ RepostLost(r)
    <3>1. ~UIEdit
      BY <2>1 DEF UIEdit, EditedInUI
    <3>2. ASSUME NEW q \in Resource, RemovalOf(q) PROVE FALSE
      BY <2>1, <3>2, DeleteOfBlock
    <3>3. ASSUME NEW q \in Resource, WritingOf(q) PROVE q = r
      BY <2>1, <3>3, WriteOfBlock
    <3>4. QED
      BY <1>1, <2>1, <3>1, <3>2, <3>3, WhoWrites DEF WritingOf
  <2>3. s = Target(r)
    BY <1>1, <2>1, <2>2, WriteOfBlock DEF WritingOf
  <2>4. CASE pc[r] = "post"
    BY <1>1, <2>3, <2>4 DEF BlockInv, CheckedIsFree
  <2>5. CASE pc[r] = "repost"
    <3>1. maps' = Written(r, carried[r])
      BY <2>2, <2>5 DEF Post, PostLost, Repost, RepostLost
    <3>2. maps'[s].hidden = carried[r]
      BY <2>3, <3>1 DEF Written, Target, Bind
    <3>3. QED
      BY <1>1, <2>3, <2>5, <3>2 DEF BlockInv, CarriedIsCurrent
  <2>6. QED
    BY <2>1, <2>4, <2>5
<1>2. BlockInv /\ [Next]_vars =>
        [\A r \in Resource, s \in DOMAIN maps \cap DOMAIN maps' :
           Writes(r) /\ maps'[s].hidden # maps[s].hidden => r \in stale \/ "fault" \in happened]_vars
  BY <1>1
<1>3. QED
  BY <1>2, BlockInvariant, PTL DEF Spec, HiddenFieldsSurvive

\* For blocks whose ranges are disjoint, the handlers implement a store in
\* which an operation touches the object of its resource only, until the UI
\* is used or an answer is lost.
THEOREM AddressMapsImplementKeyedStore ==
    ASSUME DisjointBlocks, DisjointInitially
    PROVE  Spec => ImplementsKeyedStore
<1> DEFINE OwnerOf(state) ==
             [r \in Resource |-> IF state[r] = None THEN None ELSE SpanOf(state[r].range)]
<1>1. Init => Store!StoreInit
  BY DEF Init, TerraformInit, Store!StoreInit, Undisturbed
<1>2. ASSUME BlockInv, [Next]_vars
      PROVE  [Store!StoreNext]_(Store!storeVars)
  <2>1. CASE ~Undisturbed'
    BY <2>1 DEF Store!StoreNext
  <2>2. CASE Undisturbed'
    <3>1. Undisturbed /\ MapInv /\ TypeOK
      BY <1>2, <2>2, DisturbanceStays DEF BlockInv, MapInv
    <3>2. /\ tf \in [Resource -> Wanted \cup {None}]
          /\ \A w \in Wanted : /\ w # None /\ SpanOf(w.range) # None
                               /\ Dots(SpanOf(w.range)) = w.range
      BY <3>1, SpanOfBlock, AddressMapAssumption DEF TypeOK, TerraformTypeOK
    <3>3. \A r \in Resource : tf[r] # None => SpanOf(tf[r].range) \in DOMAIN maps
      BY <1>2, <3>1 DEF BlockInv, OwnersAreDistinct, Owned
    <3>4. CASE UNCHANGED <<tf, maps>>
      BY <2>2, <3>1, <3>4 DEF Store!storeVars
    <3>5. ASSUME NEW r \in Resource, Read(r) PROVE UNCHANGED Store!storeVars
      <4>1. maps' = maps /\ (Undisturbed <=> Undisturbed')
        BY <2>2, <3>1, <3>5 DEF Read
      <4>2. tf[r] # None => /\ Stored(SpanOf(tf[r].range)) # None
                            /\ Stored(SpanOf(tf[r].range)).range = tf[r].range
        BY <3>1, <3>2, <3>3, StoredEntry
      <4>3. /\ \A q \in Resource : q # r => tf'[q] = tf[q]
            /\ tf'[r] = tf[r] \/ (tf[r] # None /\ tf'[r] = Stored(SpanOf(tf[r].range)))
        BY <3>2, <3>3, <3>5 DEF Read, Record
      <4>4. OwnerOf(tf') = OwnerOf(tf)
        BY <4>2, <4>3
      <4>5. QED
        BY <4>1, <4>4 DEF Store!storeVars
    <3>6. ASSUME NEW r \in Resource, Post(r) PROVE Store!StoreNext
      <4>1. Target(r) \notin DOMAIN maps /\ tf' = tf
        BY <1>2, <3>1, <3>6, WriteFinds, WriteOfBlock DEF WritingOf
      <4>2. Target(r) \in DOMAIN maps' /\ maps' = Bind(maps, Target(r), maps'[Target(r)])
        BY <3>6 DEF Post, Written, Target, Bind
      <4>3. QED
        BY <4>1, <4>2 DEF Store!StoreNext, Store!Add, Store!Stores, Store!Bind, Bind
    <3>7. ASSUME NEW r \in Resource, Repost(r) PROVE Store!StoreNext
      <4> DEFINE k == SpanOf(tf[r].range)
      <4>1. tf[r] # None /\ k = Target(r) /\ k \in DOMAIN maps /\ tf' = tf
        BY <1>2, <3>1, <3>7, WriteFinds, WriteOfBlock DEF WritingOf, Target
      <4>2. maps = [t \in DOMAIN maps |-> maps[t]]
        BY <3>1 DEF TypeOK
      <4>3. k \in DOMAIN maps' /\ maps' = [maps EXCEPT ![k] = maps'[k]]
        BY <3>7, <4>1, <4>2 DEF Repost, Written, Target, Bind
      <4>4. OwnerOf(tf)[r] = k
        BY <4>1
      <4>5. QED
        BY <4>1, <4>3, <4>4 DEF Store!StoreNext, Store!Change
    <3>8. ASSUME NEW r \in Resource, ReadBack(r) PROVE [Store!StoreNext]_(Store!storeVars)
      <4> DEFINE k == Target(r)
      <4>1. /\ \A q \in Resource : q # r => tf'[q] = tf[q]
            /\ tf'[r] = config[r] /\ config[r] \in Wanted /\ config[r] # None
            /\ k \in DOMAIN maps
            /\ tf[r] = None \/ tf[r].range = config[r].range
            /\ \A q \in Resource : q # r /\ tf[q] # None => tf[q].range # config[r].range
        BY <1>2, <3>1, <3>8, ReadBackFinds
      <4>2. maps' = maps
        BY <3>8 DEF ReadBack
      <4>3. CASE tf[r] = None
        <5>1. OwnerOf(tf') = [OwnerOf(tf) EXCEPT ![r] = k] /\ OwnerOf(tf)[r] = None
          BY <4>1, <4>3 DEF Target
        <5>2. \A q \in Resource : OwnerOf(tf)[q] # k
          <6>1. k # None /\ Dots(k) = config[r].range
            BY <3>2, <4>1 DEF Target
          <6>2. QED
            BY <3>2, <4>1, <4>3, <6>1
        <5>3. QED
          BY <4>1, <4>2, <5>1, <5>2 DEF Store!StoreNext, Store!Adopt, Store!Owned
      <4>4. CASE tf[r] # None
        <5>1. OwnerOf(tf') = OwnerOf(tf)
          BY <4>1, <4>4
        <5>2. QED
          BY <2>2, <3>1, <4>2, <5>1 DEF Store!storeVars
      <4>5. QED
        BY <4>3, <4>4
    <3>9. ASSUME NEW r \in Resource, Delete(r) PROVE Store!StoreNext
      <4>1. /\ tf[r] # None /\ SpanOf(tf[r].range) \in DOMAIN maps
            /\ maps' = Unbind(maps, SpanOf(tf[r].range))
            /\ tf'[r] = None /\ \A q \in Resource : q # r => tf'[q] = tf[q]
        BY <3>1, <3>2, <3>9, DeleteOfBlock DEF RemovalOf, Delete, Record
      <4>2. OwnerOf(tf') = [OwnerOf(tf) EXCEPT ![r] = None] /\ OwnerOf(tf)[r] = SpanOf(tf[r].range)
        BY <4>1
      <4>3. Store!Drop(r)
        BY <4>1, <4>2 DEF Store!Drop, Store!Unbind, Store!Restrict, Unbind, Restrict
      <4>4. QED
        BY <4>3 DEF Store!StoreNext
    <3>10. ASSUME NEW r \in Resource, ImportState(r) PROVE Store!StoreNext
      <4>1. PICK s \in DOMAIN maps :
               /\ \A q \in Resource : tf[q] # None => tf[q].range # Dots(s)
               /\ Import(r, Stored(s))
        BY <3>1, <3>10, ImportedEntry
      <4>2. /\ Stored(s) # None /\ s # None /\ s \in Span
            /\ Stored(s).range = Dots(s) /\ SpanOf(Dots(s)) = s
        BY <3>1, StoredEntry, SpanOfDots, AddressMapAssumption DEF Valid
      <4>3. OwnerOf(tf') = [OwnerOf(tf) EXCEPT ![r] = s] /\ OwnerOf(tf)[r] = None
        BY <3>2, <4>1, <4>2 DEF Import, Record
      <4>4. \A q \in Resource : OwnerOf(tf)[q] # s
        BY <3>2, <4>1, <4>2
      <4>5. maps' = maps
        BY <3>10 DEF ImportState
      <4>6. QED
        BY <4>3, <4>4, <4>5 DEF Store!StoreNext, Store!Adopt, Store!Owned
    <3>11. QED
      BY <1>2, <2>2, <3>4, <3>5, <3>6, <3>7, <3>8, <3>9, <3>10, UndisturbedSteps
  <2>3. QED
    BY <2>1, <2>2
<1>3. QED
  BY <1>1, <1>2, BlockInvariant, PTL DEF Spec, ImplementsKeyedStore, Store!StoreSpec


-----------------------------------------------------------------------------
(* Overlay ACLs: the invariants. *)

\* overlayMu is held from the read inside it to the end of the read-back.
WritersHoldOverlayMu == \A r \in Resource : pc[r] \in {"put", "readback"} => lock = r

\* All blocks are planned before any is applied.
ACLsPlannedTogether == \A q, r \in Resource : pc[q] \in Planning => pc[r] \in Planning

\* Where a handler stands tells what it is there for; what it is to write has
\* passed toClientEntries.
ACLOperationIsKnown ==
    \A r \in Resource :
        /\ pc[r] = "find" => RemovingACL(r)
        /\ pc[r] = "guard" => Creating(r) \/ UpdatingACL(r)
        /\ pc[r] \in {"reread", "put", "readback"} =>
              RemovingACL(r) \/ ((Creating(r) \/ UpdatingACL(r)) /\ ValidEntries(config[r].entries))

\* The PUT is made of what the Orchestrator holds.
SeenIsCurrent ==
    \A r \in Resource :
        pc[r] = "put" =>
            /\ IsOverlay(seen[r])
            /\ r \notin stale /\ TargetOverlay(r) \in DOMAIN overlays =>
                  seen[r] = overlays[TargetOverlay(r)]

\* A refreshed resource has a record of what it manages.
RefreshedIsRecorded ==
    \A r \in Resource :
        pc[r] \in {"plan", "replan", "ready"} \cup ApplyingACL /\ tf[r] # None => managed[r] # None

\* Foreign entries are entries.
ForeignIsStored == \A o \in DOMAIN overlays : foreign[o] \subseteq DOMAIN overlays[o].acl

\* A foreign entry with a number that a resource takes for its own has slipped.
TakenIsSlipped ==
    \A r \in Resource, o \in Overlay : foreign[o] \cap TakenFor(r, o) \subseteq slipped[o]

\* So has one that came between a PUT and its read-back.
ReadBackIsSlipped ==
    \A r \in Resource :
        pc[r] = "readback" => foreign[TargetOverlay(r)] \subseteq slipped[TargetOverlay(r)]

\* An update that has passed the guard drops no other foreign entry.
GuardedUpdate ==
    \A r \in Resource :
        pc[r] \in {"reread", "put"} /\ UpdatingACL(r) /\ ~config[r].allow /\ r \notin unguarded =>
            foreign[config[r].overlay] \ SeqsOf(config[r].entries) \subseteq slipped[config[r].overlay]

GuardInv ==
    /\ OverlayTypeOK /\ WritersHoldOverlayMu /\ ACLsPlannedTogether /\ ACLOperationIsKnown
    /\ SeenIsCurrent /\ RefreshedIsRecorded /\ ForeignIsStored /\ TakenIsSlipped
    /\ ReadBackIsSlipped /\ GuardedUpdate

\* No two blocks declare the ACL of one overlay.
SeparateOverlays ==
    \A c \in Configs : \A q, r \in Resource :
        c[q] # None /\ c[r] # None /\ c[q].overlay = c[r].overlay => q = r

\* So does the configuration of the run.
ConfigIsSeparate ==
    \A q, r \in Resource :
        config[q] # None /\ config[r] # None /\ config[q].overlay = config[r].overlay => q = r

\* A create that has passed the guard still finds no entry and no owner, but
\* on an overlay without entries that changes hands.
GuardedCreate ==
    \A r \in Resource :
        /\ pc[r] \in {"reread", "put"} /\ Creating(r) /\ r \notin unguarded
        /\ config[r].overlay \in DOMAIN overlays \ contested
        => DOMAIN overlays[config[r].overlay].acl = {} /\ OwnersOf(config[r].overlay) = {}

CreateInv == GuardInv /\ ConfigIsSeparate /\ GuardedCreate

\* Only edits in the UI come after a guard or a listing.
OnlyEditsEvadeGuards == "edit" \notin happened => unguarded = {} /\ stale = {}

\* Each overlay of the state exists and has one owner, the handler that has
\* just written to it included, unless it changes hands without entries.
OverlayOwnersApart ==
    /\ \A r \in Resource : tf[r] # None => tf[r].overlay \in DOMAIN overlays
    /\ \A q, r \in Resource :
          /\ tf[q] # None /\ tf[r] # None /\ tf[q].overlay = tf[r].overlay
          /\ tf[q].overlay \notin contested
          => q = r
    /\ \A q, r \in Resource :
          pc[r] = "readback" /\ Creating(r) /\ config[r].overlay \notin contested /\ tf[q] # None =>
              tf[q].overlay # config[r].overlay

\* A plan is made of what the Orchestrator holds.
ACLPlanIsCurrent ==
    \A r \in Resource :
        pc[r] \in {"plan", "replan", "ready"} /\ tf[r] # None =>
            tf[r].entries = ToModel(overlays[tf[r].overlay].acl)

\* What has ended well is stored as declared, with the same exception.
ACLEndedAsDeclared ==
    \A r \in Resource :
        pc[r] = "ok" /\ config[r] # None /\ config[r].overlay \notin contested =>
            /\ tf[r] = config[r]
            /\ ToModel(overlays[config[r].overlay].acl) = config[r].entries

ACLOwnInv ==
    /\ CreateInv /\ OnlyEditsEvadeGuards
    /\ Undisturbed => OverlayOwnersApart /\ ACLPlanIsCurrent /\ ACLEndedAsDeclared

-----------------------------------------------------------------------------
(* ACL documents. *)

\* What the client makes of one entry.
LEMMA ParsedEntry ==
    ASSUME NEW s \in SeqNumber, NEW w, IsWire(s, w)
    PROVE  /\ ParseEntry(s, w).seq = s
           /\ ParseEntry(s, w).permit \in BOOLEAN
           /\ ParseEntry(s, w).match \in Match
           /\ DOMAIN ParseEntry(s, w).extra \subseteq Criterion \cup OtherField
<1>1. ParseEntry(s, w).seq = s
  BY OverlayAssumption DEF ParseEntry, IsWire
<1>2. ParseEntry(s, w).permit \in BOOLEAN
  BY DEF ParseEntry, IsWire
<1>3. ParseEntry(s, w).match \in Match
  <2> DEFINE F == {f \in Criterion \cap DOMAIN w : w[f] \in Text}
  <2>1. ParseEntry(s, w).match = [f \in F |-> w[f]]
    BY DEF ParseEntry, Restrict
  <2>2. [f \in F |-> w[f]] \in [F -> Text] /\ F \in SUBSET Criterion
    OBVIOUS
  <2>3. QED
    BY <2>1, <2>2 DEF Match
<1>4. DOMAIN ParseEntry(s, w).extra \subseteq Criterion \cup OtherField
  BY DEF ParseEntry, Restrict, IsWire
<1>5. QED
  BY <1>1, <1>2, <1>3, <1>4

\* The entries of a document carry the numbers of its keys.
LEMMA ModelOfACL ==
    ASSUME NEW doc, IsACL(doc), DOMAIN doc \subseteq SeqNumber
    PROVE  /\ ToModel(doc) \in SUBSET ACLEntry
           /\ SeqsOf(ToModel(doc)) = DOMAIN doc
           /\ ParseACL(doc) = {} <=> DOMAIN doc = {}
<1>1. \A s \in DOMAIN doc : s \in SeqNumber /\ IsWire(s, doc[s])
  BY DEF IsACL
<1> DEFINE P(s) == ParseEntry(s, doc[s])
           M(e) == [seq |-> e.seq, permit |-> e.permit, match_all |-> MatchAll(e), match |-> e.match]
<1>2. \A s \in DOMAIN doc : M(P(s)) \in ACLEntry /\ M(P(s)).seq = s
  <2> SUFFICES ASSUME NEW s \in DOMAIN doc PROVE M(P(s)) \in ACLEntry /\ M(P(s)).seq = s
    OBVIOUS
  <2>1. P(s).seq = s /\ P(s).permit \in BOOLEAN /\ P(s).match \in Match
    BY <1>1, ParsedEntry
  <2>2. MatchAll(P(s)) \in BOOLEAN
    BY DEF MatchAll
  <2>3. QED
    BY <1>1, <2>1, <2>2 DEF ACLEntry
<1>3. ToModel(doc) = {M(P(s)) : s \in DOMAIN doc}
  BY DEF ToModel, ParseACL
<1>4. ParseACL(doc) = {P(s) : s \in DOMAIN doc}
  BY DEF ParseACL
<1> HIDE DEF P, M
<1>5. SeqsOf(ToModel(doc)) = DOMAIN doc
  BY <1>2, <1>3 DEF SeqsOf
<1>6. ToModel(doc) \in SUBSET ACLEntry
  BY <1>2, <1>3
<1>7. ParseACL(doc) = {} <=> DOMAIN doc = {}
  BY <1>4
<1>8. QED
  BY <1>5, <1>6, <1>7

\* Entries as SetOverlayACL is about to write them.
IsWritable(e) ==
    /\ e.seq \in SeqNumber /\ e.permit \in BOOLEAN
    /\ DOMAIN e.match \subseteq Criterion
    /\ DOMAIN e.extra \subseteq Criterion \cup OtherField

\* What is built of entries is a document.
LEMMA BuiltACL ==
    ASSUME NEW E, \A e \in E : IsWritable(e)
    PROVE  /\ IsACL(BuildACL(E))
           /\ DOMAIN BuildACL(E) = {e.seq : e \in E}
           /\ DOMAIN BuildACL(E) \subseteq SeqNumber
<1>1. DOMAIN BuildACL(E) = {e.seq : e \in E}
  BY DEF BuildACL
<1>2. ASSUME NEW s \in DOMAIN BuildACL(E) PROVE IsWire(s, BuildACL(E)[s])
  <2> DEFINE c == CHOOSE e \in E : e.seq = s
  <2>1. c \in E /\ BuildACL(E)[s] = BuildEntry(c)
    BY <1>1, <1>2 DEF BuildACL
  <2>2. IsWritable(c)
    BY <2>1
  <2> HIDE DEF c
  <2>3. /\ DOMAIN BuildEntry(c) = {"permit"} \cup DOMAIN c.match \cup (DOMAIN c.extra \ Reserved)
        /\ BuildEntry(c)["permit"] = c.permit
    BY DEF BuildEntry
  <2>4. DOMAIN BuildEntry(c) \subseteq Reserved \cup Criterion \cup OtherField
    BY <2>2, <2>3 DEF IsWritable, Reserved
  <2>5. "self" \notin DOMAIN BuildEntry(c)
    BY <2>2, <2>3, OverlayAssumption DEF IsWritable, Reserved
  <2>6. QED
    BY <2>1, <2>2, <2>3, <2>4, <2>5 DEF IsWire, IsWritable
<1>3. QED
  BY <1>1, <1>2 DEF IsACL, IsWritable

\* So it is with entries that carry over what a document holds.
LEMMA MergedACL ==
    ASSUME NEW doc, IsACL(doc), DOMAIN doc \subseteq SeqNumber,
           NEW E, \A e \in E : e.seq \in SeqNumber /\ e.permit \in BOOLEAN /\ DOMAIN e.match \subseteq Criterion
    PROVE  /\ \A m \in Merged(doc, E) : IsWritable(m)
           /\ {m.seq : m \in Merged(doc, E)} = SeqsOf(E)
<1> DEFINE X(e) == IF \E p \in ParseACL(doc) : p.seq = e.seq
                   THEN (CHOOSE p \in ParseACL(doc) : p.seq = e.seq).extra
                   ELSE <<>>
           W(e) == [seq |-> e.seq, permit |-> e.permit, match |-> e.match, extra |-> X(e)]
<1>1. \A p \in ParseACL(doc) : DOMAIN p.extra \subseteq Criterion \cup OtherField
  BY ParsedEntry DEF ParseACL, IsACL
<1>2. \A e \in E : DOMAIN X(e) \subseteq Criterion \cup OtherField
  BY <1>1
<1>3. Merged(doc, E) = {W(e) : e \in E}
  BY DEF Merged
<1> HIDE DEF X
<1>4. \A e \in E : IsWritable(W(e)) /\ W(e).seq = e.seq
  BY <1>2 DEF IsWritable
<1> HIDE DEF W
<1>5. QED
  BY <1>3, <1>4 DEF SeqsOf

-----------------------------------------------------------------------------
(* Type correctness. *)

\* What is recorded of an overlay.
LEMMA RecordedBlock ==
    ASSUME NEW doc, IsACL(doc), DOMAIN doc \subseteq SeqNumber,
           NEW o \in Overlay, NEW a \in BOOLEAN
    PROVE  [overlay |-> o, allow |-> a, entries |-> ToModel(doc)] \in Block
BY ModelOfACL DEF Block

\* Blocks are not None, and have numbers of entries.
LEMMA BlockHasNumbers ==
    ASSUME NEW b \in Block
    PROVE  /\ b # None
           /\ b = [overlay |-> b.overlay, allow |-> b.allow, entries |-> b.entries]
           /\ b.overlay \in Overlay /\ b.allow \in BOOLEAN
           /\ SeqsOf(b.entries) \subseteq SeqNumber
           /\ \A e \in b.entries : /\ e.seq \in SeqNumber /\ e.permit \in BOOLEAN
                                   /\ DOMAIN e.match \subseteq Criterion
<1>1. b # None /\ b.overlay \in Overlay /\ b.allow \in BOOLEAN /\ b.entries \in SUBSET ACLEntry
      /\ b = [overlay |-> b.overlay, allow |-> b.allow, entries |-> b.entries]
  BY OverlayAssumption DEF Block
<1>2. \A e \in ACLEntry : /\ e.seq \in SeqNumber /\ e.permit \in BOOLEAN
                       /\ DOMAIN e.match \subseteq Criterion
  BY DEF ACLEntry, Match
<1>3. QED
  BY <1>1, <1>2 DEF SeqsOf

\* What a handler writes can be written.
LEMMA WrittenEntries ==
    ASSUME OverlayTypeOK, NEW r \in Resource, tf[r] # None \/ config[r] # None
    PROVE  /\ TargetOverlay(r) \in Overlay
           /\ \A e \in ToWrite(r) : /\ e.seq \in SeqNumber /\ e.permit \in BOOLEAN
                                    /\ DOMAIN e.match \subseteq Criterion
<1>1. /\ tf[r] # None => tf[r] \in Block
      /\ config[r] # None => config[r] \in Block
  BY DEF OverlayTypeOK, TerraformTypeOK
<1>2. RemovingACL(r) => tf[r] # None
  BY DEF RemovingACL, Deleting, ReplacingACL, Kept
<1>3. ~RemovingACL(r) => config[r] # None
  BY DEF RemovingACL, Deleting
<1>4. TargetOverlay(r) \in Overlay
  BY <1>1, <1>2, <1>3, BlockHasNumbers DEF TargetOverlay
<1>5. CASE RemovingACL(r)
  <2> DEFINE e == [seq |-> 1, permit |-> TRUE, match_all |-> TRUE, match |-> <<>>]
  <2>1. ToWrite(r) = {e}
    BY <1>5 DEF ToWrite
  <2>2. DOMAIN <<>> = {}
    OBVIOUS
  <2>3. e.seq = 1 /\ e.permit = TRUE /\ DOMAIN e.match = {}
    BY <2>2
  <2> HIDE DEF e
  <2>4. QED
    BY <1>4, <2>1, <2>3, OverlayAssumption
<1>6. CASE ~RemovingACL(r)
  BY <1>1, <1>3, <1>4, <1>6, BlockHasNumbers DEF ToWrite
<1>7. QED
  BY <1>5, <1>6

LEMMA OverlayInitGuarded == OverlayInit => GuardInv
<1> SUFFICES ASSUME OverlayInit PROVE GuardInv
  OBVIOUS
<1>1. /\ config = [r \in Resource |-> None] /\ tf = [r \in Resource |-> None]
      /\ pc = [r \in Resource |-> "ok"] /\ lock = Free /\ stale = {} /\ happened = {}
      /\ {runs, faults, lost, edits} \subseteq Nat
      /\ managed = [r \in Resource |-> None] /\ seen = [r \in Resource |-> None]
  BY TerraformAssumption DEF OverlayInit, TerraformInit
<1>2. IsOverlayTable(overlays)
  BY OverlayAssumption DEF OverlayInit
<1>3. OverlayTypeOK
  <2>1. TerraformTypeOK(ApplyingACL, Block, Block)
    BY <1>1 DEF TerraformTypeOK, Ended
  <2>2. foreign \in [Overlay -> SUBSET SeqNumber]
    <3>1. \A o \in DOMAIN overlays : DOMAIN overlays[o].acl \in SUBSET SeqNumber
      BY <1>2 DEF IsOverlayTable, IsOverlay
    <3>2. QED
      BY <3>1 DEF OverlayInit
  <2>3. slipped \in [Overlay -> SUBSET SeqNumber] /\ unguarded = {} /\ contested = {}
    BY DEF OverlayInit
  <2>4. managed \in [Resource -> (SUBSET SeqNumber) \cup {None}]
    BY <1>1
  <2>5. seen = [r \in Resource |-> seen[r]] /\ \A r \in Resource : seen[r] = None
    BY <1>1
  <2>6. QED
    BY <1>2, <2>1, <2>2, <2>3, <2>4, <2>5 DEF OverlayTypeOK
<1>4. ForeignIsStored
  BY <1>2 DEF ForeignIsStored, OverlayInit, IsOverlayTable
<1>5. TakenIsSlipped
  BY <1>1 DEF TakenIsSlipped, TakenFor
<1>6. QED
  BY <1>1, <1>3, <1>4, <1>5
  DEF GuardInv, WritersHoldOverlayMu, ACLsPlannedTogether, Planning, ACLOperationIsKnown, SeenIsCurrent,
      RefreshedIsRecorded, ApplyingACL, ReadBackIsSlipped, GuardedUpdate

\* A table of overlays with one of them changed.
LEMMA ChangedOverlay ==
    ASSUME NEW t, IsOverlayTable(t), NEW o \in DOMAIN t, NEW v, IsOverlay(v)
    PROVE  IsOverlayTable([t EXCEPT ![o] = v])
BY DEF IsOverlayTable

\* What a PUT stores.
LEMMA StoredOverlay ==
    ASSUME GuardInv, NEW r \in Resource, StoredACL(r)
    PROVE  LET o == TargetOverlay(r)
               v == [acl |-> BuildACL(Merged(seen[r].acl, ToWrite(r))), settings |-> seen[r].settings]
           IN  /\ o \in DOMAIN overlays /\ o \in Overlay
               /\ overlays' = [overlays EXCEPT ![o] = v]
               /\ IsOverlay(v)
               /\ DOMAIN v.acl = SeqsOf(ToWrite(r))
<1> DEFINE o == TargetOverlay(r)
           D == BuildACL(Merged(seen[r].acl, ToWrite(r)))
           v == [acl |-> D, settings |-> seen[r].settings]
<1>1. IsOverlay(seen[r])
  BY DEF GuardInv, SeenIsCurrent, StoredACL
<1>2. tf[r] # None \/ config[r] # None
  BY DEF GuardInv, ACLOperationIsKnown, StoredACL, RemovingACL, Deleting, ReplacingACL, Kept,
         Creating, UpdatingACL
<1>3. \A e \in ToWrite(r) : /\ e.seq \in SeqNumber /\ e.permit \in BOOLEAN
                            /\ DOMAIN e.match \subseteq Criterion
  BY <1>2, WrittenEntries DEF GuardInv
<1>4. o \in Overlay
  BY <1>2, WrittenEntries DEF GuardInv
<1>5. /\ \A m \in Merged(seen[r].acl, ToWrite(r)) : IsWritable(m)
      /\ {m.seq : m \in Merged(seen[r].acl, ToWrite(r))} = SeqsOf(ToWrite(r))
  BY <1>1, <1>3, MergedACL DEF IsOverlay
<1>6. IsACL(D) /\ DOMAIN D = SeqsOf(ToWrite(r)) /\ DOMAIN D \subseteq SeqNumber
  BY <1>5, BuiltACL
<1>7. o \in DOMAIN overlays /\ overlays' = [overlays EXCEPT ![o] = v]
  BY DEF StoredACL
<1> HIDE DEF D
<1>8. IsOverlay(v)
  BY <1>1, <1>6 DEF IsOverlay
<1>9. DOMAIN v.acl = SeqsOf(ToWrite(r))
  BY <1>6
<1> QED
  BY <1>4, <1>7, <1>8, <1>9 DEF D

\* What a step of an operator of the UI leaves.
LEMMA EditedOverlays ==
    ASSUME OverlayTypeOK, EditOverlay
    PROVE  /\ IsOverlayTable(overlays')
           /\ foreign' \in [Overlay -> SUBSET SeqNumber]
           /\ slipped' \in [Overlay -> SUBSET SeqNumber]
<1> USE DEF OverlayTypeOK
<1>1. CASE \E o \in DOMAIN overlays, s \in SeqNumber, w \in UIEntry :
              /\ IsWire(s, w)
              /\ overlays' = [overlays EXCEPT ![o].acl = Bind(@, s, w)]
              /\ foreign' = [foreign EXCEPT ![o] = @ \cup {s}]
              /\ (slipped' = [slipped EXCEPT ![o] = @ \cup {s}] \/ slipped' = slipped)
  <2>1. PICK o \in DOMAIN overlays, s \in SeqNumber, w \in UIEntry :
              /\ IsWire(s, w)
              /\ overlays' = [overlays EXCEPT ![o].acl = Bind(@, s, w)]
              /\ foreign' = [foreign EXCEPT ![o] = @ \cup {s}]
              /\ (slipped' = [slipped EXCEPT ![o] = @ \cup {s}] \/ slipped' = slipped)
    BY <1>1
  <2>2. o \in Overlay /\ IsOverlay(overlays[o])
    BY DEF IsOverlayTable
  <2> DEFINE v == [acl |-> Bind(overlays[o].acl, s, w), settings |-> overlays[o].settings]
  <2>3. [overlays[o] EXCEPT !.acl = Bind(overlays[o].acl, s, w)] = v
    BY <2>2 DEF IsOverlay
  <2>4. overlays' = [overlays EXCEPT ![o] = v]
    BY <2>1, <2>3
  <2>5. IsOverlay(v)
    BY <2>1, <2>2 DEF IsOverlay, IsACL, Bind
  <2> HIDE DEF v
  <2>6. IsOverlayTable([overlays EXCEPT ![o] = v])
    BY <2>5, ChangedOverlay
  <2>7. IsOverlayTable(overlays')
    BY <2>4, <2>6
  <2>8. foreign' \in [Overlay -> SUBSET SeqNumber] /\ slipped' \in [Overlay -> SUBSET SeqNumber]
    BY <2>1, <2>2
  <2>9. QED
    BY <2>7, <2>8
<1>2. CASE \E o \in DOMAIN overlays, x \in Setting :
              /\ overlays' = [overlays EXCEPT ![o].settings = x]
              /\ UNCHANGED <<foreign, slipped>>
  <2>1. PICK o \in DOMAIN overlays, x \in Setting :
              /\ overlays' = [overlays EXCEPT ![o].settings = x]
              /\ UNCHANGED <<foreign, slipped>>
    BY <1>2
  <2>2. o \in Overlay /\ IsOverlay(overlays[o])
    BY DEF IsOverlayTable
  <2> DEFINE v == [acl |-> overlays[o].acl, settings |-> x]
  <2>3. [overlays[o] EXCEPT !.settings = x] = v
    BY <2>2 DEF IsOverlay
  <2>4. overlays' = [overlays EXCEPT ![o] = v] /\ IsOverlay(v)
    BY <2>1, <2>2, <2>3 DEF IsOverlay
  <2> HIDE DEF v
  <2>5. IsOverlayTable([overlays EXCEPT ![o] = v])
    BY <2>4, ChangedOverlay
  <2>6. QED
    BY <2>1, <2>4, <2>5
<1>3. CASE \E o \in DOMAIN overlays :
              /\ overlays' = Unbind(overlays, o)
              /\ foreign' = [foreign EXCEPT ![o] = {}]
              /\ slipped' = [slipped EXCEPT ![o] = {}]
  BY <1>3 DEF IsOverlayTable, Unbind, Restrict
<1>4. CASE \E o \in DOMAIN overlays : \E gone \in SUBSET DOMAIN overlays[o].acl \ {{}} :
              /\ overlays' = [overlays EXCEPT ![o].acl = Restrict(@, DOMAIN @ \ gone)]
              /\ foreign' = [foreign EXCEPT ![o] = @ \ gone]
              /\ slipped' = [slipped EXCEPT ![o] = @ \ gone]
  <2>1. PICK o \in DOMAIN overlays : \E gone \in SUBSET DOMAIN overlays[o].acl \ {{}} :
              /\ overlays' = [overlays EXCEPT ![o].acl = Restrict(@, DOMAIN @ \ gone)]
              /\ foreign' = [foreign EXCEPT ![o] = @ \ gone]
              /\ slipped' = [slipped EXCEPT ![o] = @ \ gone]
    BY <1>4
  <2>2. PICK gone \in SUBSET DOMAIN overlays[o].acl \ {{}} :
              /\ overlays' = [overlays EXCEPT ![o].acl = Restrict(@, DOMAIN @ \ gone)]
              /\ foreign' = [foreign EXCEPT ![o] = @ \ gone]
              /\ slipped' = [slipped EXCEPT ![o] = @ \ gone]
    BY <2>1
  <2>3. o \in Overlay /\ IsOverlay(overlays[o])
    BY DEF IsOverlayTable
  <2> DEFINE d == overlays[o].acl
             v == [acl |-> Restrict(d, DOMAIN d \ gone), settings |-> overlays[o].settings]
  <2>4. [overlays[o] EXCEPT !.acl = Restrict(d, DOMAIN d \ gone)] = v
    BY <2>3 DEF IsOverlay
  <2>5. overlays' = [overlays EXCEPT ![o] = v]
    BY <2>2, <2>4
  <2>6. IsOverlay(v)
    BY <2>3 DEF IsOverlay, IsACL, Restrict
  <2> HIDE DEF v
  <2>7. IsOverlayTable([overlays EXCEPT ![o] = v])
    BY <2>6, ChangedOverlay
  <2>8. IsOverlayTable(overlays')
    BY <2>5, <2>7
  <2>9. foreign' \in [Overlay -> SUBSET SeqNumber] /\ slipped' \in [Overlay -> SUBSET SeqNumber]
    BY <2>2
  <2>10. QED
    BY <2>8, <2>9
<1>5. QED
  BY <1>1, <1>2, <1>3, <1>4 DEF EditOverlay

LEMMA OverlayTypeStep == GuardInv /\ [OverlayNext]_overlayVars => OverlayTypeOK'
<1> SUFFICES ASSUME GuardInv, [OverlayNext]_overlayVars PROVE OverlayTypeOK'
  OBVIOUS
<1> USE DEF GuardInv, OverlayTypeOK, TerraformTypeOK, Ended, Planning, ApplyingACL, Goto, budgets
<1>1. CASE UNCHANGED overlayVars
  BY <1>1 DEF overlayVars, tfVars, ghosts
<1>2. CASE StartOverlayRun
  BY <1>2, OverlayAssumption DEF StartOverlayRun, StartTerraform, ghosts
<1>3. CASE EndACLPlanning
  BY <1>3 DEF EndACLPlanning, ApplyPlan, ghosts
<1>4. CASE EditOverlay
  <2>1. /\ IsOverlayTable(overlays')
        /\ foreign' \in [Overlay -> SUBSET SeqNumber]
        /\ slipped' \in [Overlay -> SUBSET SeqNumber]
    BY <1>4, EditedOverlays
  <2>2. EditedInUI /\ unguarded' = Resource /\ UNCHANGED <<managed, seen, contested>>
    BY <1>4 DEF EditOverlay
  <2>3. QED
    BY <2>1, <2>2 DEF EditedInUI
<1>5. ASSUME NEW r \in Resource, NEW o \in DOMAIN overlays, NEW a \in BOOLEAN
      PROVE  /\ o \in Overlay
             /\ [overlay |-> o, allow |-> a, entries |-> ToModel(overlays[o].acl)] \in Block
  BY RecordedBlock DEF IsOverlayTable, IsOverlay
<1>6. ASSUME NEW r \in Resource, ImportACL(r) \/ Upgrade(r) PROVE OverlayTypeOK'
  <2>1. PICK o \in DOMAIN overlays : Recorded(r, o, FALSE, overlays[o].acl)
    BY <1>6 DEF ImportACL, Upgrade
  <2>2. tf' \in [Resource -> Block \cup {None}]
    BY <1>5, <2>1 DEF Recorded, Record
  <2>3. managed' \in [Resource -> (SUBSET SeqNumber) \cup {None}]
        /\ foreign' \in [Overlay -> SUBSET SeqNumber]
    BY <1>6 DEF ImportACL, Upgrade, ghosts
  <2>4. UNCHANGED <<config, pc, lock, stale, budgets, overlays, seen, slipped, unguarded, contested>>
    BY <1>6 DEF ImportACL, Upgrade, ghosts
  <2>5. TerraformTypeOK(ApplyingACL, Block, Block)'
    BY <2>2, <2>4
  <2>6. QED
    BY <2>3, <2>4, <2>5
<1>7. ASSUME NEW r \in Resource, ReadACL(r) PROVE OverlayTypeOK'
  <2>1. tf[r] # None => tf[r].allow \in BOOLEAN /\ SeqsOf(tf[r].entries) \subseteq SeqNumber
    BY BlockHasNumbers
  <2>2. tf' \in [Resource -> Block \cup {None}]
    BY <1>5, <1>7, <2>1 DEF ReadACL, Recorded, Record
  <2>3. managed' \in [Resource -> (SUBSET SeqNumber) \cup {None}]
    BY <1>7, <2>1 DEF ReadACL
  <2>4. QED
    BY <1>7, <2>2, <2>3 DEF ReadACL, Refreshed, ghosts
<1>8. ASSUME NEW r \in Resource, PlanACL(r) \/ PlanACLCreate(r) PROVE OverlayTypeOK'
  BY <1>8 DEF PlanACL, PlanACLCreate, Planned, ghosts
<1>9. ASSUME NEW r \in Resource, Guard(r) PROVE OverlayTypeOK'
  <2>1. contested' \subseteq contested \cup {config[r].overlay}
    BY <1>9 DEF Guard
  <2>2. config[r] # None
    BY <1>9 DEF Guard, ACLOperationIsKnown, Creating, UpdatingACL, Kept
  <2>3. contested' \subseteq Overlay
    BY <2>1, <2>2, BlockHasNumbers
  <2>4. /\ pc' = [pc EXCEPT ![r] = "reread"] \/ pc' = [pc EXCEPT ![r] = "failed"]
        /\ unguarded' = unguarded \ {r}
        /\ UNCHANGED <<config, tf, lock, stale, budgets, overlays, managed, seen, foreign, slipped>>
    BY <1>9 DEF Guard
  <2>5. TerraformTypeOK(ApplyingACL, Block, Block)'
    BY <2>4
  <2>6. QED
    BY <2>3, <2>4, <2>5
<1>10. ASSUME NEW r \in Resource, Find(r) PROVE OverlayTypeOK'
  BY <1>10 DEF Find, Removed, Record, ghosts
<1>11. ASSUME NEW r \in Resource, Reread(r) PROVE OverlayTypeOK'
  BY <1>11 DEF Reread, IsOverlayTable, ghosts
<1>12. ASSUME NEW r \in Resource, StoredACL(r)
       PROVE  /\ IsOverlayTable(overlays')
              /\ foreign' \in [Overlay -> SUBSET SeqNumber]
              /\ slipped' \in [Overlay -> SUBSET SeqNumber]
  <2> DEFINE o == TargetOverlay(r)
             v == [acl |-> BuildACL(Merged(seen[r].acl, ToWrite(r))), settings |-> seen[r].settings]
  <2>0. o \in DOMAIN overlays /\ IsOverlay(v) /\ overlays' = [overlays EXCEPT ![o] = v]
    BY <1>12, StoredOverlay
  <2> HIDE DEF o, v
  <2>1. IsOverlayTable(overlays')
    <3>1. IsOverlayTable([overlays EXCEPT ![o] = v])
      BY <2>0, ChangedOverlay
    <3>2. QED
      BY <2>0, <3>1
  <2>2. QED
    BY <1>12, <2>1, StoredOverlay DEF StoredACL
<1>13. ASSUME NEW r \in Resource, Put(r) \/ PutLost(r) PROVE OverlayTypeOK'
  BY <1>12, <1>13 DEF Put, PutLost, LoseAnswer, Released
<1>14. ASSUME NEW r \in Resource, PutFails(r) \/ OverlayRequestFails(r) PROVE OverlayTypeOK'
  BY <1>14 DEF PutFails, OverlayRequestFails, FailRequest, Fault, Released, ghosts
<1>15. ASSUME NEW r \in Resource, ReadBackACL(r) PROVE OverlayTypeOK'
  <2>1. CASE TargetOverlay(r) \notin DOMAIN overlays \/ RemovingACL(r)
    BY <1>15, <2>1 DEF ReadBackACL, Removed, Record, Released, ghosts
  <2>2. CASE TargetOverlay(r) \in DOMAIN overlays /\ ~RemovingACL(r)
    <3>1. config[r].allow \in BOOLEAN
      BY <1>15, <2>2, BlockHasNumbers DEF ReadBackACL, ACLOperationIsKnown, Creating, UpdatingACL, Kept
    <3>2. DOMAIN overlays[TargetOverlay(r)].acl \subseteq SeqNumber
          /\ SeqsOf(ToModel(overlays[TargetOverlay(r)].acl)) \subseteq SeqNumber
      BY <2>2, ModelOfACL DEF IsOverlayTable, IsOverlay
    <3>3. QED
      BY <1>5, <1>15, <2>2, <3>1, <3>2 DEF ReadBackACL, Recorded, Record, NewRecord, Released, ghosts
  <2>3. QED
    BY <2>1, <2>2
<1>16. CASE OverlayRest
  BY <1>16 DEF OverlayRest, overlayVars, tfVars, ghosts
<1>17. QED
  BY <1>1, <1>2, <1>3, <1>4, <1>6, <1>7, <1>8, <1>9, <1>10, <1>11, <1>13, <1>14, <1>15, <1>16
  DEF OverlayNext, OverlayHandler

-----------------------------------------------------------------------------
(* What a step may change. *)

\* Where handlers come from.
LEMMA ACLArrivals ==
    ASSUME GuardInv, [OverlayNext]_overlayVars, NEW q \in Resource, pc'[q] # pc[q]
    PROVE  /\ pc'[q] \in Planning => StartOverlayRun \/ pc[q] \in Planning
           /\ pc[q] \in Planning => EndACLPlanning \/ pc'[q] \in Planning
           /\ pc'[q] = "plan" => ReadACL(q)
           /\ pc'[q] \in {"replan", "ready"} =>
                 pc[q] \in {"plan", "replan"} /\ (PlanACL(q) \/ PlanACLCreate(q) \/ OverlayRequestFails(q))
           /\ pc'[q] = "find" => EndACLPlanning
           /\ pc'[q] = "guard" => EndACLPlanning \/ Find(q) \/ ReadBackACL(q)
           /\ pc'[q] = "reread" => Guard(q) \/ Find(q)
           /\ pc'[q] = "put" => Reread(q)
           /\ pc'[q] = "readback" => Put(q)
           /\ pc'[q] = "ok" => EndACLPlanning \/ Find(q) \/ ReadBackACL(q)
<1> DEFINE Came ==
           /\ pc'[q] \in Planning => StartOverlayRun \/ pc[q] \in Planning
           /\ pc[q] \in Planning => EndACLPlanning \/ pc'[q] \in Planning
           /\ pc'[q] = "plan" => ReadACL(q)
           /\ pc'[q] \in {"replan", "ready"} =>
                 pc[q] \in {"plan", "replan"} /\ (PlanACL(q) \/ PlanACLCreate(q) \/ OverlayRequestFails(q))
           /\ pc'[q] = "find" => EndACLPlanning
           /\ pc'[q] = "guard" => EndACLPlanning \/ Find(q) \/ ReadBackACL(q)
           /\ pc'[q] = "reread" => Guard(q) \/ Find(q)
           /\ pc'[q] = "put" => Reread(q)
           /\ pc'[q] = "readback" => Put(q)
           /\ pc'[q] = "ok" => EndACLPlanning \/ Find(q) \/ ReadBackACL(q)
<1> USE DEF GuardInv, OverlayTypeOK, TerraformTypeOK, Goto, Planning
<1>1. CASE StartOverlayRun \/ EditOverlay \/ OverlayRest \/ UNCHANGED overlayVars
  BY <1>1 DEF StartOverlayRun, StartTerraform, EditOverlay, EditedInUI, OverlayRest, overlayVars, tfVars,
              AllEnded, Ended
<1>2. CASE EndACLPlanning
  <2>1. pc' \in [Resource -> {"find", "guard", "ok", "failed"}]
    BY <1>2 DEF EndACLPlanning, ApplyPlan
  <2>2. pc'[q] \in {"find", "guard", "ok", "failed"}
    BY <2>1
  <2>3. QED
    BY <1>2, <2>2
<1>3. ASSUME NEW r \in Resource,
             ReadACL(r) \/ PlanACL(r) \/ PlanACLCreate(r) \/ ImportACL(r) \/ Upgrade(r)
      PROVE  Came
  BY <1>3 DEF ReadACL, Refreshed, PlanACL, PlanACLCreate, Planned, ImportACL, Upgrade
<1>4. ASSUME NEW r \in Resource,
             \/ Guard(r) \/ Find(r) \/ Reread(r) \/ Put(r) \/ PutFails(r) \/ ReadBackACL(r)
      PROVE  Came
  BY <1>4 DEF Guard, Find, Reread, Put, PutFails, ReadBackACL, Removed, StoredACL
<1>5. ASSUME NEW r \in Resource, OverlayRequestFails(r) \/ PutLost(r) PROVE Came
  BY <1>5 DEF OverlayRequestFails, OverlayRequesting, FailRequest, PutLost, LoseAnswer, StoredACL
<1>6. QED
  BY <1>1, <1>2, <1>3, <1>4, <1>5 DEF OverlayNext, OverlayHandler

\* A handler that waits keeps what it has found out, and the mutex.
LEMMA ACLWaiting ==
    ASSUME GuardInv, [OverlayNext]_overlayVars, NEW q \in Resource, pc'[q] = pc[q],
           pc[q] \in {"plan", "replan", "ready"} \cup ApplyingACL
    PROVE  /\ config' = config /\ tf'[q] = tf[q] /\ managed'[q] = managed[q] /\ seen'[q] = seen[q]
           /\ q \notin stale' => q \notin stale
           /\ q \notin unguarded' => q \notin unguarded
           /\ lock = q => lock' = q
           /\ \A r \in Resource : ~Upgrade(r) /\ ~ImportACL(r)
<1> DEFINE Stays == /\ config' = config /\ tf'[q] = tf[q] /\ managed'[q] = managed[q]
                    /\ seen'[q] = seen[q]
                    /\ q \notin stale' => q \notin stale
                    /\ q \notin unguarded' => q \notin unguarded
                    /\ lock = q => lock' = q
<1> USE DEF GuardInv, OverlayTypeOK, TerraformTypeOK, Goto, ApplyingACL, ghosts
<1>1. /\ ~AllEnded /\ q # Free
      /\ \A r \in Resource : ~Upgrade(r) /\ ~ImportACL(r)
  BY TerraformAssumption DEF AllEnded, Ended, Upgrade, ImportACL, Importable
<1>2. CASE StartOverlayRun \/ EditOverlay \/ OverlayRest \/ UNCHANGED overlayVars
  BY <1>1, <1>2
  DEF StartOverlayRun, StartTerraform, EditOverlay, EditedInUI, OverlayRest, Rested, overlayVars, tfVars
<1>3. CASE EndACLPlanning
  BY <1>3 DEF EndACLPlanning, ApplyPlan
<1>4. ASSUME NEW r \in Resource, ReadACL(r) PROVE Stays
  BY <1>4 DEF ReadACL, Refreshed, Recorded, Record
<1>5. ASSUME NEW r \in Resource, PlanACL(r) \/ PlanACLCreate(r) \/ Guard(r) PROVE Stays
  BY <1>5 DEF PlanACL, PlanACLCreate, Planned, Guard
<1>6. ASSUME NEW r \in Resource, Find(r) PROVE Stays
  BY <1>6 DEF Find, Removed, Record
<1>7. ASSUME NEW r \in Resource, Reread(r) \/ Put(r) \/ PutFails(r) PROVE Stays
  BY <1>1, <1>7 DEF Reread, Put, PutFails, StoredACL, Released
<1>8. ASSUME NEW r \in Resource, ReadBackACL(r) PROVE Stays
  BY <1>1, <1>8 DEF ReadBackACL, Removed, Recorded, Record, Released
<1>9. ASSUME NEW r \in Resource, OverlayRequestFails(r) \/ PutLost(r) PROVE Stays
  BY <1>1, <1>9 DEF OverlayRequestFails, OverlayRequesting, FailRequest, PutLost, StoredACL, LoseAnswer, Released
<1>10. QED
  BY <1>1, <1>2, <1>3, <1>4, <1>5, <1>6, <1>7, <1>8, <1>9 DEF OverlayNext, OverlayHandler

\* Who writes to overlays, and what becomes of their foreign entries.
LEMMA WhoWritesOverlays ==
    ASSUME GuardInv, [OverlayNext]_overlayVars
    PROVE  \/ EditOverlay
           \/ UNCHANGED <<overlays, foreign, slipped>>
           \/ \E r \in Resource : Upgrade(r)
           \/ \E r \in Resource : StoredACL(r) /\ (Put(r) \/ PutLost(r)) /\ pc'[r] # "put"
<1> DEFINE Same == UNCHANGED <<overlays, foreign, slipped>>
<1> USE DEF GuardInv, OverlayTypeOK, TerraformTypeOK, Goto, ghosts
<1>1. CASE StartOverlayRun \/ EndACLPlanning \/ OverlayRest \/ UNCHANGED overlayVars
  BY <1>1 DEF StartOverlayRun, EndACLPlanning, OverlayRest, overlayVars
<1>2. ASSUME NEW r \in Resource,
             \/ ReadACL(r) \/ PlanACL(r) \/ PlanACLCreate(r) \/ Guard(r) \/ Find(r) \/ Reread(r)
             \/ PutFails(r) \/ ReadBackACL(r) \/ OverlayRequestFails(r) \/ ImportACL(r)
      PROVE  Same
  BY <1>2 DEF ReadACL, PlanACL, PlanACLCreate, Guard, Find, Reread, PutFails, ReadBackACL,
              OverlayRequestFails, ImportACL
<1>3. ASSUME NEW r \in Resource, Put(r) \/ PutLost(r) PROVE StoredACL(r) /\ pc'[r] # "put"
  BY <1>3 DEF Put, PutLost, LoseAnswer
<1>4. QED
  BY <1>1, <1>2, <1>3 DEF OverlayNext, OverlayHandler

-----------------------------------------------------------------------------
(* The guard invariant is inductive. *)

LEMMA OverlayLockStep == GuardInv /\ [OverlayNext]_overlayVars => WritersHoldOverlayMu'
<1> SUFFICES ASSUME GuardInv, [OverlayNext]_overlayVars, NEW q \in Resource,
                    pc'[q] \in {"put", "readback"}
             PROVE  lock' = q
  BY DEF WritersHoldOverlayMu
<1>1. CASE pc'[q] = pc[q]
  BY <1>1, ACLWaiting DEF GuardInv, WritersHoldOverlayMu, ApplyingACL
<1>2. CASE pc'[q] # pc[q]
  <2>1. Reread(q) \/ Put(q)
    BY <1>2, ACLArrivals
  <2>2. CASE Put(q)
    BY <2>2 DEF Put, StoredACL, GuardInv, WritersHoldOverlayMu
  <2>3. CASE Reread(q)
    BY <2>3 DEF Reread, Goto, GuardInv, OverlayTypeOK, TerraformTypeOK
  <2>4. QED
    BY <2>1, <2>2, <2>3
<1>3. QED
  BY <1>1, <1>2

LEMMA ACLPlanningStep == GuardInv /\ [OverlayNext]_overlayVars => ACLsPlannedTogether'
<1> SUFFICES ASSUME GuardInv, [OverlayNext]_overlayVars,
                    NEW q \in Resource, NEW r \in Resource, pc'[q] \in Planning
             PROVE  pc'[r] \in Planning
  BY DEF ACLsPlannedTogether
<1>1. CASE StartOverlayRun
  BY <1>1 DEF StartOverlayRun, StartTerraform, Planning
<1>2. CASE ~StartOverlayRun
  <2>1. pc[q] \in Planning
    BY <1>2, ACLArrivals
  <2>2. pc[r] \in Planning
    BY <2>1 DEF GuardInv, ACLsPlannedTogether
  <2>3. ~EndACLPlanning
    BY DEF EndACLPlanning, ApplyPlan, Planning
  <2>4. QED
    BY <2>2, <2>3, ACLArrivals
<1>3. QED
  BY <1>1, <1>2

LEMMA ACLOperationStep == GuardInv /\ [OverlayNext]_overlayVars => ACLOperationIsKnown'
<1> SUFFICES ASSUME GuardInv, [OverlayNext]_overlayVars, NEW q \in Resource
             PROVE  /\ pc'[q] = "find" => RemovingACL(q)'
                    /\ pc'[q] = "guard" => (Creating(q) \/ UpdatingACL(q))'
                    /\ pc'[q] \in {"reread", "put", "readback"} =>
                          \/ RemovingACL(q)'
                          \/ (Creating(q) \/ UpdatingACL(q))' /\ ValidEntries(config'[q].entries)
  BY DEF ACLOperationIsKnown
<1> USE DEF RemovingACL, Deleting, ReplacingACL, Kept, Creating, UpdatingACL
<1>1. CASE pc'[q] = pc[q]
  <2>1. pc[q] \in ApplyingACL => config' = config /\ tf'[q] = tf[q]
    BY <1>1, ACLWaiting
  <2>2. QED
    BY <1>1, <2>1 DEF GuardInv, ACLOperationIsKnown, ApplyingACL
<1>2. CASE pc'[q] # pc[q]
  <2>1. CASE EndACLPlanning
    <3>1. config' = config /\ tf' = tf
      BY <2>1 DEF EndACLPlanning, ApplyPlan
    <3>2. \/ pc'[q] = "failed"
          \/ pc'[q] = IF RemovingACL(q) THEN "find"
                      ELSE IF Creating(q) \/ UpdatingACL(q) THEN "guard" ELSE "ok"
      BY <2>1 DEF EndACLPlanning, ApplyPlan
    <3>3. QED
      BY <3>1, <3>2
  <2>2. CASE Find(q)
    <3>1. CASE tf[q].overlay \in DOMAIN overlays
      BY <2>2, <3>1
      DEF Find, Goto, GuardInv, ACLOperationIsKnown, OverlayTypeOK, TerraformTypeOK
    <3>2. CASE tf[q].overlay \notin DOMAIN overlays
      BY <2>2, <3>2
      DEF Find, Removed, Record, Goto, GuardInv, OverlayTypeOK, TerraformTypeOK
    <3>3. QED
      BY <3>1, <3>2
  <2>3. CASE ReadBackACL(q)
    <3>1. pc'[q] \in {"ok", "failed"} \/ (RemovingACL(q) /\ Removed(q))
      BY <2>3 DEF ReadBackACL, Goto, GuardInv, OverlayTypeOK, TerraformTypeOK
    <3>2. CASE RemovingACL(q) /\ Removed(q)
      BY <2>3, <3>2 DEF ReadBackACL, Removed, Record, Goto, GuardInv, OverlayTypeOK, TerraformTypeOK
    <3>3. QED
      BY <3>1, <3>2
  <2>4. CASE Guard(q)
    BY <2>4 DEF Guard, Goto, GuardInv, ACLOperationIsKnown, OverlayTypeOK, TerraformTypeOK
  <2>5. CASE Reread(q)
    BY <2>5 DEF Reread, Goto, GuardInv, ACLOperationIsKnown, OverlayTypeOK, TerraformTypeOK
  <2>6. CASE Put(q)
    BY <2>6 DEF Put, StoredACL, Goto, GuardInv, ACLOperationIsKnown, OverlayTypeOK, TerraformTypeOK
  <2>7. QED
    BY <1>2, <2>1, <2>2, <2>3, <2>4, <2>5, <2>6, ACLArrivals
<1>3. QED
  BY <1>1, <1>2

\* Where a handler is to write.
LEMMA TargetIsOverlay ==
    ASSUME GuardInv, NEW q \in Resource, pc[q] \in {"reread", "put", "readback"}
    PROVE  TargetOverlay(q) \in Overlay /\ (tf[q] # None \/ config[q] # None)
<1>1. tf[q] # None \/ config[q] # None
  BY DEF GuardInv, ACLOperationIsKnown, RemovingACL, Deleting, ReplacingACL, Kept, Creating, UpdatingACL
<1>2. QED
  BY <1>1, WrittenEntries DEF GuardInv

\* ... stays so while it waits.
LEMMA TargetStays ==
    ASSUME NEW q \in Resource, config' = config, tf'[q] = tf[q]
    PROVE  /\ TargetOverlay(q)' = TargetOverlay(q)
           /\ RemovingACL(q)' <=> RemovingACL(q)
           /\ UpdatingACL(q)' <=> UpdatingACL(q)
           /\ Creating(q)' <=> Creating(q)
BY DEF TargetOverlay, RemovingACL, Deleting, ReplacingACL, Kept, UpdatingACL, Creating

LEMMA SeenStep == GuardInv /\ [OverlayNext]_overlayVars => SeenIsCurrent'
<1> SUFFICES ASSUME GuardInv, [OverlayNext]_overlayVars, NEW q \in Resource, pc'[q] = "put"
             PROVE  /\ IsOverlay(seen'[q])
                    /\ q \notin stale' /\ TargetOverlay(q)' \in DOMAIN overlays' =>
                          seen'[q] = overlays'[TargetOverlay(q)']
  BY DEF SeenIsCurrent
<1>1. CASE pc'[q] = pc[q]
  <2>1. config' = config /\ tf'[q] = tf[q] /\ seen'[q] = seen[q] /\ (q \notin stale' => q \notin stale)
        /\ \A r \in Resource : ~Upgrade(r)
    BY <1>1, ACLWaiting DEF ApplyingACL
  <2>2. TargetOverlay(q)' = TargetOverlay(q)
    BY <2>1, TargetStays
  <2>3. EditOverlay => stale' = Resource
    BY DEF EditOverlay, EditedInUI
  <2>4. ASSUME NEW r \in Resource, StoredACL(r), pc'[r] # "put" PROVE FALSE
    BY <1>1, <2>4 DEF StoredACL, GuardInv, WritersHoldOverlayMu
  <2>5. overlays' = overlays \/ stale' = Resource
    BY <2>1, <2>3, <2>4, WhoWritesOverlays
  <2>6. QED
    BY <1>1, <2>1, <2>2, <2>5 DEF GuardInv, SeenIsCurrent
<1>2. CASE pc'[q] # pc[q]
  <2>1. Reread(q)
    BY <1>2, ACLArrivals
  <2>2. /\ TargetOverlay(q) \in DOMAIN overlays
        /\ seen'[q] = overlays[TargetOverlay(q)]
        /\ config' = config /\ tf' = tf /\ overlays' = overlays
    BY <2>1 DEF Reread, Goto, GuardInv, OverlayTypeOK, TerraformTypeOK
  <2>3. IsOverlay(seen'[q])
    BY <2>2 DEF GuardInv, OverlayTypeOK, IsOverlayTable
  <2>4. TargetOverlay(q)' = TargetOverlay(q)
    BY <2>2, TargetStays
  <2>5. QED
    BY <2>2, <2>3, <2>4
<1>3. QED
  BY <1>1, <1>2

LEMMA RecordedStep == GuardInv /\ [OverlayNext]_overlayVars => RefreshedIsRecorded'
<1> SUFFICES ASSUME GuardInv, [OverlayNext]_overlayVars, NEW q \in Resource,
                    pc'[q] \in {"plan", "replan", "ready"} \cup ApplyingACL, tf'[q] # None
             PROVE  managed'[q] # None
  BY DEF RefreshedIsRecorded
<1> USE DEF ApplyingACL
<1>1. CASE pc'[q] = pc[q]
  BY <1>1, ACLWaiting DEF GuardInv, RefreshedIsRecorded
<1>2. CASE pc'[q] # pc[q]
  <2> USE DEF Goto, ghosts
  <2>1. CASE ReadACL(q)
    <3>1. tf[q] # None => SeqsOf(tf[q].entries) # None
      <4>1. tf[q] # None => SeqsOf(tf[q].entries) \in SUBSET SeqNumber
        BY BlockHasNumbers DEF GuardInv, OverlayTypeOK, TerraformTypeOK
      <4>2. QED
        BY <4>1, OverlayAssumption
    <3>2. QED
      BY <2>1, <3>1 DEF ReadACL, Recorded, Record, GuardInv, OverlayTypeOK, TerraformTypeOK
  <2>2. CASE /\ pc[q] \in {"plan", "replan"}
             /\ PlanACL(q) \/ PlanACLCreate(q) \/ OverlayRequestFails(q)
    BY <2>2 DEF PlanACL, PlanACLCreate, OverlayRequestFails, FailRequest, GuardInv, RefreshedIsRecorded
  <2>3. CASE EndACLPlanning
    <3>1. /\ pc[q] \in {"ready", "refused"} /\ tf' = tf /\ managed' = managed
          /\ pc[q] = "refused" => pc'[q] = "failed"
      BY <2>3 DEF EndACLPlanning, ApplyPlan
    <3>2. QED
      BY <3>1 DEF GuardInv, RefreshedIsRecorded
  <2>4. CASE Find(q) \/ ReadBackACL(q)
    <3>1. (tf' = tf /\ managed' = managed /\ pc[q] \in ApplyingACL) \/ pc'[q] \in {"ok", "failed"} \/ Removed(q)
      BY <2>4 DEF Find, ReadBackACL, GuardInv, OverlayTypeOK, TerraformTypeOK
    <3>2. Removed(q) => tf'[q] = None
      BY DEF Removed, Record, GuardInv, OverlayTypeOK, TerraformTypeOK
    <3>3. QED
      BY <3>1, <3>2 DEF GuardInv, RefreshedIsRecorded
  <2>5. CASE Guard(q) \/ Reread(q) \/ Put(q)
    BY <2>5 DEF Guard, Reread, Put, StoredACL, GuardInv, RefreshedIsRecorded
  <2>6. QED
    BY <1>2, <2>1, <2>2, <2>3, <2>4, <2>5, ACLArrivals
<1>3. QED
  BY <1>1, <1>2

\* What an edit does to the entries of overlays.
LEMMA EditKinds ==
    ASSUME GuardInv, EditOverlay
    PROVE  /\ config' = config /\ tf' = tf /\ pc' = pc /\ managed' = managed
           /\ unguarded' = Resource /\ stale' = Resource
           /\ \/ \E o \in DOMAIN overlays, s \in SeqNumber :
                    /\ DOMAIN overlays' = DOMAIN overlays
                    /\ DOMAIN overlays'[o].acl = DOMAIN overlays[o].acl \cup {s}
                    /\ \A p \in DOMAIN overlays : p # o => overlays'[p] = overlays[p]
                    /\ foreign' = [foreign EXCEPT ![o] = @ \cup {s}]
                    /\ \/ slipped' = [slipped EXCEPT ![o] = @ \cup {s}]
                       \/ /\ slipped' = slipped
                          /\ \A r \in Resource : /\ s \notin TakenFor(r, o)
                                                 /\ pc[r] = "readback" => TargetOverlay(r) # o
              \/ /\ UNCHANGED <<foreign, slipped>>
                 /\ DOMAIN overlays' = DOMAIN overlays
                 /\ \A p \in DOMAIN overlays : overlays'[p].acl = overlays[p].acl
              \/ \E o \in DOMAIN overlays, gone \in SUBSET SeqNumber :
                    /\ DOMAIN overlays' = DOMAIN overlays
                    /\ DOMAIN overlays'[o].acl = DOMAIN overlays[o].acl \ gone
                    /\ \A p \in DOMAIN overlays : p # o => overlays'[p] = overlays[p]
                    /\ foreign' = [foreign EXCEPT ![o] = @ \ gone]
                    /\ slipped' = [slipped EXCEPT ![o] = @ \ gone]
              \/ \E o \in DOMAIN overlays :
                    /\ DOMAIN overlays' = DOMAIN overlays \ {o}
                    /\ \A p \in DOMAIN overlays : p # o => overlays'[p] = overlays[p]
                    /\ foreign' = [foreign EXCEPT ![o] = {}]
                    /\ slipped' = [slipped EXCEPT ![o] = {}]
<1> DEFINE Fixed == /\ config' = config /\ tf' = tf /\ pc' = pc /\ managed' = managed
                    /\ unguarded' = Resource /\ stale' = Resource
<1>1. Fixed
  BY DEF EditOverlay, EditedInUI
<1>2. \A o \in DOMAIN overlays : overlays[o] = [acl |-> overlays[o].acl, settings |-> overlays[o].settings]
  BY DEF GuardInv, OverlayTypeOK, IsOverlayTable, IsOverlay
<1>3. ASSUME NEW o \in DOMAIN overlays, NEW s \in SeqNumber, NEW w \in UIEntry,
             overlays' = [overlays EXCEPT ![o].acl = Bind(@, s, w)]
      PROVE  /\ DOMAIN overlays' = DOMAIN overlays
             /\ DOMAIN overlays'[o].acl = DOMAIN overlays[o].acl \cup {s}
             /\ \A p \in DOMAIN overlays : p # o => overlays'[p] = overlays[p]
  <2>1. overlays'[o] = [overlays[o] EXCEPT !.acl = Bind(overlays[o].acl, s, w)]
    BY <1>3
  <2>2. overlays'[o].acl = Bind(overlays[o].acl, s, w)
    BY <1>2, <2>1
  <2>3. DOMAIN overlays'[o].acl = DOMAIN overlays[o].acl \cup {s}
    BY <2>2 DEF Bind
  <2>4. QED
    BY <1>3, <2>3
<1>4. ASSUME NEW o \in DOMAIN overlays, NEW x \in Setting,
             overlays' = [overlays EXCEPT ![o].settings = x]
      PROVE  /\ DOMAIN overlays' = DOMAIN overlays
             /\ \A p \in DOMAIN overlays : overlays'[p].acl = overlays[p].acl
  <2>1. overlays'[o] = [overlays[o] EXCEPT !.settings = x]
    BY <1>4
  <2>2. overlays'[o].acl = overlays[o].acl
    BY <1>2, <2>1
  <2>3. QED
    BY <1>4, <2>2
<1>5. ASSUME NEW o \in DOMAIN overlays, overlays' = Unbind(overlays, o)
      PROVE  /\ DOMAIN overlays' = DOMAIN overlays \ {o}
             /\ \A p \in DOMAIN overlays : p # o => overlays'[p] = overlays[p]
  BY <1>5 DEF Unbind, Restrict
<1>6. CASE \E o \in DOMAIN overlays, s \in SeqNumber, w \in UIEntry :
             /\ IsWire(s, w)
             /\ overlays' = [overlays EXCEPT ![o].acl = Bind(@, s, w)]
             /\ foreign' = [foreign EXCEPT ![o] = @ \cup {s}]
             /\ slipped' = IF \E r \in Resource :
                                \/ s \in TakenFor(r, o)
                                \/ pc[r] = "readback" /\ TargetOverlay(r) = o
                           THEN [slipped EXCEPT ![o] = @ \cup {s}]
                           ELSE slipped
  <2>1. PICK o \in DOMAIN overlays, s \in SeqNumber, w \in UIEntry :
             /\ overlays' = [overlays EXCEPT ![o].acl = Bind(@, s, w)]
             /\ foreign' = [foreign EXCEPT ![o] = @ \cup {s}]
             /\ slipped' = IF \E r \in Resource :
                                \/ s \in TakenFor(r, o)
                                \/ pc[r] = "readback" /\ TargetOverlay(r) = o
                           THEN [slipped EXCEPT ![o] = @ \cup {s}]
                           ELSE slipped
    BY <1>6
  <2>2. \/ slipped' = [slipped EXCEPT ![o] = @ \cup {s}]
        \/ /\ slipped' = slipped
           /\ \A r \in Resource : /\ s \notin TakenFor(r, o)
                                  /\ pc[r] = "readback" => TargetOverlay(r) # o
    BY <2>1
  <2>3. QED
    BY <1>1, <1>3, <2>1, <2>2
<1>7. CASE \E o \in DOMAIN overlays : \E gone \in SUBSET DOMAIN overlays[o].acl \ {{}} :
             /\ overlays' = [overlays EXCEPT ![o].acl = Restrict(@, DOMAIN @ \ gone)]
             /\ foreign' = [foreign EXCEPT ![o] = @ \ gone]
             /\ slipped' = [slipped EXCEPT ![o] = @ \ gone]
  <2>1. PICK o \in DOMAIN overlays : \E gone \in SUBSET DOMAIN overlays[o].acl \ {{}} :
             /\ overlays' = [overlays EXCEPT ![o].acl = Restrict(@, DOMAIN @ \ gone)]
             /\ foreign' = [foreign EXCEPT ![o] = @ \ gone]
             /\ slipped' = [slipped EXCEPT ![o] = @ \ gone]
    BY <1>7
  <2>2. PICK gone \in SUBSET DOMAIN overlays[o].acl \ {{}} :
             /\ overlays' = [overlays EXCEPT ![o].acl = Restrict(@, DOMAIN @ \ gone)]
             /\ foreign' = [foreign EXCEPT ![o] = @ \ gone]
             /\ slipped' = [slipped EXCEPT ![o] = @ \ gone]
    BY <2>1
  <2> DEFINE d == overlays[o].acl
  <2>3. overlays'[o] = [overlays[o] EXCEPT !.acl = Restrict(d, DOMAIN d \ gone)]
    BY <2>2
  <2>4. overlays'[o].acl = Restrict(d, DOMAIN d \ gone)
    BY <1>2, <2>3
  <2>5. DOMAIN overlays'[o].acl = DOMAIN overlays[o].acl \ gone
    BY <2>4 DEF Restrict
  <2>6. gone \in SUBSET SeqNumber
    BY DEF GuardInv, OverlayTypeOK, IsOverlayTable, IsOverlay
  <2>7. /\ DOMAIN overlays' = DOMAIN overlays
        /\ \A p \in DOMAIN overlays : p # o => overlays'[p] = overlays[p]
    BY <2>2
  <2>8. QED
    BY <1>1, <2>2, <2>5, <2>6, <2>7
<1>8. CASE \E o \in DOMAIN overlays :
             /\ overlays' = Unbind(overlays, o)
             /\ foreign' = [foreign EXCEPT ![o] = {}]
             /\ slipped' = [slipped EXCEPT ![o] = {}]
  BY <1>1, <1>5, <1>8
<1>9. CASE \E o \in DOMAIN overlays, x \in Setting :
             /\ overlays' = [overlays EXCEPT ![o].settings = x]
             /\ UNCHANGED <<foreign, slipped>>
  BY <1>1, <1>4, <1>9
<1>10. QED
  BY <1>6, <1>7, <1>8, <1>9 DEF EditOverlay

\* What a PUT does to the entries of overlays.
LEMMA PutKinds ==
    ASSUME GuardInv, NEW r \in Resource, StoredACL(r)
    PROVE  LET o == TargetOverlay(r)
           IN  /\ o \in Overlay /\ o \in DOMAIN overlays
               /\ DOMAIN overlays' = DOMAIN overlays
               /\ DOMAIN overlays'[o].acl = SeqsOf(ToWrite(r))
               /\ overlays'[o].acl = BuildACL(Merged(seen[r].acl, ToWrite(r)))
               /\ overlays'[o].settings = seen[r].settings
               /\ \A p \in DOMAIN overlays : p # o => overlays'[p] = overlays[p]
               /\ foreign'[o] = {} /\ slipped'[o] = {}
               /\ \A p \in Overlay : p # o => foreign'[p] = foreign[p] /\ slipped'[p] = slipped[p]
<1> DEFINE o == TargetOverlay(r)
           v == [acl |-> BuildACL(Merged(seen[r].acl, ToWrite(r))), settings |-> seen[r].settings]
<1>1. o \in DOMAIN overlays /\ o \in Overlay /\ overlays' = [overlays EXCEPT ![o] = v]
      /\ DOMAIN v.acl = SeqsOf(ToWrite(r))
  BY StoredOverlay
<1>2. overlays'[o] = v
  BY <1>1
<1>3. foreign'[o] = {} /\ slipped'[o] = {}
      /\ \A p \in Overlay : p # o => foreign'[p] = foreign[p] /\ slipped'[p] = slipped[p]
  BY <1>1 DEF StoredACL, GuardInv, OverlayTypeOK
<1>4. DOMAIN overlays' = DOMAIN overlays /\ \A p \in DOMAIN overlays : p # o => overlays'[p] = overlays[p]
  BY <1>1
<1> HIDE DEF o
<1>5. QED
  BY <1>1, <1>2, <1>3, <1>4 DEF o

\* An upgrade forgets which entries were foreign.
LEMMA UpgradeKind ==
    ASSUME GuardInv, NEW r \in Resource, Upgrade(r)
    PROVE  \E o \in Overlay :
              /\ foreign' = [foreign EXCEPT ![o] = {}] /\ slipped' = slipped /\ overlays' = overlays
              /\ tf'[r].overlay = o
              /\ \A q \in Resource : q # r => tf'[q] = tf[q] /\ managed'[q] = managed[q]
<1>1. PICK o \in DOMAIN overlays :
          /\ Recorded(r, o, FALSE, overlays[o].acl)
          /\ foreign' = [foreign EXCEPT ![o] = {}]
  BY DEF Upgrade
<1>2. o \in Overlay
  BY DEF GuardInv, OverlayTypeOK, IsOverlayTable
<1>3. tf'[r].overlay = o
  BY <1>1 DEF Recorded, Record, GuardInv, OverlayTypeOK, TerraformTypeOK
<1>4. \A q \in Resource : q # r => tf'[q] = tf[q] /\ managed'[q] = managed[q]
  BY <1>1 DEF Recorded, Record, Upgrade, GuardInv, OverlayTypeOK, TerraformTypeOK
<1>5. QED
  BY <1>1, <1>2, <1>3, <1>4 DEF Upgrade

LEMMA ForeignStep == GuardInv /\ [OverlayNext]_overlayVars => ForeignIsStored'
<1> SUFFICES ASSUME GuardInv, [OverlayNext]_overlayVars, NEW o \in DOMAIN overlays'
             PROVE  foreign'[o] \subseteq DOMAIN overlays'[o].acl
  BY DEF ForeignIsStored
<1>1. /\ \A p \in DOMAIN overlays : p \in Overlay /\ foreign[p] \subseteq DOMAIN overlays[p].acl
      /\ foreign = [p \in Overlay |-> foreign[p]]
  BY DEF GuardInv, ForeignIsStored, OverlayTypeOK, IsOverlayTable
<1>2. CASE EditOverlay
  BY <1>1, <1>2, EditKinds
<1>3. CASE UNCHANGED <<overlays, foreign, slipped>>
  BY <1>1, <1>3
<1>4. ASSUME NEW r \in Resource, Upgrade(r) PROVE foreign'[o] \subseteq DOMAIN overlays'[o].acl
  BY <1>1, <1>4, UpgradeKind
<1>5. ASSUME NEW r \in Resource, StoredACL(r) PROVE foreign'[o] \subseteq DOMAIN overlays'[o].acl
  BY <1>1, <1>5, PutKinds
<1>6. QED
  BY <1>2, <1>3, <1>4, <1>5, WhoWritesOverlays

\* A resource takes numbers for its own when it reads back what it has put,
\* and when its provider is upgraded.
LEMMA TakenMoves ==
    ASSUME GuardInv, [OverlayNext]_overlayVars, NEW q \in Resource, NEW o \in Overlay
    PROVE  \/ TakenFor(q, o)' \subseteq TakenFor(q, o)
           \/ ReadBackACL(q) /\ o = TargetOverlay(q) /\ UNCHANGED <<overlays, foreign, slipped>>
           \/ Upgrade(q) /\ tf'[q].overlay = o
<1> DEFINE Less == TakenFor(q, o)' \subseteq TakenFor(q, o)
<1> USE DEF GuardInv, OverlayTypeOK, TerraformTypeOK, TakenFor
<1>1. ASSUME tf'[q] = tf[q], managed'[q] = managed[q] PROVE Less
  BY <1>1
<1>2. ASSUME tf'[q] = None PROVE Less
  BY <1>2
<1>3. CASE StartOverlayRun \/ EndACLPlanning \/ EditOverlay \/ OverlayRest \/ UNCHANGED overlayVars
  BY <1>1, <1>3
  DEF StartOverlayRun, StartTerraform, EndACLPlanning, ApplyPlan, EditOverlay, EditedInUI, OverlayRest,
      overlayVars, tfVars
<1>4. ASSUME NEW r \in Resource,
             \/ PlanACL(r) \/ PlanACLCreate(r) \/ Guard(r) \/ Reread(r) \/ Put(r) \/ PutFails(r)
             \/ OverlayRequestFails(r) \/ PutLost(r)
      PROVE  Less
  BY <1>1, <1>4
  DEF PlanACL, PlanACLCreate, Guard, Reread, Put, PutFails, OverlayRequestFails, FailRequest, PutLost,
      LoseAnswer
<1>5. ASSUME NEW r \in Resource, r # q,
             \/ ReadACL(r) \/ Find(r) \/ ReadBackACL(r) \/ ImportACL(r) \/ Upgrade(r)
      PROVE  Less
  BY <1>1, <1>5 DEF ReadACL, Find, ReadBackACL, Removed, ImportACL, Upgrade, Recorded, Record
<1>6. CASE ReadACL(q)
  <2>1. CASE tf'[q] = None
    BY <1>2, <2>1
  <2>2. CASE tf'[q] # None
    <3>1. tf[q] # None /\ tf'[q].overlay = tf[q].overlay
          /\ managed'[q] = IF managed[q] = None THEN SeqsOf(tf[q].entries) ELSE managed[q]
      BY <1>6, <2>2 DEF ReadACL, Recorded, Record
    <3>2. SeqsOf(tf[q].entries) # None
      <4>1. SeqsOf(tf[q].entries) \in SUBSET SeqNumber
        BY <3>1, BlockHasNumbers
      <4>2. QED
        BY <4>1, OverlayAssumption
    <3>3. QED
      BY <2>2, <3>1, <3>2
  <2>3. QED
    BY <2>1, <2>2
<1>7. CASE Find(q)
  BY <1>1, <1>2, <1>7 DEF Find, Removed, Record
<1>8. CASE ReadBackACL(q)
  <2>1. CASE TargetOverlay(q) \notin DOMAIN overlays \/ RemovingACL(q)
    BY <1>1, <1>2, <1>8, <2>1 DEF ReadBackACL, Removed, Record
  <2>2. CASE TargetOverlay(q) \in DOMAIN overlays /\ ~RemovingACL(q)
    <3>1. tf'[q].overlay = TargetOverlay(q)
      BY <1>8, <2>2 DEF ReadBackACL, Recorded, Record
    <3>2. o # TargetOverlay(q) => Less
      BY <3>1
    <3>3. UNCHANGED <<overlays, foreign, slipped>>
      BY <1>8 DEF ReadBackACL, ghosts
    <3>4. QED
      BY <1>8, <3>2, <3>3
  <2>3. QED
    BY <2>1, <2>2
<1>9. CASE ImportACL(q)
  <2>1. managed'[q] = {} /\ {} \in SUBSET SeqNumber
    BY <1>9 DEF ImportACL
  <2>2. managed'[q] # None
    BY <2>1, OverlayAssumption
  <2>3. QED
    BY <2>1, <2>2
<1>10. CASE Upgrade(q)
  <2>1. tf'[q].overlay # o => Less
    OBVIOUS
  <2>2. QED
    BY <1>10, <2>1
<1>11. QED
  BY <1>3, <1>4, <1>5, <1>6, <1>7, <1>8, <1>9, <1>10 DEF OverlayNext, OverlayHandler

LEMMA TakenStep == GuardInv /\ [OverlayNext]_overlayVars => TakenIsSlipped'
<1> SUFFICES ASSUME GuardInv, [OverlayNext]_overlayVars, NEW q \in Resource, NEW o \in Overlay
             PROVE  foreign'[o] \cap TakenFor(q, o)' \subseteq slipped'[o]
  BY DEF TakenIsSlipped
<1>1. foreign[o] \cap TakenFor(q, o) \subseteq slipped[o]
  BY DEF GuardInv, TakenIsSlipped
<1>2. CASE ReadBackACL(q) /\ o = TargetOverlay(q) /\ UNCHANGED <<overlays, foreign, slipped>>
  BY <1>2 DEF GuardInv, ReadBackIsSlipped, ReadBackACL
<1>3. CASE Upgrade(q) /\ tf'[q].overlay = o
  BY <1>3, UpgradeKind DEF GuardInv, OverlayTypeOK
<1>4. CASE TakenFor(q, o)' \subseteq TakenFor(q, o)
  <2>1. CASE EditOverlay
    <3>1. foreign \in [Overlay -> SUBSET SeqNumber] /\ slipped \in [Overlay -> SUBSET SeqNumber]
          /\ DOMAIN overlays \subseteq Overlay
      BY DEF GuardInv, OverlayTypeOK, IsOverlayTable
    <3>2. ASSUME NEW x \in foreign'[o], x \in TakenFor(q, o) PROVE x \in slipped'[o]
      <4>1. CASE x \in foreign[o]
        <5>1. x \in slipped[o] /\ foreign'[o] # {}
          BY <1>1, <3>2, <4>1
        <5>2. QED
          BY <2>1, <3>1, <5>1, EditKinds
      <4>2. CASE x \notin foreign[o]
        <5>1. PICK p \in DOMAIN overlays, n \in SeqNumber :
                 /\ foreign' = [foreign EXCEPT ![p] = @ \cup {n}]
                 /\ \/ slipped' = [slipped EXCEPT ![p] = @ \cup {n}]
                    \/ n \notin TakenFor(q, p)
          BY <2>1, <3>1, <3>2, <4>2, EditKinds
        <5>2. p = o /\ n = x
          BY <3>1, <3>2, <4>2, <5>1
        <5>3. QED
          BY <3>1, <3>2, <5>1, <5>2
      <4>3. QED
        BY <4>1, <4>2
    <3>3. QED
      BY <1>4, <3>2
  <2>2. CASE UNCHANGED <<overlays, foreign, slipped>>
    BY <1>1, <1>4, <2>2
  <2>3. ASSUME NEW r \in Resource, Upgrade(r) PROVE foreign'[o] \subseteq foreign[o] /\ slipped' = slipped
    BY <2>3, UpgradeKind DEF GuardInv, OverlayTypeOK
  <2>4. ASSUME NEW r \in Resource, StoredACL(r)
        PROVE  foreign'[o] = {} \/ (foreign'[o] = foreign[o] /\ slipped'[o] = slipped[o])
    BY <2>4, PutKinds
  <2>5. QED
    BY <1>1, <1>4, <2>1, <2>2, <2>3, <2>4, WhoWritesOverlays
<1>5. QED
  BY <1>2, <1>3, <1>4, TakenMoves

LEMMA ReadBackStep == GuardInv /\ [OverlayNext]_overlayVars => ReadBackIsSlipped'
<1> SUFFICES ASSUME GuardInv, [OverlayNext]_overlayVars, NEW q \in Resource, pc'[q] = "readback"
             PROVE  foreign'[TargetOverlay(q)'] \subseteq slipped'[TargetOverlay(q)']
  BY DEF ReadBackIsSlipped
<1>1. CASE pc'[q] # pc[q]
  <2>1. Put(q) /\ StoredACL(q)
    BY <1>1, ACLArrivals DEF Put
  <2>2. TargetOverlay(q)' = TargetOverlay(q)
    BY <2>1, TargetStays DEF Put
  <2>3. QED
    BY <2>1, <2>2, PutKinds
<1>2. CASE pc'[q] = pc[q]
  <2>1. config' = config /\ tf'[q] = tf[q] /\ \A r \in Resource : ~Upgrade(r)
    BY <1>2, ACLWaiting DEF ApplyingACL
  <2>2. TargetOverlay(q)' = TargetOverlay(q)
    BY <2>1, TargetStays
  <2>3. foreign[TargetOverlay(q)] \subseteq slipped[TargetOverlay(q)] /\ TargetOverlay(q) \in Overlay
    BY <1>2, TargetIsOverlay DEF GuardInv, ReadBackIsSlipped
  <2>4. CASE EditOverlay
    <3>1. foreign \in [Overlay -> SUBSET SeqNumber] /\ slipped \in [Overlay -> SUBSET SeqNumber]
          /\ DOMAIN overlays \subseteq Overlay
      BY DEF GuardInv, OverlayTypeOK, IsOverlayTable
    <3>2. foreign'[TargetOverlay(q)] \subseteq slipped'[TargetOverlay(q)]
      <4> DEFINE o == TargetOverlay(q)
      <4>1. foreign[o] \subseteq slipped[o] /\ o \in Overlay
            /\ \A r \in Resource : pc[r] = "readback" /\ r = q => TargetOverlay(r) = o
        BY <2>3
      <4> HIDE DEF o
      <4>2. pc[q] = "readback" /\ TargetOverlay(q) = o
        BY <1>2, <4>1
      <4>3. foreign'[o] \subseteq slipped'[o]
        BY <2>4, <3>1, <4>1, <4>2, EditKinds
      <4>4. QED
        BY <4>3 DEF o
    <3>3. QED
      BY <2>2, <3>2
  <2>5. ASSUME NEW r \in Resource, StoredACL(r)
        PROVE  foreign'[TargetOverlay(q)] \subseteq slipped'[TargetOverlay(q)]
    BY <2>3, <2>5, PutKinds
  <2>6. QED
    BY <2>1, <2>2, <2>3, <2>4, <2>5, WhoWritesOverlays
<1>3. QED
  BY <1>1, <1>2

\* The heart of the guard: what an update would drop is in the record, or has
\* come too late to be seen.
LEMMA GuardedUpdateStep == GuardInv /\ [OverlayNext]_overlayVars => GuardedUpdate'
<1> SUFFICES ASSUME GuardInv, [OverlayNext]_overlayVars, NEW q \in Resource,
                    pc'[q] \in {"reread", "put"}, UpdatingACL(q)', ~config'[q].allow,
                    q \notin unguarded'
             PROVE  foreign'[config'[q].overlay] \ SeqsOf(config'[q].entries)
                        \subseteq slipped'[config'[q].overlay]
  BY DEF GuardedUpdate
<1>1. CASE pc'[q] # pc[q]
  <2>1. Guard(q) \/ Find(q) \/ Reread(q)
    BY <1>1, ACLArrivals
  <2>2. ~Find(q)
    <3>1. Find(q) => RemovingACL(q)
      BY DEF Find, GuardInv, ACLOperationIsKnown
    <3>2. Find(q) => config' = config /\ (tf' = tf \/ tf'[q] = None)
      BY DEF Find, Removed, Record, GuardInv, OverlayTypeOK, TerraformTypeOK
    <3>3. QED
      BY <3>1, <3>2 DEF UpdatingACL, RemovingACL, Deleting, ReplacingACL, Kept
  <2>3. CASE Reread(q)
    BY <2>3 DEF Reread, ghosts, GuardInv, GuardedUpdate, UpdatingACL, ReplacingACL, Kept
  <2>4. CASE Guard(q)
    <3> DEFINE o == config[q].overlay
    <3>1. /\ config' = config /\ tf' = tf /\ foreign' = foreign /\ slipped' = slipped
          /\ pc[q] = "guard" /\ UpdatingACL(q)
      BY <2>4 DEF Guard, UpdatingACL, ReplacingACL, Kept
    <3>2. o \in DOMAIN overlays /\ GuardHolds(q, overlays[o].acl)
      BY <1>1, <2>4, <3>1 DEF Guard, Goto, GuardInv, OverlayTypeOK, TerraformTypeOK
    <3>3. Foreign(q, SeqsOf(ToModel(overlays[o].acl)) \ SeqsOf(config[q].entries)) = {}
      BY <3>1, <3>2 DEF GuardHolds
    <3>4. SeqsOf(ToModel(overlays[o].acl)) = DOMAIN overlays[o].acl /\ o \in Overlay
      BY <3>2, ModelOfACL DEF GuardInv, OverlayTypeOK, IsOverlayTable, IsOverlay
    <3>5. tf[q] # None /\ tf[q].overlay = o /\ managed[q] # None
      BY <3>1 DEF UpdatingACL, ReplacingACL, Kept, GuardInv, RefreshedIsRecorded, ApplyingACL
    <3>6. TakenFor(q, o) = managed[q]
      BY <3>5 DEF TakenFor
    <3>7. DOMAIN overlays[o].acl \ SeqsOf(config[q].entries) \subseteq managed[q]
      BY <3>3, <3>4, <3>5 DEF Foreign
    <3>8. foreign[o] \subseteq DOMAIN overlays[o].acl
      BY <3>2 DEF GuardInv, ForeignIsStored
    <3>9. foreign[o] \cap managed[q] \subseteq slipped[o]
      BY <3>4, <3>6 DEF GuardInv, TakenIsSlipped
    <3>10. foreign[o] \ SeqsOf(config[q].entries) \subseteq slipped[o]
      BY <3>7, <3>8, <3>9
    <3>11. QED
      BY <3>1, <3>10
  <2>5. QED
    BY <2>1, <2>2, <2>3, <2>4
<1>2. CASE pc'[q] = pc[q]
  <2> DEFINE o == config[q].overlay
  <2>1. config' = config /\ tf'[q] = tf[q] /\ q \notin unguarded /\ \A r \in Resource : ~Upgrade(r)
    BY <1>2, ACLWaiting DEF ApplyingACL
  <2>2. UpdatingACL(q)
    BY <2>1, TargetStays
  <2>3. foreign[o] \ SeqsOf(config[q].entries) \subseteq slipped[o]
    BY <1>2, <2>1, <2>2 DEF GuardInv, GuardedUpdate
  <2>4. o \in Overlay
    BY <2>2, BlockHasNumbers DEF UpdatingACL, Kept, GuardInv, OverlayTypeOK, TerraformTypeOK
  <2>5. ~EditOverlay
    BY EditKinds
  <2>6. CASE UNCHANGED <<overlays, foreign, slipped>>
    BY <2>1, <2>3, <2>6
  <2>7. ASSUME NEW r \in Resource, StoredACL(r)
        PROVE  foreign'[o] \ SeqsOf(config[q].entries) \subseteq slipped'[o]
    BY <2>3, <2>4, <2>7, PutKinds
  <2>8. QED
    BY <2>1, <2>5, <2>6, <2>7, WhoWritesOverlays
<1>3. QED
  BY <1>1, <1>2

LEMMA GuardInvariant == OverlaySpec => []GuardInv
<1>1. GuardInv /\ [OverlayNext]_overlayVars => GuardInv'
  <2> SUFFICES ASSUME GuardInv, [OverlayNext]_overlayVars PROVE GuardInv'
    OBVIOUS
  <2>1. QED
    BY OverlayTypeStep, OverlayLockStep, ACLPlanningStep, ACLOperationStep, SeenStep, RecordedStep,
       ForeignStep, TakenStep, ReadBackStep, GuardedUpdateStep
    DEF GuardInv
<1>2. QED
  BY <1>1, OverlayInitGuarded, PTL DEF OverlaySpec

-----------------------------------------------------------------------------
(* What follows for every configuration. *)

\* Documents are parsed and built again without a number getting lost or a
\* criterion becoming what it is not, with any entries of the Orchestrator.
THEOREM OverlaysTypeCorrect == OverlaySpec => []OverlayTypeOK
<1>1. GuardInv => OverlayTypeOK
  BY DEF GuardInv
<1>2. QED
  BY <1>1, GuardInvariant, PTL

\* A write that takes effect is a PUT.
LEMMA WritesArePuts ==
    ASSUME GuardInv, [OverlayNext]_overlayVars, NEW r \in Resource, WritingACL(r)
    PROVE  StoredACL(r)
<1>1. pc[r] = "put" /\ pc'[r] # "put" /\ overlays' # overlays
  BY DEF WritingACL
<1>2. ~EditOverlay
  BY <1>1, EditKinds
<1>3. \A q \in Resource : ~Upgrade(q)
  BY <1>1 DEF Upgrade, Importable, AllEnded, Ended
<1>4. \A q \in Resource : StoredACL(q) => q = r
  BY <1>1 DEF StoredACL, GuardInv, WritersHoldOverlayMu
<1>5. QED
  BY <1>1, <1>2, <1>3, <1>4, WhoWritesOverlays

\* The promise of the documentation: across imports, upgrades of the provider,
\* failed requests, lost answers, replacements and edits, an update drops no
\* entry that Terraform has not written, except as the property says.
THEOREM ForeignEntriesStay == OverlaySpec => ForeignEntriesSurvive
<1> DEFINE A(r) == WritingACL(r) /\ UpdatingACL(r) =>
                     config[r].allow \/ r \in unguarded \/ Dropped(r) \subseteq slipped[TargetOverlay(r)]
<1>1. ASSUME GuardInv, [OverlayNext]_overlayVars, NEW r \in Resource, WritingACL(r), UpdatingACL(r),
             ~config[r].allow, r \notin unguarded
      PROVE  Dropped(r) \subseteq slipped[TargetOverlay(r)]
  <2>1. pc[r] = "put"
    BY <1>1 DEF WritingACL
  <2>2. ~RemovingACL(r)
    BY <1>1 DEF WritingACL
  <2>3. TargetOverlay(r) = config[r].overlay /\ ToWrite(r) = config[r].entries
    BY <2>2 DEF TargetOverlay, ToWrite
  <2>4. QED
    BY <1>1, <2>1, <2>3 DEF Dropped, GuardInv, GuardedUpdate
<1>2. GuardInv /\ [OverlayNext]_overlayVars => \A r \in Resource : A(r)
  BY <1>1
<1>3. QED
  BY <1>2, GuardInvariant, PTL DEF OverlaySpec, ForeignEntriesSurvive

\* A field the client does not model is carried from the document into the one
\* that is built.
LEMMA CarriedField ==
    ASSUME NEW doc, IsACL(doc), DOMAIN doc \subseteq SeqNumber,
           NEW E, \A d, e \in E : d.seq = e.seq => d = e,
           NEW e \in E, e.seq \in DOMAIN doc,
           NEW f \in DOMAIN doc[e.seq] \ DOMAIN e.match, Unmodelled(doc[e.seq], f)
    PROVE  /\ f \in DOMAIN BuildACL(Merged(doc, E))[e.seq]
           /\ BuildACL(Merged(doc, E))[e.seq][f] = doc[e.seq][f]
<1> DEFINE X(d) == IF \E p \in ParseACL(doc) : p.seq = d.seq
                   THEN (CHOOSE p \in ParseACL(doc) : p.seq = d.seq).extra
                   ELSE <<>>
           W(d) == [seq |-> d.seq, permit |-> d.permit, match |-> d.match, extra |-> X(d)]
           s == e.seq
           own == ParseEntry(s, doc[s])
<1>1. \A t \in DOMAIN doc : ParseEntry(t, doc[t]).seq = t
  BY ParsedEntry DEF IsACL
<1>2. own \in ParseACL(doc) /\ own.seq = s /\ \A p \in ParseACL(doc) : p.seq = s => p = own
  BY <1>1 DEF ParseACL
<1>3. X(e) = own.extra
  <2> HIDE DEF own
  <2>1. (CHOOSE p \in ParseACL(doc) : p.seq = s) = own
    BY <1>2
  <2>2. QED
    BY <1>2, <2>1
<1>4. f \in DOMAIN own.extra /\ own.extra[f] = doc[s][f] /\ f \notin Reserved
  <2>1. own.extra = Restrict(doc[s], {g \in DOMAIN doc[s] \ Reserved : g \in Criterion => doc[s][g] \notin Text})
    BY DEF ParseEntry
  <2>2. f \in {g \in DOMAIN doc[s] \ Reserved : g \in Criterion => doc[s][g] \notin Text}
    BY DEF Unmodelled
  <2> HIDE DEF own
  <2>3. QED
    BY <2>1, <2>2 DEF Restrict
<1>5. Merged(doc, E) = {W(d) : d \in E}
  BY DEF Merged
<1>6. W(e).seq = s /\ W(e).match = e.match /\ W(e).extra = X(e)
  OBVIOUS
<1>7. \A d \in E : W(d).seq = d.seq
  OBVIOUS
<1> HIDE DEF X, W, own
<1>8. W(e) \in Merged(doc, E) /\ \A m \in Merged(doc, E) : m.seq = s => m = W(e)
  BY <1>5, <1>7
<1>9. (CHOOSE m \in Merged(doc, E) : m.seq = s) = W(e)
  BY <1>6, <1>8
<1>10. BuildACL(Merged(doc, E))[s] = BuildEntry(W(e))
  BY <1>6, <1>8, <1>9 DEF BuildACL
<1>11. f # "permit" /\ f \notin DOMAIN e.match /\ f \in DOMAIN X(e) \ Reserved
  BY <1>3, <1>4 DEF Reserved
<1>12. f \in DOMAIN BuildEntry(W(e)) /\ BuildEntry(W(e))[f] = X(e)[f]
  BY <1>6, <1>11 DEF BuildEntry
<1>13. QED
  BY <1>3, <1>4, <1>10, <1>12

\* What the client does not model survives every write, in every field of
\* every entry that keeps its number, unless somebody edits the overlay in the
\* middle of it.
THEOREM UnmodelledFieldsStay == OverlaySpec => UnmodelledSurvive
<1> DEFINE A(r) ==
      WritingACL(r) /\ r \notin stale =>
        LET old == overlays[TargetOverlay(r)]
            new == overlays'[TargetOverlay(r)]
        IN  /\ new.settings = old.settings
            /\ \A s \in DOMAIN old.acl, e \in config[r].entries :
                  e.seq = s =>
                      \A f \in DOMAIN old.acl[s] \ DOMAIN e.match :
                          Unmodelled(old.acl[s], f) =>
                              /\ f \in DOMAIN new.acl[s]
                              /\ new.acl[s][f] = old.acl[s][f]
<1>1. ASSUME GuardInv, [OverlayNext]_overlayVars, NEW r \in Resource PROVE A(r)
  <2> SUFFICES ASSUME WritingACL(r), r \notin stale PROVE A(r)
    OBVIOUS
  <2> DEFINE o == TargetOverlay(r)
  <2>1. StoredACL(r) /\ pc[r] = "put" /\ ~RemovingACL(r)
    BY <1>1, WritesArePuts DEF WritingACL
  <2>2. o \in DOMAIN overlays /\ overlays'[o].settings = seen[r].settings
        /\ overlays'[o].acl = BuildACL(Merged(seen[r].acl, ToWrite(r)))
    BY <1>1, <2>1, PutKinds
  <2>3. seen[r] = overlays[o] /\ IsOverlay(overlays[o])
    BY <1>1, <2>1, <2>2 DEF GuardInv, SeenIsCurrent
  <2>4. ToWrite(r) = config[r].entries /\ ValidEntries(config[r].entries)
    BY <1>1, <2>1 DEF ToWrite, GuardInv, ACLOperationIsKnown
  <2>5. \A d, e \in config[r].entries : d.seq = e.seq => d = e
    BY <2>4 DEF ValidEntries
  <2>6. DOMAIN overlays[o].acl \subseteq SeqNumber /\ IsACL(overlays[o].acl)
    BY <2>3 DEF IsOverlay
  <2>7. ASSUME NEW s \in DOMAIN overlays[o].acl, NEW e \in config[r].entries, e.seq = s,
               NEW f \in DOMAIN overlays[o].acl[s] \ DOMAIN e.match,
               Unmodelled(overlays[o].acl[s], f)
        PROVE  /\ f \in DOMAIN overlays'[o].acl[s]
               /\ overlays'[o].acl[s][f] = overlays[o].acl[s][f]
    <3>1. overlays'[o].acl = BuildACL(Merged(overlays[o].acl, config[r].entries))
      BY <2>2, <2>3, <2>4
    <3> HIDE DEF o
    <3>2. /\ f \in DOMAIN BuildACL(Merged(overlays[o].acl, config[r].entries))[e.seq]
          /\ BuildACL(Merged(overlays[o].acl, config[r].entries))[e.seq][f] = overlays[o].acl[e.seq][f]
      BY <2>5, <2>6, <2>7, CarriedField
    <3>3. QED
      BY <2>7, <3>1, <3>2
  <2>8. overlays'[o].settings = overlays[o].settings
    BY <2>2, <2>3
  <2>9. QED
    BY <2>7, <2>8
<1>2. GuardInv /\ [OverlayNext]_overlayVars => \A r \in Resource : A(r)
  BY <1>1
<1> HIDE DEF A
<1>3. OverlaySpec => [][\A r \in Resource : A(r)]_overlayVars
  BY <1>2, GuardInvariant, PTL DEF OverlaySpec
<1>4. QED
  BY <1>3 DEF UnmodelledSurvive, A

-----------------------------------------------------------------------------
(* Creates, for configurations that declare each overlay once. *)

\* The configuration changes when a run starts.
LEMMA OverlayConfigStays ==
    ASSUME GuardInv, [OverlayNext]_overlayVars
    PROVE  config' = config \/ (StartOverlayRun /\ config' \in Configs)
<1>1. CASE StartOverlayRun
  BY <1>1 DEF StartOverlayRun, StartTerraform
<1>2. CASE EndACLPlanning \/ EditOverlay \/ OverlayRest \/ UNCHANGED overlayVars
  BY <1>2 DEF EndACLPlanning, ApplyPlan, EditOverlay, EditedInUI, OverlayRest, overlayVars, tfVars
<1>3. ASSUME NEW r \in Resource,
             \/ OverlayHandler(r) \/ OverlayRequestFails(r) \/ PutLost(r) \/ ImportACL(r) \/ Upgrade(r)
      PROVE  config' = config
  BY <1>3
  DEF OverlayHandler, ReadACL, Refreshed, PlanACL, PlanACLCreate, Guard, Find, Reread, Put, PutFails,
      ReadBackACL, OverlayRequestFails, FailRequest, PutLost, LoseAnswer, ImportACL, Upgrade
<1>4. QED
  BY <1>1, <1>2, <1>3 DEF OverlayNext

LEMMA SeparateConfigStep ==
    ASSUME SeparateOverlays
    PROVE  GuardInv /\ ConfigIsSeparate /\ [OverlayNext]_overlayVars => ConfigIsSeparate'
<1> SUFFICES ASSUME GuardInv, ConfigIsSeparate, [OverlayNext]_overlayVars PROVE ConfigIsSeparate'
  OBVIOUS
<1>1. CASE config' = config
  BY <1>1 DEF ConfigIsSeparate
<1>2. CASE config' \in Configs
  BY <1>2 DEF SeparateOverlays, ConfigIsSeparate
<1>3. QED
  BY <1>1, <1>2, OverlayConfigStays

\* What becomes of the state of a resource.
LEMMA StateMoves ==
    ASSUME GuardInv, [OverlayNext]_overlayVars, NEW q \in Resource
    PROVE  \/ tf'[q] = tf[q]
           \/ tf'[q] = None
           \/ /\ ReadACL(q) /\ tf[q] # None /\ tf[q].overlay \in DOMAIN overlays
              /\ tf'[q] = [overlay |-> tf[q].overlay, allow |-> tf[q].allow,
                           entries |-> ToModel(overlays[tf[q].overlay].acl)]
           \/ /\ ReadBackACL(q) /\ ~RemovingACL(q) /\ config[q].overlay \in DOMAIN overlays
              /\ tf'[q] = [overlay |-> config[q].overlay, allow |-> config[q].allow,
                           entries |-> ToModel(overlays[config[q].overlay].acl)]
              /\ \A p \in Resource : p # q => tf'[p] = tf[p]
           \/ /\ AllEnded /\ tf[q] = None
              /\ \A p \in Resource : p # q => tf'[p] = tf[p]
              /\ \E o \in DOMAIN overlays : Importable(q, o) /\ tf'[q].overlay = o
<1> DEFINE Moves ==
           \/ tf'[q] = tf[q]
           \/ tf'[q] = None
           \/ /\ ReadACL(q) /\ tf[q] # None /\ tf[q].overlay \in DOMAIN overlays
              /\ tf'[q] = [overlay |-> tf[q].overlay, allow |-> tf[q].allow,
                           entries |-> ToModel(overlays[tf[q].overlay].acl)]
           \/ /\ ReadBackACL(q) /\ ~RemovingACL(q) /\ config[q].overlay \in DOMAIN overlays
              /\ tf'[q] = [overlay |-> config[q].overlay, allow |-> config[q].allow,
                           entries |-> ToModel(overlays[config[q].overlay].acl)]
              /\ \A p \in Resource : p # q => tf'[p] = tf[p]
           \/ /\ AllEnded /\ tf[q] = None
              /\ \A p \in Resource : p # q => tf'[p] = tf[p]
              /\ \E o \in DOMAIN overlays : Importable(q, o) /\ tf'[q].overlay = o
<1> USE DEF GuardInv, OverlayTypeOK, TerraformTypeOK
<1>1. CASE StartOverlayRun \/ EndACLPlanning \/ EditOverlay \/ OverlayRest \/ UNCHANGED overlayVars
  BY <1>1 DEF StartOverlayRun, StartTerraform, EndACLPlanning, ApplyPlan, EditOverlay, EditedInUI,
              OverlayRest, overlayVars, tfVars
<1>2. ASSUME NEW r \in Resource,
             \/ PlanACL(r) \/ PlanACLCreate(r) \/ Guard(r) \/ Reread(r) \/ Put(r) \/ PutFails(r)
             \/ OverlayRequestFails(r) \/ PutLost(r)
      PROVE  tf' = tf
  BY <1>2
  DEF PlanACL, PlanACLCreate, Guard, Reread, Put, PutFails, OverlayRequestFails, FailRequest, PutLost,
      LoseAnswer
<1>3. ASSUME NEW r \in Resource, r # q,
             \/ ReadACL(r) \/ Find(r) \/ ReadBackACL(r) \/ ImportACL(r) \/ Upgrade(r)
      PROVE  tf'[q] = tf[q]
  BY <1>3 DEF ReadACL, Find, ReadBackACL, Removed, ImportACL, Upgrade, Recorded, Record
<1>4. CASE ReadACL(q)
  BY <1>4 DEF ReadACL, Recorded, Record
<1>5. CASE Find(q)
  BY <1>5 DEF Find, Removed, Record
<1>6. CASE ReadBackACL(q)
  BY <1>6 DEF ReadBackACL, Removed, Recorded, Record, TargetOverlay
<1>7. CASE ImportACL(q) \/ Upgrade(q)
  <2>1. PICK o \in DOMAIN overlays : Importable(q, o) /\ Recorded(q, o, FALSE, overlays[o].acl)
    BY <1>7 DEF ImportACL, Upgrade
  <2>2. AllEnded /\ tf[q] = None /\ tf'[q].overlay = o /\ \A p \in Resource : p # q => tf'[p] = tf[p]
    BY <2>1 DEF Importable, Recorded, Record
  <2>3. QED
    BY <2>1, <2>2
<1>8. QED
  BY <1>1, <1>2, <1>3, <1>4, <1>5, <1>6, <1>7 DEF OverlayNext, OverlayHandler

\* Whose an overlay of the state is.
LEMMA OwnedComesFrom ==
    ASSUME GuardInv, [OverlayNext]_overlayVars, NEW q \in Resource, tf'[q] # None
    PROVE  \/ tf[q] # None /\ tf'[q].overlay = tf[q].overlay
           \/ /\ ReadBackACL(q) /\ Creating(q) /\ tf'[q].overlay = config[q].overlay
              /\ config[q].overlay \in DOMAIN overlays
              /\ \A p \in Resource : p # q => tf'[p] = tf[p]
           \/ /\ AllEnded /\ tf'[q].overlay \in DOMAIN overlays /\ Importable(q, tf'[q].overlay)
              /\ \A p \in Resource : p # q => tf'[p] = tf[p]
<1>1. CASE tf'[q] = tf[q]
  BY <1>1
<1>2. CASE ReadACL(q) /\ tf[q] # None
           /\ tf'[q] = [overlay |-> tf[q].overlay, allow |-> tf[q].allow,
                        entries |-> ToModel(overlays[tf[q].overlay].acl)]
  BY <1>2
<1>3. CASE /\ ReadBackACL(q) /\ ~RemovingACL(q) /\ config[q].overlay \in DOMAIN overlays
           /\ tf'[q] = [overlay |-> config[q].overlay, allow |-> config[q].allow,
                        entries |-> ToModel(overlays[config[q].overlay].acl)]
           /\ \A p \in Resource : p # q => tf'[p] = tf[p]
  <2>1. tf'[q].overlay = config[q].overlay
    BY <1>3
  <2>2. Creating(q) \/ (tf[q] # None /\ tf[q].overlay = config[q].overlay)
    BY <1>3 DEF Creating, RemovingACL, Deleting, ReplacingACL, Kept, ReadBackACL, GuardInv,
                ACLOperationIsKnown, UpdatingACL
  <2>3. QED
    BY <1>3, <2>1, <2>2
<1>4. CASE /\ AllEnded
           /\ \A p \in Resource : p # q => tf'[p] = tf[p]
           /\ \E o \in DOMAIN overlays : Importable(q, o) /\ tf'[q].overlay = o
  BY <1>4
<1>5. QED
  BY <1>1, <1>2, <1>3, <1>4, StateMoves

\* Overlays come from nowhere.
LEMMA OverlaysStay ==
    ASSUME GuardInv, [OverlayNext]_overlayVars, NEW o \in DOMAIN overlays'
    PROVE  o \in DOMAIN overlays
<1>1. CASE EditOverlay
  BY <1>1, EditKinds
<1>2. CASE UNCHANGED <<overlays, foreign, slipped>>
  BY <1>2
<1>3. ASSUME NEW r \in Resource, Upgrade(r) PROVE overlays' = overlays
  BY <1>3, UpgradeKind
<1>4. ASSUME NEW r \in Resource, StoredACL(r) PROVE o \in DOMAIN overlays
  BY <1>4, PutKinds
<1>5. QED
  BY <1>1, <1>2, <1>3, <1>4, WhoWritesOverlays

\* An overlay stays contested while a run lasts.
LEMMA ContestedStays ==
    ASSUME GuardInv, [OverlayNext]_overlayVars, ~StartOverlayRun
    PROVE  contested \subseteq contested'
<1>1. CASE EndACLPlanning \/ EditOverlay \/ OverlayRest \/ UNCHANGED overlayVars
  BY <1>1 DEF EndACLPlanning, EditOverlay, OverlayRest, overlayVars, ghosts
<1>2. ASSUME NEW r \in Resource,
             \/ OverlayHandler(r) \/ OverlayRequestFails(r) \/ PutLost(r) \/ ImportACL(r) \/ Upgrade(r)
      PROVE  contested \subseteq contested'
  BY <1>2
  DEF OverlayHandler, ReadACL, PlanACL, PlanACLCreate, Guard, Find, Reread, Put, PutFails, ReadBackACL,
      OverlayRequestFails, PutLost, ImportACL, Upgrade, ghosts
<1>3. QED
  BY <1>1, <1>2 DEF OverlayNext

\* Two handlers write to one overlay only when the first removes what it has
\* in state.
LEMMA WritesElsewhere ==
    ASSUME CreateInv, NEW q \in Resource, NEW r \in Resource, r # q, StoredACL(r),
           config[q] # None, tf[r] # None => tf[r].overlay # config[q].overlay
    PROVE  TargetOverlay(r) # config[q].overlay
<1>1. CASE RemovingACL(r)
  <2>1. tf[r] # None /\ TargetOverlay(r) = tf[r].overlay
    BY <1>1 DEF RemovingACL, Deleting, ReplacingACL, Kept, TargetOverlay
  <2>2. QED
    BY <2>1
<1>2. CASE ~RemovingACL(r)
  <2>1. config[r] # None /\ TargetOverlay(r) = config[r].overlay
    BY <1>2
    DEF CreateInv, GuardInv, ACLOperationIsKnown, StoredACL, Creating, UpdatingACL, Kept, TargetOverlay
  <2>2. QED
    BY <2>1 DEF CreateInv, ConfigIsSeparate
<1>3. QED
  BY <1>1, <1>2

LEMMA GuardedCreateStep == CreateInv /\ [OverlayNext]_overlayVars => GuardedCreate'
<1> SUFFICES ASSUME CreateInv, [OverlayNext]_overlayVars, NEW q \in Resource,
                    pc'[q] \in {"reread", "put"}, Creating(q)', q \notin unguarded',
                    config'[q].overlay \in DOMAIN overlays' \ contested'
             PROVE  /\ DOMAIN overlays'[config'[q].overlay].acl = {}
                    /\ OwnersOf(config[q].overlay)' = {}
  BY DEF GuardedCreate
<1>1. GuardInv /\ ConfigIsSeparate
  BY DEF CreateInv
<1>2. CASE pc'[q] # pc[q]
  <2>1. Guard(q) \/ Find(q) \/ Reread(q)
    BY <1>1, <1>2, ACLArrivals
  <2>2. ~Find(q)
    <3>1. Find(q) => tf[q] # None /\ (tf' = tf \/ Removed(q))
      BY <1>1 DEF Find, GuardInv, ACLOperationIsKnown, RemovingACL, Deleting, ReplacingACL, Kept
    <3>2. Removed(q) => pc'[q] \in {"guard", "ok"}
      BY <1>1 DEF Removed, Goto, GuardInv, OverlayTypeOK, TerraformTypeOK
    <3>3. QED
      BY <3>1, <3>2 DEF Creating
  <2>3. CASE Reread(q)
    BY <2>3 DEF Reread, ghosts, CreateInv, GuardedCreate, Creating, OwnersOf
  <2>4. CASE Guard(q)
    <3> DEFINE o == config[q].overlay
    <3>1. config' = config /\ tf' = tf /\ overlays' = overlays
      BY <2>4 DEF Guard
    <3>2. /\ ValidEntries(config[q].entries)
          /\ o \in DOMAIN overlays /\ GuardHolds(q, overlays[o].acl)
      BY <1>1, <1>2, <2>4, <3>1 DEF Guard, Goto, GuardInv, OverlayTypeOK, TerraformTypeOK
    <3>3. ~UpdatingACL(q)
      BY <3>1 DEF UpdatingACL, Kept, Creating
    <3>4. ParseACL(overlays[o].acl) = {}
      BY <3>2, <3>3 DEF GuardHolds
    <3>5. DOMAIN overlays[o].acl = {}
      BY <1>1, <3>2, <3>4, ModelOfACL DEF GuardInv, OverlayTypeOK, IsOverlayTable, IsOverlay
    <3>6. OwnersOf(o) \ {q} = {}
      BY <2>4, <3>1, <3>2, <3>5 DEF Guard
    <3>7. OwnersOf(o) = {}
      BY <3>1, <3>6 DEF OwnersOf, Creating
    <3>8. DOMAIN overlays'[config'[q].overlay].acl = {}
      BY <3>1, <3>5
    <3>9. OwnersOf(config[q].overlay)' = {}
      BY <3>1, <3>7 DEF OwnersOf
    <3>10. QED
      BY <3>8, <3>9
  <2>5. QED
    BY <2>1, <2>2, <2>3, <2>4
<1>3. CASE pc'[q] = pc[q]
  <2> DEFINE o == config[q].overlay
  <2>1. config' = config /\ tf'[q] = tf[q] /\ q \notin unguarded /\ \A r \in Resource : ~Upgrade(r)
    BY <1>1, <1>3, ACLWaiting DEF ApplyingACL
  <2>2. ~AllEnded /\ ~StartOverlayRun
    BY <1>3 DEF AllEnded, Ended, StartOverlayRun, StartTerraform
  <2>3. Creating(q) /\ o \in DOMAIN overlays \ contested
    BY <1>1, <2>1, <2>2, TargetStays, OverlaysStay, ContestedStays
  <2>4. DOMAIN overlays[o].acl = {} /\ OwnersOf(o) = {}
    BY <1>3, <2>1, <2>3 DEF CreateInv, GuardedCreate
  <2>5. ~EditOverlay
    BY <1>1, <2>1, EditKinds
  <2>6. ASSUME NEW r \in Resource, StoredACL(r), pc'[r] # "put" PROVE overlays'[o] = overlays[o]
    <3>1. r # q
      BY <1>3, <2>6 DEF StoredACL
    <3>2. TargetOverlay(r) # o
      BY <2>3, <2>4, <2>6, <3>1, WritesElsewhere DEF Creating, OwnersOf
    <3> HIDE DEF o
    <3>3. QED
      BY <1>1, <2>3, <2>6, <3>2, PutKinds
  <2>7. overlays'[o] = overlays[o]
    BY <1>1, <2>1, <2>5, <2>6, WhoWritesOverlays
  <2>8. ASSUME NEW r \in Resource, tf'[r] # None PROVE tf'[r].overlay # o
    <3>1. tf[r] # None => tf[r].overlay # o
      BY <2>4 DEF OwnersOf
    <3>2. ReadBackACL(r) /\ Creating(r) => config[r].overlay # o
      BY <1>1, <1>3, <2>3 DEF ReadBackACL, ConfigIsSeparate, Creating
    <3>3. QED
      BY <1>1, <2>2, <2>8, <3>1, <3>2, OwnedComesFrom
  <2>9. OwnersOf(config[q].overlay)' = {}
    BY <2>1, <2>8 DEF OwnersOf
  <2>10. QED
    BY <2>1, <2>4, <2>7, <2>9
<1>4. QED
  BY <1>2, <1>3

LEMMA OverlayInitCreates == OverlayInit => CreateInv
<1> SUFFICES ASSUME OverlayInit PROVE CreateInv
  OBVIOUS
<1>1. GuardInv
  BY OverlayInitGuarded
<1>2. \A r \in Resource : config[r] = None /\ tf[r] = None /\ pc[r] = "ok"
  BY DEF OverlayInit, TerraformInit
<1>3. QED
  BY <1>1, <1>2 DEF CreateInv, ConfigIsSeparate, GuardedCreate, Creating

LEMMA CreateInvariant ==
    ASSUME SeparateOverlays
    PROVE  OverlaySpec => []CreateInv
<1>1. CreateInv /\ GuardInv' /\ [OverlayNext]_overlayVars => CreateInv'
  <2> SUFFICES ASSUME CreateInv, GuardInv', [OverlayNext]_overlayVars PROVE CreateInv'
    OBVIOUS
  <2>1. ConfigIsSeparate'
    BY SeparateConfigStep DEF CreateInv
  <2>2. QED
    BY <2>1, GuardedCreateStep DEF CreateInv
<1>2. QED
  BY <1>1, OverlayInitCreates, GuardInvariant, PTL DEF OverlaySpec

\* Where each overlay is declared once, a create takes no entry from anybody,
\* although it looks for entries outside the mutex, with or without entries in
\* the blocks: but for entries of the UI that come after the look, and overlays
\* that change hands without entries, as the property says.
THEOREM CreatesDropNothing ==
    ASSUME SeparateOverlays
    PROVE  OverlaySpec => CreateDropsNothing
<1> DEFINE A(r) == WritingACL(r) /\ Creating(r) =>
                     \/ r \in unguarded \/ TargetOverlay(r) \in contested
                     \/ DOMAIN overlays[TargetOverlay(r)].acl = {}
<1>1. ASSUME CreateInv, [OverlayNext]_overlayVars, NEW r \in Resource, WritingACL(r), Creating(r),
             r \notin unguarded, TargetOverlay(r) \notin contested
      PROVE  DOMAIN overlays[TargetOverlay(r)].acl = {}
  <2>1. StoredACL(r) /\ pc[r] = "put" /\ ~RemovingACL(r)
    BY <1>1, WritesArePuts DEF WritingACL, CreateInv
  <2>2. TargetOverlay(r) = config[r].overlay /\ config[r].overlay \in DOMAIN overlays
    BY <2>1 DEF TargetOverlay, StoredACL
  <2>3. QED
    BY <1>1, <2>1, <2>2 DEF CreateInv, GuardedCreate
<1>2. CreateInv /\ [OverlayNext]_overlayVars => \A r \in Resource : A(r)
  BY <1>1
<1>3. QED
  BY <1>2, CreateInvariant, PTL DEF OverlaySpec, CreateDropsNothing

-----------------------------------------------------------------------------
(* What an applied run has stored. *)

\* Edits and lost answers are remembered.
LEMMA OverlayHappenedGrows ==
    ASSUME GuardInv, [OverlayNext]_overlayVars
    PROVE  /\ happened \subseteq happened'
           /\ EditOverlay => "edit" \in happened'
           /\ \A r \in Resource : PutLost(r) => "lost" \in happened'
<1>1. EditOverlay => happened' = happened \cup {"edit"}
  BY DEF EditOverlay, EditedInUI
<1>2. \A r \in Resource : PutLost(r) => happened' = happened \cup {"lost"}
  BY DEF PutLost, LoseAnswer
<1>3. \A r \in Resource : OverlayRequestFails(r) => happened' = happened \cup {"fault"}
  BY DEF OverlayRequestFails, FailRequest, Fault
<1>4. CASE StartOverlayRun \/ EndACLPlanning \/ OverlayRest \/ UNCHANGED overlayVars
  BY <1>1, <1>2, <1>4
  DEF StartOverlayRun, StartTerraform, EndACLPlanning, ApplyPlan, OverlayRest, overlayVars, tfVars, budgets
<1>5. ASSUME NEW r \in Resource, OverlayHandler(r) \/ ImportACL(r) \/ Upgrade(r)
      PROVE  happened' = happened
  BY <1>5
  DEF OverlayHandler, ReadACL, Refreshed, PlanACL, PlanACLCreate, Guard, Find, Reread, Put, PutFails,
      ReadBackACL, ImportACL, Upgrade, budgets
<1>6. QED
  BY <1>1, <1>2, <1>3, <1>4, <1>5 DEF OverlayNext

LEMMA OnlyEditsEvadeStep ==
    GuardInv /\ OnlyEditsEvadeGuards /\ [OverlayNext]_overlayVars => OnlyEditsEvadeGuards'
<1> SUFFICES ASSUME GuardInv, OnlyEditsEvadeGuards, [OverlayNext]_overlayVars, "edit" \notin happened'
             PROVE  unguarded' = {} /\ stale' = {}
  BY DEF OnlyEditsEvadeGuards
<1>1. unguarded = {} /\ stale = {} /\ ~EditOverlay
  BY OverlayHappenedGrows DEF OnlyEditsEvadeGuards
<1>2. CASE StartOverlayRun \/ EndACLPlanning \/ OverlayRest \/ UNCHANGED overlayVars
  BY <1>1, <1>2
  DEF StartOverlayRun, StartTerraform, EndACLPlanning, ApplyPlan, OverlayRest, overlayVars, tfVars, ghosts
<1>3. ASSUME NEW r \in Resource,
             \/ OverlayHandler(r) \/ OverlayRequestFails(r) \/ PutLost(r) \/ ImportACL(r) \/ Upgrade(r)
      PROVE  unguarded' \subseteq unguarded /\ stale' \subseteq stale
  BY <1>3
  DEF OverlayHandler, ReadACL, Refreshed, PlanACL, PlanACLCreate, Guard, Find, Reread, Put, PutFails,
      ReadBackACL, OverlayRequestFails, FailRequest, PutLost, LoseAnswer, ImportACL, Upgrade, ghosts
<1>4. QED
  BY <1>1, <1>2, <1>3 DEF OverlayNext

\* While nobody interferes, only a PUT that is answered changes overlays.
LEMMA QuietStep ==
    ASSUME ACLOwnInv, [OverlayNext]_overlayVars, Undisturbed'
    PROVE  /\ GuardInv /\ CreateInv /\ OverlayOwnersApart /\ ACLPlanIsCurrent /\ ACLEndedAsDeclared
           /\ unguarded = {} /\ unguarded' = {}
           /\ DOMAIN overlays' = DOMAIN overlays
           /\ overlays' = overlays \/ \E r \in Resource : Put(r) /\ StoredACL(r)
<1>1. GuardInv /\ CreateInv /\ OnlyEditsEvadeGuards
  BY DEF ACLOwnInv, CreateInv
<1>2. happened' \subseteq {"fault"} /\ happened \subseteq happened'
  BY <1>1, OverlayHappenedGrows DEF Undisturbed
<1>3. Undisturbed /\ "edit" \notin happened' /\ "lost" \notin happened'
  BY <1>2 DEF Undisturbed
<1>4. ~EditOverlay /\ \A r \in Resource : ~PutLost(r)
  BY <1>1, <1>3, OverlayHappenedGrows
<1>5. OverlayOwnersApart /\ ACLPlanIsCurrent /\ ACLEndedAsDeclared
  BY <1>3 DEF ACLOwnInv
<1>6. OnlyEditsEvadeGuards'
  BY <1>1, OnlyEditsEvadeStep
<1>7. unguarded = {} /\ unguarded' = {}
  BY <1>1, <1>2, <1>3, <1>6 DEF OnlyEditsEvadeGuards
<1>8. overlays' = overlays \/ \E r \in Resource : Put(r) /\ StoredACL(r)
  BY <1>1, <1>4, UpgradeKind, WhoWritesOverlays
<1>9. DOMAIN overlays' = DOMAIN overlays
  BY <1>1, <1>8, PutKinds
<1>10. QED
  BY <1>1, <1>5, <1>7, <1>8, <1>9

LEMMA OwnersApartStep == ACLOwnInv /\ [OverlayNext]_overlayVars /\ Undisturbed' => OverlayOwnersApart'
<1> SUFFICES ASSUME ACLOwnInv, [OverlayNext]_overlayVars, Undisturbed' PROVE OverlayOwnersApart'
  OBVIOUS
<1>1. GuardInv /\ CreateInv /\ OverlayOwnersApart /\ unguarded = {} /\ DOMAIN overlays' = DOMAIN overlays
  BY QuietStep
<1>2. ASSUME NEW r \in Resource, tf'[r] # None PROVE tf'[r].overlay \in DOMAIN overlays'
  BY <1>1, <1>2, OwnedComesFrom DEF OverlayOwnersApart
<1>3. ASSUME NEW q \in Resource, NEW r \in Resource, q # r, tf'[q] # None, tf'[r] # None,
             tf'[q].overlay = tf'[r].overlay, tf'[q].overlay \notin contested'
      PROVE  FALSE
  <2>1. CASE StartOverlayRun
    <3>1. tf' = tf /\ contested' = {o \in contested : \E x, y \in OwnersOf(o) : x # y}
      BY <2>1 DEF StartOverlayRun, StartTerraform
    <3>2. tf[q].overlay \in contested
      BY <1>1, <1>3, <3>1 DEF OverlayOwnersApart
    <3>3. q \in OwnersOf(tf[q].overlay) /\ r \in OwnersOf(tf[q].overlay)
      BY <1>3, <3>1 DEF OwnersOf
    <3>4. QED
      BY <1>3, <3>1, <3>2, <3>3
  <2>2. CASE ~StartOverlayRun
    <3>1. contested \subseteq contested'
      BY <1>1, <2>2, ContestedStays
    <3>2. ASSUME NEW x \in Resource, NEW y \in Resource, x # y, tf'[x] # None, tf'[y] # None,
                 tf'[x].overlay \notin contested, ~(tf[x] # None /\ tf'[x].overlay = tf[x].overlay)
          PROVE  tf'[x].overlay # tf'[y].overlay
      <4>1. CASE ReadBackACL(x) /\ Creating(x) /\ tf'[x].overlay = config[x].overlay /\ tf'[y] = tf[y]
        <5>1. pc[x] = "readback"
          BY <4>1 DEF ReadBackACL
        <5>2. QED
          BY <1>1, <3>2, <4>1, <5>1 DEF OverlayOwnersApart
      <4>2. CASE Importable(x, tf'[x].overlay) /\ tf'[y] = tf[y]
        BY <3>2, <4>2 DEF Importable, OwnersOf
      <4>3. QED
        BY <1>1, <3>2, <4>1, <4>2, OwnedComesFrom
    <3>3. CASE /\ tf[q] # None /\ tf'[q].overlay = tf[q].overlay
               /\ tf[r] # None /\ tf'[r].overlay = tf[r].overlay
      BY <1>1, <1>3, <3>1, <3>3 DEF OverlayOwnersApart
    <3>4. QED
      BY <1>3, <3>1, <3>2, <3>3
  <2>3. QED
    BY <2>1, <2>2
<1>4. ASSUME NEW q \in Resource, NEW r \in Resource, pc'[r] = "readback", Creating(r)', tf'[q] # None,
             config'[r].overlay \notin contested'
      PROVE  tf'[q].overlay # config'[r].overlay
  <2>1. CASE pc'[r] # pc[r]
    <3>1. Put(r)
      BY <1>1, <1>4, <2>1, ACLArrivals
    <3>2. /\ config' = config /\ tf' = tf /\ contested' = contested
          /\ pc[r] = "put" /\ Creating(r)
      BY <1>4, <3>1 DEF Put, StoredACL, Creating
    <3>3. config[r].overlay \in DOMAIN overlays
      BY <3>1, <3>2 DEF Put, StoredACL, TargetOverlay, Creating, RemovingACL, Deleting, ReplacingACL, Kept
    <3>4. OwnersOf(config[r].overlay) = {}
      BY <1>1, <1>4, <3>2, <3>3 DEF CreateInv, GuardedCreate
    <3>5. QED
      BY <1>4, <3>2, <3>4 DEF OwnersOf
  <2>2. CASE pc'[r] = pc[r]
    <3>1. config' = config /\ tf'[r] = tf[r]
      BY <1>1, <1>4, <2>2, ACLWaiting DEF ApplyingACL
    <3>2. Creating(r) /\ pc[r] = "readback" /\ q # r /\ ~AllEnded /\ ~StartOverlayRun
      BY <1>4, <2>2, <3>1 DEF Creating, AllEnded, Ended, StartOverlayRun, StartTerraform
    <3>6. config[r].overlay \notin contested
      BY <1>1, <1>4, <3>1, <3>2, ContestedStays
    <3>3. CASE tf[q] # None /\ tf'[q].overlay = tf[q].overlay
      BY <1>1, <3>1, <3>2, <3>3, <3>6 DEF OverlayOwnersApart
    <3>4. CASE ReadBackACL(q) /\ Creating(q) /\ tf'[q].overlay = config[q].overlay
      BY <1>1, <3>1, <3>2, <3>4 DEF CreateInv, ConfigIsSeparate, Creating
    <3>5. QED
      BY <1>1, <1>4, <3>2, <3>3, <3>4, OwnedComesFrom
  <2>3. QED
    BY <2>1, <2>2
<1>5. QED
  BY <1>2, <1>3, <1>4 DEF OverlayOwnersApart

LEMMA PlanIsCurrentStep == ACLOwnInv /\ [OverlayNext]_overlayVars /\ Undisturbed' => ACLPlanIsCurrent'
<1> SUFFICES ASSUME ACLOwnInv, [OverlayNext]_overlayVars, Undisturbed', NEW q \in Resource,
                    pc'[q] \in {"plan", "replan", "ready"}, tf'[q] # None
             PROVE  tf'[q].entries = ToModel(overlays'[tf'[q].overlay].acl)
  BY DEF ACLPlanIsCurrent
<1>1. GuardInv /\ ACLPlanIsCurrent
  BY QuietStep
<1>2. overlays' = overlays
  <2>1. \A r \in Resource : pc'[r] \in Planning
    BY <1>1, ACLPlanningStep DEF ACLsPlannedTogether, Planning
  <2>2. ASSUME NEW r \in Resource, Put(r) PROVE pc'[r] = "readback"
    BY <1>1, <2>2 DEF Put, Goto, GuardInv, OverlayTypeOK, TerraformTypeOK
  <2>3. QED
    BY <2>1, <2>2, QuietStep DEF Planning
<1>3. CASE pc'[q] = pc[q]
  <2>1. tf'[q] = tf[q]
    BY <1>1, <1>3, ACLWaiting
  <2>2. QED
    BY <1>1, <1>2, <1>3, <2>1 DEF ACLPlanIsCurrent
<1>4. CASE pc'[q] # pc[q]
  <2>1. CASE ReadACL(q)
    <3>1. tf[q] # None /\ tf'[q] = [overlay |-> tf[q].overlay, allow |-> tf[q].allow,
                                    entries |-> ToModel(overlays[tf[q].overlay].acl)]
      BY <1>1, <2>1 DEF ReadACL, Recorded, Record, GuardInv, OverlayTypeOK, TerraformTypeOK
    <3>2. QED
      BY <1>2, <3>1
  <2>2. CASE pc[q] \in {"plan", "replan"} /\ (PlanACL(q) \/ PlanACLCreate(q) \/ OverlayRequestFails(q))
    <3>1. tf' = tf
      BY <2>2 DEF PlanACL, PlanACLCreate, OverlayRequestFails, FailRequest
    <3>2. QED
      BY <1>1, <1>2, <2>2, <3>1 DEF ACLPlanIsCurrent
  <2>3. QED
    BY <1>1, <1>4, <2>1, <2>2, ACLArrivals
<1>5. QED
  BY <1>3, <1>4

\* What has ended well keeps its state until the next run.
LEMMA EndedACLStays ==
    ASSUME GuardInv, [OverlayNext]_overlayVars, NEW q \in Resource, pc[q] = "ok", pc'[q] = "ok",
           tf[q] # None
    PROVE  tf'[q] = tf[q] /\ config' = config
<1>1. ~StartOverlayRun
  BY DEF StartOverlayRun, StartTerraform
<1>2. ~ReadACL(q) /\ ~ReadBackACL(q) /\ ~Find(q)
  BY DEF ReadACL, ReadBackACL, Find
<1>3. tf'[q] = tf[q]
  <2> USE DEF GuardInv, OverlayTypeOK, TerraformTypeOK
  <2>1. CASE EndACLPlanning \/ EditOverlay \/ OverlayRest \/ UNCHANGED overlayVars
    BY <2>1 DEF EndACLPlanning, ApplyPlan, EditOverlay, EditedInUI, OverlayRest, overlayVars, tfVars
  <2>2. ASSUME NEW r \in Resource, r # q,
               ReadACL(r) \/ Find(r) \/ ReadBackACL(r) \/ ImportACL(r) \/ Upgrade(r)
        PROVE  tf'[q] = tf[q]
    BY <2>2 DEF ReadACL, Find, ReadBackACL, Removed, ImportACL, Upgrade, Recorded, Record
  <2>3. ASSUME NEW r \in Resource,
               \/ PlanACL(r) \/ PlanACLCreate(r) \/ Guard(r) \/ Reread(r) \/ Put(r) \/ PutFails(r)
               \/ OverlayRequestFails(r) \/ PutLost(r)
        PROVE  tf'[q] = tf[q]
    BY <2>3
    DEF PlanACL, PlanACLCreate, Guard, Reread, Put, PutFails, OverlayRequestFails, FailRequest, PutLost,
        LoseAnswer
  <2>4. ~ImportACL(q) /\ ~Upgrade(q)
    BY DEF ImportACL, Upgrade, Importable
  <2>5. QED
    BY <1>1, <1>2, <2>1, <2>2, <2>3, <2>4 DEF OverlayNext, OverlayHandler
<1>4. QED
  BY <1>1, <1>3, OverlayConfigStays

LEMMA EndedAsDeclaredStep == ACLOwnInv /\ [OverlayNext]_overlayVars /\ Undisturbed' => ACLEndedAsDeclared'
<1> SUFFICES ASSUME ACLOwnInv, [OverlayNext]_overlayVars, Undisturbed', NEW q \in Resource,
                    pc'[q] = "ok", config'[q] # None, config'[q].overlay \notin contested'
             PROVE  /\ tf'[q] = config'[q]
                    /\ ToModel(overlays'[config'[q].overlay].acl) = config'[q].entries
  BY DEF ACLEndedAsDeclared
<1>1. /\ GuardInv /\ CreateInv /\ OverlayOwnersApart /\ ACLPlanIsCurrent /\ ACLEndedAsDeclared
      /\ overlays' = overlays \/ \E r \in Resource : Put(r) /\ StoredACL(r)
  BY QuietStep
<1>2. CASE pc'[q] # pc[q]
  <2>1. CASE EndACLPlanning
    <3>1. /\ config' = config /\ tf' = tf /\ overlays' = overlays
          /\ pc[q] \in {"ready", "refused"}
          /\ \A r \in Resource : pc[r] # "refused"
          /\ ~RemovingACL(q) /\ ~Creating(q) /\ ~UpdatingACL(q)
      BY <2>1 DEF EndACLPlanning, ApplyPlan
    <3>2. tf[q] = config[q] /\ tf[q] # None /\ pc[q] = "ready"
      BY <3>1 DEF RemovingACL, Deleting, ReplacingACL, Kept, Creating, UpdatingACL
    <3>3. tf[q].entries = ToModel(overlays[tf[q].overlay].acl)
      BY <1>1, <3>2 DEF ACLPlanIsCurrent
    <3>4. QED
      BY <3>1, <3>2, <3>3
  <2>2. ASSUME RemovingACL(q), Removed(q), config' = config PROVE FALSE
    <3>1. ~ReplacingACL(q)
      BY <1>1, <2>2 DEF Removed, Goto, GuardInv, OverlayTypeOK, TerraformTypeOK
    <3>2. QED
      BY <2>2, <3>1 DEF RemovingACL, Deleting
  <2>3. CASE Find(q)
    <3>1. RemovingACL(q) /\ config' = config
      BY <1>1, <2>3 DEF Find, GuardInv, ACLOperationIsKnown
    <3>2. Removed(q)
      BY <1>1, <2>3 DEF Find, Goto, GuardInv, OverlayTypeOK, TerraformTypeOK
    <3>3. QED
      BY <2>2, <3>1, <3>2
  <2>4. CASE ReadBackACL(q)
    <3>1. config' = config /\ overlays' = overlays
      BY <2>4 DEF ReadBackACL
    <3>2. TargetOverlay(q) \in DOMAIN overlays /\ ~RemovingACL(q)
      BY <1>1, <2>2, <2>4, <3>1 DEF ReadBackACL, Goto, GuardInv, OverlayTypeOK, TerraformTypeOK
    <3>3. TargetOverlay(q) = config[q].overlay
      BY <3>2 DEF TargetOverlay
    <3>4. /\ tf'[q] = [overlay |-> config[q].overlay, allow |-> config[q].allow,
                       entries |-> ToModel(overlays[config[q].overlay].acl)]
          /\ ToModel(overlays[config[q].overlay].acl) = config[q].entries
      BY <1>1, <2>4, <3>2, <3>3
      DEF ReadBackACL, Recorded, Record, Goto, GuardInv, OverlayTypeOK, TerraformTypeOK
    <3>5. config[q] = [overlay |-> config[q].overlay, allow |-> config[q].allow,
                       entries |-> config[q].entries]
      BY <1>1, <3>1, BlockHasNumbers DEF GuardInv, OverlayTypeOK, TerraformTypeOK
    <3>6. QED
      BY <3>1, <3>4, <3>5
  <2>5. QED
    BY <1>1, <1>2, <2>1, <2>3, <2>4, ACLArrivals
<1>3. CASE pc'[q] = pc[q]
  <2> DEFINE o == config[q].overlay
  <2>1. config' = config /\ o \notin contested
    BY <1>1, <1>3, OverlayConfigStays, ContestedStays DEF StartOverlayRun, StartTerraform
  <2>2. tf[q] = config[q] /\ tf[q] # None /\ ToModel(overlays[o].acl) = config[q].entries
    BY <1>1, <1>3, <2>1 DEF ACLEndedAsDeclared
  <2>3. tf'[q] = tf[q]
    BY <1>1, <1>3, <2>2, EndedACLStays
  <2>4. o \in DOMAIN overlays
    BY <1>1, <2>2 DEF OverlayOwnersApart
  <2>5. ASSUME NEW r \in Resource, StoredACL(r) PROVE overlays'[o] = overlays[o]
    <3>1. r # q
      BY <1>3, <2>5 DEF StoredACL
    <3>2. tf[r] # None => tf[r].overlay # o
      BY <1>1, <2>1, <2>2, <3>1 DEF OverlayOwnersApart
    <3>3. TargetOverlay(r) # o
      BY <1>1, <2>1, <2>5, <3>1, <3>2, WritesElsewhere
    <3> HIDE DEF o
    <3>4. QED
      BY <1>1, <2>4, <2>5, <3>3, PutKinds
  <2>6. overlays'[o] = overlays[o]
    BY <1>1, <2>5
  <2>7. QED
    BY <2>1, <2>2, <2>3, <2>6
<1>4. QED
  BY <1>2, <1>3

\* A run that ends well has stored what was declared, and recorded what is
\* stored, in the face of failed requests, imports and other runs, where each
\* overlay is declared once: but for overlays that change hands without
\* entries, as the property says.
THEOREM AppliedACLsAreStored ==
    ASSUME SeparateOverlays
    PROVE  OverlaySpec => []AppliedACLIsStored
<1>1. OverlayInit => ACLOwnInv
  <2> SUFFICES ASSUME OverlayInit, CreateInv PROVE ACLOwnInv
    BY OverlayInitCreates
  <2>1. /\ happened = {} /\ unguarded = {} /\ stale = {}
        /\ \A r \in Resource : config[r] = None /\ tf[r] = None /\ pc[r] = "ok"
    BY DEF OverlayInit, TerraformInit
  <2>2. QED
    BY <2>1 DEF ACLOwnInv, OnlyEditsEvadeGuards, OverlayOwnersApart, ACLPlanIsCurrent, ACLEndedAsDeclared
<1>2. ACLOwnInv /\ CreateInv' /\ [OverlayNext]_overlayVars => ACLOwnInv'
  <2> SUFFICES ASSUME ACLOwnInv, CreateInv', [OverlayNext]_overlayVars PROVE ACLOwnInv'
    OBVIOUS
  <2>1. OnlyEditsEvadeGuards'
    BY OnlyEditsEvadeStep DEF ACLOwnInv, CreateInv
  <2>2. QED
    BY <2>1, OwnersApartStep, PlanIsCurrentStep, EndedAsDeclaredStep DEF ACLOwnInv
<1>3. ACLOwnInv => AppliedACLIsStored
  BY DEF ACLOwnInv, AppliedACLIsStored, ACLEndedAsDeclared, OverlayOwnersApart
<1>4. QED
  BY <1>1, <1>2, <1>3, CreateInvariant, PTL DEF OverlaySpec

-----------------------------------------------------------------------------
(* What the end of every handler of an overlay ACL rests on. *)

\* overlayMu is held by a handler that has a request to send under it: no path
\* through SetOverlayACL, and no failure, leaves it locked.
OverlayMuIsHeld == lock # Free => pc[lock] \in {"put", "readback"}

\* Nothing that another handler does or waits for stops r where it is.
ACLCanMove(r) ==
    \/ pc[r] \in {"refresh", "plan", "replan", "guard", "find", "put", "readback"}
    \/ pc[r] = "reread" /\ lock = Free

\* As long as a handler has not ended, one can move, or planning is over.
NoACLIsStuck ==
    (\E r \in Resource : pc[r] \notin Ended) =>
        \/ \E r \in Resource : ACLCanMove(r)
        \/ \A r \in Resource : pc[r] \in {"ready", "refused"}

\* How many steps the handler of r takes at most until the run is over; the
\* block of a replacement is removed first and then goes through the guard.
ACLStepsLeft(r) ==
    CASE pc[r] = "refresh"              -> 12
      [] pc[r] = "plan"                 -> 11
      [] pc[r] = "replan"               -> 10
      [] pc[r] \in {"ready", "refused"} -> 9
      [] pc[r] = "find"                 -> 8
      [] pc[r] = "reread"               -> IF RemovingACL(r) THEN 7 ELSE 3
      [] pc[r] = "put"                  -> IF RemovingACL(r) THEN 6 ELSE 2
      [] pc[r] = "readback"             -> IF RemovingACL(r) THEN 5 ELSE 1
      [] pc[r] = "guard"                -> 4
      [] OTHER                          -> 0

\* Until the next run is started, a step of r brings its end closer, and no
\* other step takes it farther away.
ACLHandlersAdvance ==
    [][runs' = runs =>
         \A r \in Resource :
            /\ pc'[r] # pc[r] => ACLStepsLeft(r)' < ACLStepsLeft(r)
            /\ pc'[r] = pc[r] => ACLStepsLeft(r)' = ACLStepsLeft(r)]_overlayVars

\* Where a handler goes with overlayMu.
LEMMA OverlayMuStep == GuardInv /\ OverlayMuIsHeld /\ [OverlayNext]_overlayVars => OverlayMuIsHeld'
<1> SUFFICES ASSUME GuardInv, OverlayMuIsHeld, [OverlayNext]_overlayVars
             PROVE  OverlayMuIsHeld'
  OBVIOUS
<1>0. /\ pc \in [Resource -> Ended \cup Planning \cup ApplyingACL]
      /\ lock \in Resource \cup {Free}
      /\ \A r \in Resource : pc[r] \in {"put", "readback"} => lock = r
  BY DEF GuardInv, OverlayTypeOK, TerraformTypeOK, WritersHoldOverlayMu
<1> USE DEF OverlayMuIsHeld, Goto, Released
<1>1. CASE StartOverlayRun
  BY <1>0, <1>1 DEF StartOverlayRun, StartTerraform, AllEnded, Ended
<1>2. CASE EndACLPlanning
  <2>1. lock' = lock /\ \A r \in Resource : pc[r] \in {"ready", "refused"}
    BY <1>2 DEF EndACLPlanning, ApplyPlan
  <2>2. QED
    BY <1>0, <2>1
<1>3. ASSUME NEW r \in Resource,
             OverlayHandler(r) \/ OverlayRequestFails(r) \/ PutLost(r)
      PROVE  OverlayMuIsHeld'
  <2>1. CASE ReadACL(r) \/ PlanACL(r) \/ PlanACLCreate(r)
    BY <1>0, <2>1 DEF ReadACL, Refreshed, PlanACL, PlanACLCreate
  <2>2. CASE Guard(r)
    BY <1>0, <2>2 DEF Guard
  <2>3. CASE Find(r)
    BY <1>0, <2>3 DEF Find, Removed
  <2>4. CASE Reread(r)
    BY <1>0, <2>4 DEF Reread
  <2>5. CASE Put(r) \/ PutFails(r)
    BY <1>0, <2>5 DEF Put, PutFails, StoredACL
  <2>6. CASE ReadBackACL(r)
    BY <1>0, <2>6 DEF ReadBackACL
  <2>7. CASE OverlayRequestFails(r) \/ PutLost(r)
    BY <1>0, <2>7 DEF OverlayRequestFails, FailRequest, OverlayRequesting, PutLost, LoseAnswer, StoredACL
  <2>8. QED
    BY <1>3, <2>1, <2>2, <2>3, <2>4, <2>5, <2>6, <2>7 DEF OverlayHandler
<1>4. CASE (\E r \in Resource : ImportACL(r) \/ Upgrade(r)) \/ EditOverlay \/ OverlayRest
           \/ UNCHANGED overlayVars
  BY <1>0, <1>4 DEF ImportACL, Upgrade, EditOverlay, EditedInUI, OverlayRest, overlayVars, tfVars
<1>5. QED
  BY <1>1, <1>2, <1>3, <1>4 DEF OverlayNext

\* A handler that waits for overlayMu waits for one that can send its next
\* request, whatever has failed before; so a run only stops at its end.
THEOREM OverlayHandlersAreNotStuck == OverlaySpec => []NoACLIsStuck
<1>1. OverlayInit => OverlayMuIsHeld
  BY DEF OverlayInit, TerraformInit, OverlayMuIsHeld
<1>2. GuardInv /\ OverlayMuIsHeld => NoACLIsStuck
  <2> SUFFICES ASSUME GuardInv, OverlayMuIsHeld, NEW r \in Resource, pc[r] \notin Ended
               PROVE  \/ \E q \in Resource : ACLCanMove(q)
                      \/ \A q \in Resource : pc[q] \in {"ready", "refused"}
    BY DEF NoACLIsStuck
  <2>1. pc[r] \in Planning \cup ApplyingACL /\ lock \in Resource \cup {Free}
    BY DEF GuardInv, OverlayTypeOK, TerraformTypeOK
  <2>2. CASE pc[r] \in Planning
    BY <2>2 DEF GuardInv, ACLsPlannedTogether, Planning, ACLCanMove
  <2>3. CASE pc[r] \in ApplyingACL /\ lock = Free
    BY <2>3 DEF ApplyingACL, ACLCanMove
  <2>4. CASE lock # Free
    BY <2>1, <2>4 DEF OverlayMuIsHeld, ACLCanMove
  <2>5. QED
    BY <2>1, <2>2, <2>3, <2>4
<1>3. OverlaySpec => []OverlayMuIsHeld
  BY <1>1, OverlayMuStep, GuardInvariant, PTL DEF OverlaySpec
<1>4. QED
  BY <1>2, <1>3, GuardInvariant, PTL

\* The step of a handler itself.
LEMMA OwnACLStep ==
    ASSUME GuardInv, NEW r \in Resource, pc'[r] # pc[r],
           OverlayHandler(r) \/ OverlayRequestFails(r) \/ PutLost(r)
    PROVE  ACLStepsLeft(r)' < ACLStepsLeft(r)
<1>0. /\ pc \in [Resource -> Ended \cup Planning \cup ApplyingACL]
      /\ tf \in [Resource -> Block \cup {None}] /\ None \notin Block
      /\ config \in [Resource -> Block \cup {None}]
  BY OverlayAssumption DEF GuardInv, OverlayTypeOK, TerraformTypeOK
<1>1. /\ pc[r] = "find" => RemovingACL(r)
      /\ pc[r] = "guard" => ~RemovingACL(r)
  BY DEF GuardInv, ACLOperationIsKnown, RemovingACL, UpdatingACL, Creating, Deleting, ReplacingACL, Kept
<1>2. config' = config /\ tf'[r] = tf[r] => (RemovingACL(r)' <=> RemovingACL(r))
  BY DEF RemovingACL, Deleting, ReplacingACL, Kept
<1> USE DEF Goto, ACLStepsLeft
<1>3. CASE ReadACL(r) \/ PlanACL(r) \/ PlanACLCreate(r)
  BY <1>0, <1>3 DEF ReadACL, Refreshed, PlanACL, PlanACLCreate, Planned
<1>4. CASE Guard(r)
  <2>1. config' = config /\ tf' = tf /\ pc[r] = "guard" /\ pc'[r] \in {"reread", "failed"}
    BY <1>0, <1>4 DEF Guard
  <2>2. QED
    BY <1>1, <1>2, <2>1
<1>5. CASE Find(r)
  <2>1. \/ pc[r] = "find" /\ pc'[r] = "reread" /\ tf' = tf /\ config' = config
        \/ pc[r] = "find" /\ pc'[r] \in {"guard", "ok"}
    BY <1>0, <1>5 DEF Find, Removed
  <2>2. QED
    BY <1>1, <1>2, <2>1
<1>6. CASE Reread(r)
  <2>1. config' = config /\ tf' = tf /\ pc[r] = "reread" /\ pc'[r] \in {"put", "failed"}
    BY <1>0, <1>6 DEF Reread
  <2>2. QED
    BY <1>2, <2>1
<1>7. CASE Put(r) \/ PutFails(r)
  <2>1. config' = config /\ tf' = tf /\ pc[r] = "put" /\ pc'[r] \in {"readback", "failed"}
    BY <1>0, <1>7 DEF Put, PutFails, StoredACL
  <2>2. QED
    BY <1>2, <2>1
<1>8. CASE ReadBackACL(r)
  <2>1. pc[r] = "readback" /\ (pc'[r] \in {"ok", "failed"} \/ (RemovingACL(r) /\ pc'[r] = "guard"))
    BY <1>0, <1>8 DEF ReadBackACL, Removed
  <2>2. QED
    BY <2>1
<1>9. CASE OverlayRequestFails(r)
  <2>1. \/ pc[r] = "refresh" /\ pc'[r] = "refused"
        \/ pc[r] \in {"plan", "replan"} /\ pc'[r] = "ready"
        \/ pc[r] \in ApplyingACL /\ pc'[r] = "failed"
    BY <1>0, <1>9 DEF OverlayRequestFails, OverlayRequesting, FailRequest, ApplyingACL
  <2>2. QED
    BY <2>1 DEF ApplyingACL
<1>10. CASE PutLost(r)
  <2>1. pc[r] = "put" /\ pc'[r] = "failed"
    BY <1>0, <1>10 DEF PutLost, StoredACL, LoseAnswer
  <2>2. QED
    BY <2>1
<1>11. QED
  BY <1>3, <1>4, <1>5, <1>6, <1>7, <1>8, <1>9, <1>10 DEF OverlayHandler

\* Each step of a handler brings its end closer and no step takes it farther
\* away, so a run is over after at most twelve steps of each block, those of
\* a replacement included.
THEOREM OverlayHandlersAdvance == OverlaySpec => ACLHandlersAdvance
<1>1. ASSUME GuardInv, [OverlayNext]_overlayVars, runs' = runs, NEW q \in Resource, pc'[q] # pc[q]
      PROVE  ACLStepsLeft(q)' < ACLStepsLeft(q)
  <2>1. pc \in [Resource -> Ended \cup Planning \cup ApplyingACL] /\ runs \in Nat
    BY <1>1 DEF GuardInv, OverlayTypeOK, TerraformTypeOK
  <2>2. ~StartOverlayRun /\ ~EditOverlay /\ ~OverlayRest /\ ~UNCHANGED overlayVars
    BY <1>1, <2>1
    DEF StartOverlayRun, StartTerraform, EditOverlay, EditedInUI, OverlayRest, overlayVars, tfVars
  <2>3. \A r \in Resource : ~ImportACL(r) /\ ~Upgrade(r)
    BY <1>1 DEF ImportACL, Upgrade
  <2>4. CASE EndACLPlanning
    <3>1. pc[q] \in {"ready", "refused"}
      BY <2>4 DEF EndACLPlanning, ApplyPlan
    <3>2. pc' \in [Resource -> {"find", "guard", "ok", "failed"}]
      BY <2>4 DEF EndACLPlanning, ApplyPlan
    <3>3. pc'[q] \in {"find", "guard", "ok", "failed"}
      BY <3>2
    <3>4. QED
      BY <3>1, <3>3 DEF ACLStepsLeft
  <2>5. ASSUME NEW r \in Resource, OverlayHandler(r) \/ OverlayRequestFails(r) \/ PutLost(r)
        PROVE  ACLStepsLeft(q)' < ACLStepsLeft(q)
    <3>1. q = r
      <4> USE DEF Goto
      <4>1. CASE ReadACL(r) \/ PlanACL(r) \/ PlanACLCreate(r) \/ Guard(r)
        BY <1>1, <2>1, <4>1 DEF ReadACL, Refreshed, PlanACL, PlanACLCreate, Guard
      <4>2. CASE Find(r) \/ Reread(r) \/ Put(r) \/ PutFails(r)
        BY <1>1, <2>1, <4>2 DEF Find, Removed, Reread, Put, PutFails
      <4>3. CASE ReadBackACL(r)
        BY <1>1, <2>1, <4>3 DEF ReadBackACL, Removed
      <4>4. CASE OverlayRequestFails(r) \/ PutLost(r)
        BY <1>1, <2>1, <4>4 DEF OverlayRequestFails, FailRequest, PutLost, LoseAnswer
      <4>5. QED
        BY <2>5, <4>1, <4>2, <4>3, <4>4 DEF OverlayHandler
    <3>2. QED
      BY <1>1, <2>5, <3>1, OwnACLStep
  <2>6. QED
    BY <1>1, <2>2, <2>3, <2>4, <2>5 DEF OverlayNext
<1>2. ASSUME GuardInv, [OverlayNext]_overlayVars, NEW q \in Resource, pc'[q] = pc[q]
      PROVE  ACLStepsLeft(q)' = ACLStepsLeft(q)
  <2>1. CASE pc[q] \in ApplyingACL
    BY <1>2, <2>1, ACLWaiting DEF ACLStepsLeft, RemovingACL, Deleting, ReplacingACL, Kept
  <2>2. CASE pc[q] \notin ApplyingACL
    BY <1>2, <2>2 DEF ACLStepsLeft, ApplyingACL
  <2>3. QED
    BY <2>1, <2>2
<1>3. GuardInv /\ [OverlayNext]_overlayVars =>
        [runs' = runs =>
           \A r \in Resource :
              /\ pc'[r] # pc[r] => ACLStepsLeft(r)' < ACLStepsLeft(r)
              /\ pc'[r] = pc[r] => ACLStepsLeft(r)' = ACLStepsLeft(r)]_overlayVars
  BY <1>1, <1>2
<1>4. QED
  BY <1>3, GuardInvariant, PTL DEF OverlaySpec, ACLHandlersAdvance
==================================================================================
