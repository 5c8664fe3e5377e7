------------------------------ MODULE AddressMaps ------------------------------
(***************************************************************************)
(* Address maps: IPv4 ranges classified as applications.  The Orchestrator *)
(* keys them by range, a POST is an upsert, and neither names nor disjoint *)
(* ranges are enforced.  The provider refuses a range or a name in use     *)
(* when it plans and once more when it applies, outside appDefMu; an       *)
(* update reads the fields it does not model and posts them back inside    *)
(* it; and every write is read back after the mutex has been released.     *)
(***************************************************************************)
EXTENDS Terraform, AddressRange

CONSTANTS
    Span,            \* pairs of addresses in use, as numbers <<start, end>>
    Name,            \* names an address map may carry
    Fold,            \* case folding: strings.EqualFold(m, n) is Fold[m] = Fold[n]
    Attr,            \* description, country, organisation and priority
    Hidden,          \* SaaS ID, search text and subattributes
    DefaultHidden,   \* ... as a new entry gets them
    InitialMaps      \* what the Orchestrator holds at the start

Entry  == [name : Name, attr : Attr, hidden : Hidden]
Dots(s) == Between(FormatIPv4(s[1]), FormatIPv4(s[2]))
Wanted == [range : {Dots(s) : s \in Span}, name : Name, attr : Attr]

ASSUME AddressMapAssumption ==
    /\ None \notin Wanted \cup Span
    /\ Configs \subseteq [Resource -> Wanted \cup {None}]
    /\ \A s \in Span :
          /\ s = <<s[1], s[2]>> /\ s[1] \in Nat /\ s[2] \in Nat
          /\ FormatIPv4(s[1]) \in Dotted /\ FormatIPv4(s[2]) \in Dotted
    /\ Fold \in [Name -> Name]
    /\ DefaultHidden \in Hidden
    /\ InitialMaps \subseteq UNION {[S -> Entry] : S \in SUBSET {s \in Span : ValidRange(Dots(s))}}

VARIABLES
    maps,      \* the Orchestrator's address maps: a function from spans
    carried    \* the fields an update found, before it posts them back

vars == <<tfVars, maps, carried>>

Applying == {"delete", "check", "recheck", "post", "carry", "repost", "readback"}

TypeOK ==
    /\ TerraformTypeOK(Applying, Wanted, Wanted)
    /\ maps \in UNION {[S -> Entry] : S \in SUBSET {s \in Span : ValidRange(Dots(s))}}
    /\ carried \in [Resource -> Hidden]

-----------------------------------------------------------------------------
(* Terraform: a block with another range is deleted and created again.     *)

Replacing(r) == Kept(r) /\ config[r].range # tf[r].range
Updating(r)  == Kept(r) /\ ~Replacing(r) /\ config[r] # tf[r]
Renaming(r)  == Updating(r) /\ config[r].name # tf[r].name
Removing(r)  == Deleting(r) \/ Replacing(r)

SpanOf(g) == <<ParseIPv4(g.start), ParseIPv4(g.end)>>
Stored(s) == [range |-> Dots(s), name |-> maps[s].name, attr |-> maps[s].attr]

StartRun == StartTerraform /\ UNCHANGED <<maps, carried>>

\* ImportState takes the range out of the ID, and Read looks it up.
ImportState(r) ==
    /\ \E s \in DOMAIN maps :
          LET g == ImportedRange(RangeKey(Dots(s)))
          IN  /\ \A q \in Resource : tf[q] # None => tf[q].range # g
              /\ Import(r, Stored(SpanOf(g)))
    /\ UNCHANGED <<maps, carried>>

\* Mutant: Read keeps what was last recorded.
Read_KeepsState(r) ==
    /\ pc[r] = "refresh"
    /\ UNCHANGED tf
    /\ Refreshed(r, "plan")
    /\ UNCHANGED <<maps, carried>>

\* Read: the entry of exactly this range, or drop the resource.
Read(r) ==
    /\ pc[r] = "refresh"
    /\ \/ tf[r] = None /\ UNCHANGED tf
       \/ /\ tf[r] # None /\ SpanOf(tf[r].range) \notin DOMAIN maps
          /\ Record(r, None)
       \/ /\ tf[r] # None /\ SpanOf(tf[r].range) \in DOMAIN maps
          /\ Record(r, Stored(SpanOf(tf[r].range)))
    /\ Refreshed(r, "plan")
    /\ UNCHANGED <<maps, carried>>

\* Mutant: ranges that share no more than a boundary address do not overlap.
OverlapsOther_Exclusive(g, ignored) ==
    \E s \in DOMAIN maps :
        /\ RangeKey(Dots(s)) \notin ignored
        /\ ParseIPv4(g.start) < s[2] /\ s[1] < ParseIPv4(g.end)

\* FindOverlappingAddressMap, but for the ranges of these IDs.
OverlapsOther(g, ignored) ==
    \E s \in DOMAIN maps : RangeKey(Dots(s)) \notin ignored /\ Overlap(g, Dots(s))

\* FindAddressMapByName, but for the ranges of these IDs.
NameInUse(n, ignored) ==
    \E s \in DOMAIN maps : RangeKey(Dots(s)) \notin ignored /\ Fold[maps[s].name] = Fold[n]

\* The range r holds and the one it is to hold never count as another's.
Own(r) == {RangeKey(config[r].range)}
              \cup (IF tf[r] = None THEN {} ELSE {RangeKey(tf[r].range)})

InUse(g) == \E s \in DOMAIN maps : RangeKey(Dots(s)) = RangeKey(g)

Refused(r, ignored) ==
    \/ (Creating(r) \/ Replacing(r)) /\ InUse(config[r].range)
    \/ OverlapsOther(config[r].range, ignored)
    \/ NameInUse(config[r].name, ignored)

\* A block that is to stay declares its range the wrong way round.
Invalid(r) == config[r] # None /\ ~ValidRange(config[r].range)

ModifyPlan(r) ==
    /\ pc[r] = "plan"
    /\ Goto(r, IF \/ Invalid(r)
                  \/ (Creating(r) \/ Replacing(r) \/ Renaming(r)) /\ Refused(r, Own(r))
               THEN "refused" ELSE Planned(Replacing(r)))
    /\ UNCHANGED <<config, tf, lock, stale, budgets, maps, carried>>

\* ModifyPlan of the create of a replacement, which knows no state.
PlanCreate(r) ==
    /\ pc[r] = "replan"
    /\ Goto(r, IF Invalid(r) \/ Refused(r, {RangeKey(config[r].range)})
               THEN "refused" ELSE "ready")
    /\ UNCHANGED <<config, tf, lock, stale, budgets, maps, carried>>

EndPlanning ==
    /\ ApplyPlan([r \in Resource |-> IF Removing(r) THEN "delete"
                                     ELSE IF Creating(r) THEN "check"
                                     ELSE IF Updating(r) THEN "recheck"
                                     ELSE "ok"])
    /\ UNCHANGED <<maps, carried>>

-----------------------------------------------------------------------------
(* The handlers. *)

\* The reasons to reject a block while it is applied, its own range aside.
Conflict(r) ==
    \/ Invalid(r)
    \/ OverlapsOther(config[r].range, {RangeKey(config[r].range)})
    \/ NameInUse(config[r].name, {RangeKey(config[r].range)})

\* Create rejects a range in use, an overlap and a name in use.
CheckRangeAndName(r) ==
    /\ pc[r] = "check"
    /\ Goto(r, IF InUse(config[r].range) \/ Conflict(r) THEN "failed" ELSE "post")
    /\ stale' = stale \ {r}
    /\ UNCHANGED <<config, tf, lock, budgets, maps, carried>>

\* Update rejects an overlap and a name in use on another range.
CheckOthers(r) ==
    /\ pc[r] = "recheck"
    /\ Goto(r, IF Conflict(r) THEN "failed" ELSE "carry")
    /\ stale' = stale \ {r}
    /\ UNCHANGED <<config, tf, lock, budgets, maps, carried>>

\* setAddressMap: the body of every POST, with these fields carried over.
Written(r, hidden) ==
    Bind(maps, SpanOf(config[r].range),
         [name |-> config[r].name, attr |-> config[r].attr, hidden |-> hidden])

\* CreateAddressMap: one POST inside the mutex.
Post(r) ==
    /\ pc[r] = "post"
    /\ lock = Free
    /\ maps' = Written(r, DefaultHidden)
    /\ Goto(r, "readback")
    /\ UNCHANGED <<config, tf, lock, stale, budgets, carried>>

PostLost(r) ==
    /\ pc[r] = "post"
    /\ lock = Free
    /\ maps' = Written(r, DefaultHidden)
    /\ LoseAnswer(r)
    /\ UNCHANGED carried

\* Mutant: an update posts the fields of a new entry.
CarryOver_Defaults(r) ==
    /\ pc[r] = "carry"
    /\ lock = Free
    /\ lock' = r
    /\ carried' = [carried EXCEPT ![r] = DefaultHidden]
    /\ stale' = stale \ {r}
    /\ Goto(r, "repost")
    /\ UNCHANGED <<config, tf, budgets, maps>>

\* UpdateAddressMap takes the mutex and reads what it does not model.
CarryOver(r) ==
    /\ pc[r] = "carry"
    /\ lock = Free
    /\ lock' = r
    /\ LET s == SpanOf(config[r].range)
       IN  carried' = [carried EXCEPT ![r] =
               IF s \in DOMAIN maps THEN maps[s].hidden ELSE DefaultHidden]
    /\ stale' = stale \ {r}
    /\ Goto(r, "repost")
    /\ UNCHANGED <<config, tf, budgets, maps>>

\* The listing fails and the update goes on without it.
CarryNothing(r) ==
    /\ pc[r] = "carry"
    /\ lock = Free
    /\ Fault
    /\ lock' = r
    /\ carried' = [carried EXCEPT ![r] = DefaultHidden]
    /\ stale' = stale \ {r}
    /\ Goto(r, "repost")
    /\ UNCHANGED <<config, tf, runs, lost, edits, maps>>

Repost(r) ==
    /\ pc[r] = "repost"
    /\ maps' = Written(r, carried[r])
    /\ Released(r)
    /\ Goto(r, "readback")
    /\ UNCHANGED <<config, tf, stale, budgets, carried>>

RepostLost(r) ==
    /\ pc[r] = "repost"
    /\ maps' = Written(r, carried[r])
    /\ LoseAnswer(r)
    /\ UNCHANGED carried

\* The entry is read back without the mutex.  It is recorded as it is; when
\* it is not what was planned, Terraform reports an inconsistent result.
ReadBack(r) ==
    /\ pc[r] = "readback"
    /\ LET s == SpanOf(config[r].range)
       IN  \/ /\ s \in DOMAIN maps
              /\ Record(r, Stored(s))
              /\ Goto(r, IF Stored(s) = config[r] THEN "ok" ELSE "failed")
           \/ /\ s \notin DOMAIN maps
              /\ Goto(r, "failed")
              /\ UNCHANGED tf
    /\ UNCHANGED <<config, lock, stale, budgets, maps, carried>>

\* Mutant: a replaced block deletes the range it is to get.
Delete_PlannedRange(r) ==
    /\ pc[r] = "delete"
    /\ lock = Free
    /\ LET gone == IF Replacing(r) THEN config[r].range ELSE tf[r].range
       IN  maps' = Unbind(maps, SpanOf(gone))
    /\ Record(r, None)
    /\ Goto(r, IF Replacing(r) THEN "check" ELSE "ok")
    /\ UNCHANGED <<config, lock, stale, budgets, carried>>

\* DELETE of the range in state; a replaced block is created next.
Delete(r) ==
    /\ pc[r] = "delete"
    /\ lock = Free
    /\ SpanOf(tf[r].range) \in DOMAIN maps
    /\ maps' = Unbind(maps, SpanOf(tf[r].range))
    /\ Record(r, None)
    /\ Goto(r, IF Replacing(r) THEN "check" ELSE "ok")
    /\ UNCHANGED <<config, lock, stale, budgets, carried>>

DeleteLost(r) ==
    /\ pc[r] = "delete"
    /\ lock = Free
    /\ SpanOf(tf[r].range) \in DOMAIN maps
    /\ maps' = Unbind(maps, SpanOf(tf[r].range))
    /\ LoseAnswer(r)
    /\ UNCHANGED carried

\* The Orchestrator knows no such range: the answer is an error.
DeleteUnknown(r) ==
    /\ pc[r] = "delete"
    /\ lock = Free
    /\ SpanOf(tf[r].range) \notin DOMAIN maps
    /\ Goto(r, "failed")
    /\ UNCHANGED <<config, tf, lock, stale, budgets, maps, carried>>

Requesting(r) ==
    \/ pc[r] = "refresh" /\ tf[r] # None
    \/ pc[r] = "replan" /\ ~Invalid(r)
    \/ pc[r] = "plan" /\ ~Invalid(r) /\ (Creating(r) \/ Replacing(r) \/ Renaming(r))
    \/ pc[r] \in {"check", "recheck", "repost", "readback"}
    \/ pc[r] \in {"delete", "post"} /\ lock = Free

RequestFails(r) ==
    /\ Requesting(r)
    /\ FailRequest(r, Planned(Replacing(r)))
    /\ UNCHANGED <<maps, carried>>

\* Somebody adds, changes or removes an address map in the UI.
UIEdit ==
    /\ EditedInUI
    /\ \/ \E s \in Span, e \in Entry : ValidRange(Dots(s)) /\ maps' = Bind(maps, s, e)
       \/ \E s \in DOMAIN maps : maps' = Unbind(maps, s)
    /\ UNCHANGED carried

Rest == Rested /\ UNCHANGED vars

-----------------------------------------------------------------------------

Init ==
    /\ TerraformInit
    /\ maps \in InitialMaps
    /\ carried = [r \in Resource |-> DefaultHidden]

Handler(r) ==
    \/ Read(r) \/ ModifyPlan(r) \/ PlanCreate(r)
    \/ CheckRangeAndName(r) \/ CheckOthers(r)
    \/ Post(r) \/ CarryOver(r) \/ CarryNothing(r) \/ Repost(r) \/ ReadBack(r)
    \/ Delete(r) \/ DeleteUnknown(r)

Next ==
    \/ StartRun \/ EndPlanning
    \/ \E r \in Resource :
          \/ Handler(r) \/ RequestFails(r) \/ ImportState(r)
          \/ PostLost(r) \/ RepostLost(r) \/ DeleteLost(r)
    \/ UIEdit
    \/ Rest

Spec == Init /\ [][Next]_vars
=============================================================================
