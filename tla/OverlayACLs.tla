------------------------------ MODULE OverlayACLs ------------------------------
(***************************************************************************)
(* Overlay ACLs.  An overlay exists already, a resource owns its complete  *)
(* ACL, and a PUT replaces the configuration of the overlay.  The guard    *)
(* against the removal of entries Terraform never created compares what    *)
(* the plan and the handler see with a record, kept in private state, of   *)
(* the sequence numbers the last apply left; SetOverlayACL then reads the  *)
(* overlay again, writes it and reads it back, all under overlayMu.        *)
(***************************************************************************)
EXTENDS Terraform, ACLDocument

CONSTANTS
    Overlay,           \* overlays
    SeqNumber,         \* sequence numbers of entries; 1 is that of a reset ACL
    Setting,           \* the other settings of an overlay
    UIEntry,           \* entries somebody adds in the UI, as stored
    InitialOverlays    \* what the Orchestrator holds at the start

ACLEntry == [seq : SeqNumber, permit : BOOLEAN, match_all : BOOLEAN, match : Match]

\* A configuration or state: an overlay, whether foreign entries may be
\* removed, and a set of entries.
Block == [overlay : Overlay, allow : BOOLEAN, entries : SUBSET ACLEntry]

\* An overlay as the Orchestrator stores it.
IsOverlay(v) ==
    /\ v = [acl |-> v.acl, settings |-> v.settings]
    /\ DOMAIN v.acl \subseteq SeqNumber
    /\ IsACL(v.acl)
    /\ v.settings \in Setting

IsOverlayTable(t) ==
    /\ t = [o \in DOMAIN t |-> t[o]]
    /\ DOMAIN t \subseteq Overlay
    /\ \A o \in DOMAIN t : IsOverlay(t[o])

ASSUME OverlayAssumption ==
    /\ SeqNumber \subseteq Nat \ {0} /\ 1 \in SeqNumber
    /\ Criterion \cap OtherField = {} /\ Reserved \cap (Criterion \cup OtherField) = {}
    /\ None \notin Block /\ \A N \in SUBSET SeqNumber : N # None
    /\ Configs \subseteq [Resource -> Block \cup {None}]
    /\ \A t \in InitialOverlays : IsOverlayTable(t)

VARIABLES
    overlays,     \* per overlay its ACL document and its other settings
    managed,      \* private state: per resource the sequence numbers, or None
    seen,         \* the overlay as SetOverlayACL has read it
    foreign,      \* ghost: per overlay the entries added in the UI ...
    slipped,      \* ghost: ... and those of them Terraform takes for its own
    unguarded,    \* ghost: resources whose guard predates an edit in the UI
    contested     \* ghost: overlays that a create has found without entries
                  \* while another block still had them in its state

ghosts == <<foreign, slipped, unguarded, contested>>
overlayVars == <<tfVars, overlays, managed, seen, ghosts>>

ApplyingACL == {"guard", "find", "reread", "put", "readback"}

OverlayTypeOK ==
    /\ TerraformTypeOK(ApplyingACL, Block, Block)
    /\ IsOverlayTable(overlays)
    /\ managed \in [Resource -> (SUBSET SeqNumber) \cup {None}]
    /\ seen = [r \in Resource |-> seen[r]]
    /\ \A r \in Resource : seen[r] = None \/ IsOverlay(seen[r])
    /\ foreign \in [Overlay -> SUBSET SeqNumber]
    /\ slipped \in [Overlay -> SUBSET SeqNumber]
    /\ unguarded \subseteq Resource
    /\ contested \subseteq Overlay

-----------------------------------------------------------------------------
(* Entries, as the configuration and the state have them. *)

ReplacingACL(r) == Kept(r) /\ config[r].overlay # tf[r].overlay
UpdatingACL(r)  == Kept(r) /\ ~ReplacingACL(r) /\ config[r] # tf[r]
RemovingACL(r)  == Deleting(r) \/ ReplacingACL(r)

SeqsOf(entries) == {e.seq : e \in entries}

\* entriesToModel: the entries the Orchestrator reports.
ToModel(acl) ==
    {[seq |-> e.seq, permit |-> e.permit, match_all |-> MatchAll(e), match |-> e.match] :
        e \in ParseACL(acl)}

\* toClientEntries accepts entries with a criterion or match_all, not both,
\* and with sequence numbers of their own.
ValidEntries(entries) ==
    /\ \A e \in entries : e.match_all # (e.match # <<>>)
    /\ \A d, e \in entries : d.seq = e.seq => d = e

\* Mutant: SetOverlayACL writes the entries without what it found.
Merged_Nothing(acl, entries) ==
    {[seq |-> e.seq, permit |-> e.permit, match |-> e.match, extra |-> <<>>] : e \in entries}

\* SetOverlayACL carries the fields the client does not model over from the
\* entry with the same sequence number.
Merged(acl, entries) ==
    {[seq |-> e.seq, permit |-> e.permit, match |-> e.match,
      extra |-> IF \E p \in ParseACL(acl) : p.seq = e.seq
                THEN (CHOOSE p \in ParseACL(acl) : p.seq = e.seq).extra
                ELSE <<>>] : e \in entries}

\* splitRemovals: of the sequence numbers about to disappear, those the last
\* apply of r did not leave; without a record there are none.
Foreign(r, seqs) == IF managed[r] = None THEN {} ELSE seqs \ managed[r]

-----------------------------------------------------------------------------
(* Terraform *)

OwnersOf(o) == {r \in Resource : tf[r] # None /\ tf[r].overlay = o}

\* An overlay stays contested as long as two states have it.
StartOverlayRun ==
    /\ StartTerraform
    /\ contested' = {o \in contested : \E q, r \in OwnersOf(o) : q # r}
    /\ UNCHANGED <<overlays, managed, seen, foreign, slipped, unguarded>>

Recorded(r, o, allow, acl) ==
    Record(r, [overlay |-> o, allow |-> allow, entries |-> ToModel(acl)])

\* Any overlay is imported that no other block has, with entries or without.
Importable(r, o) == AllEnded /\ runs > 0 /\ tf[r] = None /\ OwnersOf(o) = {}

\* ImportState and the Read that follows: nothing was known, so the record
\* starts empty.
ImportACL(r) ==
    /\ \E o \in DOMAIN overlays :
          /\ Importable(r, o)
          /\ Recorded(r, o, FALSE, overlays[o].acl)
    /\ managed' = [managed EXCEPT ![r] = {}]
    /\ UNCHANGED <<config, pc, lock, stale, budgets, overlays, seen, ghosts>>

\* The operator comes from a provider that kept no record: it had created
\* every entry of the overlay.
Upgrade(r) ==
    /\ \E o \in DOMAIN overlays :
          /\ Importable(r, o)
          /\ Recorded(r, o, FALSE, overlays[o].acl)
          /\ foreign' = [foreign EXCEPT ![o] = {}]
    /\ managed' = [managed EXCEPT ![r] = None]
    /\ UNCHANGED <<config, pc, lock, stale, budgets, overlays, seen, slipped, unguarded, contested>>

\* Mutant: the record is seeded with what the Orchestrator holds.
ReadACL_SeedsStored(r) ==
    /\ pc[r] = "refresh"
    /\ \/ tf[r] = None /\ UNCHANGED <<tf, managed>>
       \/ /\ tf[r] # None /\ tf[r].overlay \notin DOMAIN overlays
          /\ Record(r, None)
          /\ managed' = [managed EXCEPT ![r] = None]
       \/ /\ tf[r] # None /\ tf[r].overlay \in DOMAIN overlays
          /\ Recorded(r, tf[r].overlay, tf[r].allow, overlays[tf[r].overlay].acl)
          /\ managed' = [managed EXCEPT ![r] =
                IF @ = None THEN SeqsOf(ToModel(overlays[tf[r].overlay].acl)) ELSE @]
    /\ Refreshed(r, "plan")
    /\ UNCHANGED <<overlays, seen, ghosts>>

\* Mutant: a refresh leaves the entries of the state as they are.
ReadACL_KeepsState(r) ==
    /\ pc[r] = "refresh"
    /\ \/ tf[r] = None /\ UNCHANGED <<tf, managed>>
       \/ /\ tf[r] # None /\ tf[r].overlay \notin DOMAIN overlays
          /\ Record(r, None)
          /\ managed' = [managed EXCEPT ![r] = None]
       \/ /\ tf[r] # None /\ tf[r].overlay \in DOMAIN overlays
          /\ managed' = [managed EXCEPT ![r] = IF @ = None THEN SeqsOf(tf[r].entries) ELSE @]
          /\ UNCHANGED tf
    /\ Refreshed(r, "plan")
    /\ UNCHANGED <<overlays, seen, ghosts>>

\* Read: the ACL of the overlay, or drop the resource; a state without a
\* record gets one of the entries known before this refresh.
ReadACL(r) ==
    /\ pc[r] = "refresh"
    /\ \/ tf[r] = None /\ UNCHANGED <<tf, managed>>
       \/ /\ tf[r] # None /\ tf[r].overlay \notin DOMAIN overlays
          /\ Record(r, None)
          /\ managed' = [managed EXCEPT ![r] = None]
       \/ /\ tf[r] # None /\ tf[r].overlay \in DOMAIN overlays
          /\ Recorded(r, tf[r].overlay, tf[r].allow, overlays[tf[r].overlay].acl)
          /\ managed' = [managed EXCEPT ![r] = IF @ = None THEN SeqsOf(tf[r].entries) ELSE @]
    /\ Refreshed(r, "plan")
    /\ UNCHANGED <<overlays, seen, ghosts>>

\* A create needs an overlay without entries.
NotCreatable(o) == o \notin DOMAIN overlays \/ ParseACL(overlays[o].acl) # {}

\* ModifyPlan of what has a state: entries that disappear from it and that
\* the record does not know are refused, unless the configuration allows it.
RefusedInPlan(r) ==
    IF Kept(r)
    THEN ~config[r].allow /\ Foreign(r, SeqsOf(tf[r].entries) \ SeqsOf(config[r].entries)) # {}
    ELSE Creating(r) /\ NotCreatable(config[r].overlay)

PlanACL(r) ==
    /\ pc[r] = "plan"
    /\ Goto(r, IF RefusedInPlan(r) THEN "refused" ELSE Planned(ReplacingACL(r)))
    /\ UNCHANGED <<config, tf, lock, stale, budgets, overlays, managed, seen, ghosts>>

\* The second plan of a replacement: a create.
PlanACLCreate(r) ==
    /\ pc[r] = "replan"
    /\ Goto(r, IF NotCreatable(config[r].overlay) THEN "refused" ELSE "ready")
    /\ UNCHANGED <<config, tf, lock, stale, budgets, overlays, managed, seen, ghosts>>

EndACLPlanning ==
    /\ ApplyPlan([r \in Resource |-> IF RemovingACL(r) THEN "find"
                                     ELSE IF Creating(r) \/ UpdatingACL(r) THEN "guard"
                                     ELSE "ok"])
    /\ UNCHANGED <<overlays, managed, seen, ghosts>>

-----------------------------------------------------------------------------
(* The handlers, between the GETs and the PUT.  A removal writes the ACL of *)
(* a new overlay over that of the overlay in state.                         *)

TargetOverlay(r) == IF RemovingACL(r) THEN tf[r].overlay ELSE config[r].overlay

ToWrite(r) ==
    IF RemovingACL(r) THEN {[seq |-> 1, permit |-> TRUE, match_all |-> TRUE, match |-> <<>>]}
                   ELSE config[r].entries

\* Mutant: only updates are guarded by the handler.
GuardHolds_UpdatesOnly(r, acl) ==
    UpdatingACL(r) /\ ~config[r].allow =>
        Foreign(r, SeqsOf(ToModel(acl)) \ SeqsOf(config[r].entries)) = {}

\* What applyEntries wants of the ACL it has found.
GuardHolds(r, acl) ==
    IF UpdatingACL(r)
    THEN config[r].allow \/ Foreign(r, SeqsOf(ToModel(acl)) \ SeqsOf(config[r].entries)) = {}
    ELSE ParseACL(acl) = {}

\* applyEntries, before SetOverlayACL: the overlay is looked up by its name,
\* without the mutex.
Guard(r) ==
    /\ pc[r] = "guard"
    /\ LET o      == config[r].overlay
           passes == /\ ValidEntries(config[r].entries)
                     /\ o \in DOMAIN overlays
                     /\ GuardHolds(r, overlays[o].acl)
       IN  /\ Goto(r, IF passes THEN "reread" ELSE "failed")
           /\ contested' = IF passes /\ DOMAIN overlays[o].acl = {} /\ OwnersOf(o) \ {r} # {}
                           THEN contested \cup {o} ELSE contested
    /\ unguarded' = unguarded \ {r}
    /\ UNCHANGED <<config, tf, lock, stale, budgets, overlays, managed, seen, foreign, slipped>>

\* A removal has ended: a replaced block is created next.
Removed(r) ==
    /\ Record(r, None)
    /\ managed' = [managed EXCEPT ![r] = None]
    /\ Goto(r, IF ReplacingACL(r) THEN "guard" ELSE "ok")

\* Delete: an overlay that is gone needs no reset.
Find(r) ==
    /\ pc[r] = "find"
    /\ IF tf[r].overlay \in DOMAIN overlays
       THEN Goto(r, "reread") /\ UNCHANGED <<tf, managed>>
       ELSE Removed(r)
    /\ UNCHANGED <<config, lock, stale, budgets, overlays, seen, ghosts>>

\* SetOverlayACL takes overlayMu and reads the overlay again.
Reread(r) ==
    /\ pc[r] = "reread" /\ lock = Free
    /\ IF TargetOverlay(r) \in DOMAIN overlays
       THEN /\ seen' = [seen EXCEPT ![r] = overlays[TargetOverlay(r)]]
            /\ lock' = r
            /\ stale' = stale \ {r}
            /\ Goto(r, "put")
       ELSE /\ Goto(r, "failed")
            /\ UNCHANGED <<seen, lock, stale>>
    /\ UNCHANGED <<config, tf, budgets, overlays, managed, ghosts>>

\* The overlay is replaced by what was read, with another ACL: every entry
\* is now one that Terraform has written.
StoredACL(r) ==
    /\ pc[r] = "put" /\ TargetOverlay(r) \in DOMAIN overlays
    /\ overlays' = [overlays EXCEPT ![TargetOverlay(r)] =
                       [acl      |-> BuildACL(Merged(seen[r].acl, ToWrite(r))),
                        settings |-> seen[r].settings]]
    /\ foreign' = [foreign EXCEPT ![TargetOverlay(r)] = {}]
    /\ slipped' = [slipped EXCEPT ![TargetOverlay(r)] = {}]

Put(r) ==
    /\ StoredACL(r)
    /\ Goto(r, "readback")
    /\ UNCHANGED <<config, tf, lock, stale, budgets, managed, seen, unguarded, contested>>

PutLost(r) ==
    /\ StoredACL(r)
    /\ LoseAnswer(r)
    /\ UNCHANGED <<managed, seen, unguarded, contested>>

PutFails(r) ==
    /\ pc[r] = "put" /\ TargetOverlay(r) \notin DOMAIN overlays
    /\ Goto(r, "failed")
    /\ Released(r)
    /\ UNCHANGED <<config, tf, stale, budgets, overlays, managed, seen, ghosts>>

\* writeManagedSequences, of the entries that were read back.
NewRecord(r, entries) == SeqsOf(entries)

\* SetOverlayACL reads the overlay back, still under overlayMu.  The entries
\* are recorded as they are stored; when they are not those planned,
\* Terraform reports an inconsistent result.
ReadBackACL(r) ==
    /\ pc[r] = "readback"
    /\ Released(r)
    /\ IF TargetOverlay(r) \notin DOMAIN overlays
       THEN Goto(r, "failed") /\ UNCHANGED <<tf, managed>>
       ELSE IF RemovingACL(r) THEN Removed(r)
       ELSE LET acl == overlays[TargetOverlay(r)].acl
            IN  /\ Recorded(r, TargetOverlay(r), config[r].allow, acl)
                /\ managed' = [managed EXCEPT ![r] = NewRecord(r, ToModel(acl))]
                /\ Goto(r, IF ToModel(acl) = config[r].entries THEN "ok" ELSE "failed")
    /\ UNCHANGED <<config, stale, budgets, overlays, seen, ghosts>>

-----------------------------------------------------------------------------
(* Failures, and the operators of the Orchestrator. *)

OverlayRequesting(r) ==
    \/ pc[r] = "refresh" /\ tf[r] # None
    \/ pc[r] = "plan" /\ Creating(r)
    \/ pc[r] \in {"replan", "guard", "find", "put", "readback"}
    \/ pc[r] = "reread" /\ lock = Free

\* Mutant: a failed request keeps the mutex.
OverlayRequestFails_Locked(r) ==
    /\ OverlayRequesting(r)
    /\ Fault
    /\ Goto(r, IF pc[r] = "refresh" THEN "refused" ELSE IF pc[r] \in {"plan", "replan"} THEN "ready" ELSE "failed")
    /\ UNCHANGED <<config, tf, lock, stale, runs, lost, edits, overlays, managed, seen, ghosts>>

OverlayRequestFails(r) ==
    /\ OverlayRequesting(r)
    /\ FailRequest(r, "ready")
    /\ UNCHANGED <<overlays, managed, seen, ghosts>>

\* The sequence numbers that r takes for its own on overlay o.
TakenFor(r, o) ==
    IF tf[r] = None \/ tf[r].overlay # o THEN {}
    ELSE IF managed[r] = None THEN SeqsOf(tf[r].entries) ELSE managed[r]

\* Somebody adds or replaces an entry, removes entries, changes the other
\* settings or removes an overlay.  An entry passes for one of Terraform's when its
\* sequence number is in a record, or when it comes between a PUT and the
\* read-back.
EditOverlay ==
    /\ EditedInUI
    /\ unguarded' = Resource
    /\ UNCHANGED <<managed, seen, contested>>
    /\ \/ \E o \in DOMAIN overlays, s \in SeqNumber, w \in UIEntry :
             /\ IsWire(s, w)
             /\ overlays' = [overlays EXCEPT ![o].acl = Bind(@, s, w)]
             /\ foreign' = [foreign EXCEPT ![o] = @ \cup {s}]
             /\ slipped' = IF \E r \in Resource :
                                \/ s \in TakenFor(r, o)
                                \/ pc[r] = "readback" /\ TargetOverlay(r) = o
                           THEN [slipped EXCEPT ![o] = @ \cup {s}]
                           ELSE slipped
       \/ \E o \in DOMAIN overlays : \E gone \in SUBSET DOMAIN overlays[o].acl \ {{}} :
             /\ overlays' = [overlays EXCEPT ![o].acl = Restrict(@, DOMAIN @ \ gone)]
             /\ foreign' = [foreign EXCEPT ![o] = @ \ gone]
             /\ slipped' = [slipped EXCEPT ![o] = @ \ gone]
       \/ \E o \in DOMAIN overlays, v \in Setting :
             /\ overlays' = [overlays EXCEPT ![o].settings = v]
             /\ UNCHANGED <<foreign, slipped>>
       \/ \E o \in DOMAIN overlays :
             /\ overlays' = Unbind(overlays, o)
             /\ foreign' = [foreign EXCEPT ![o] = {}]
             /\ slipped' = [slipped EXCEPT ![o] = {}]

OverlayRest == Rested /\ UNCHANGED overlayVars

-----------------------------------------------------------------------------

OverlayInit ==
    /\ TerraformInit
    /\ overlays \in InitialOverlays
    /\ managed = [r \in Resource |-> None]
    /\ seen = [r \in Resource |-> None]
    /\ foreign = [o \in Overlay |-> IF o \in DOMAIN overlays THEN DOMAIN overlays[o].acl ELSE {}]
    /\ slipped = [o \in Overlay |-> {}]
    /\ unguarded = {}
    /\ contested = {}

OverlayHandler(r) ==
    \/ ReadACL(r) \/ PlanACL(r) \/ PlanACLCreate(r)
    \/ Guard(r) \/ Find(r) \/ Reread(r) \/ Put(r) \/ PutFails(r) \/ ReadBackACL(r)

OverlayNext ==
    \/ StartOverlayRun \/ EndACLPlanning
    \/ \E r \in Resource :
          \/ OverlayHandler(r) \/ OverlayRequestFails(r) \/ PutLost(r) \/ ImportACL(r) \/ Upgrade(r)
    \/ EditOverlay
    \/ OverlayRest

OverlaySpec == OverlayInit /\ [][OverlayNext]_overlayVars

(* Every request is answered or fails in the end, and a Go mutex wakes its *)
(* waiters; nothing makes an operator start a run or edit an overlay.      *)
FairOverlaySpec == OverlaySpec /\ WF_overlayVars(EndACLPlanning) /\ \A r \in Resource : WF_overlayVars(OverlayHandler(r))
=============================================================================
