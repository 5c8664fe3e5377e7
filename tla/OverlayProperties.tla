--------------------------- MODULE OverlayProperties ---------------------------
(***************************************************************************)
(* What the handlers of overlay_acl must keep true.                        *)
(***************************************************************************)
EXTENDS OverlayACLs

\* r writes the ACL of an overlay, to create or to update.
WritingACL(r) == pc[r] = "put" /\ pc'[r] # "put" /\ overlays' # overlays /\ ~RemovingACL(r)

Dropped(r) == foreign[TargetOverlay(r)] \ SeqsOf(ToWrite(r))

\* The resource "refuses to delete entries it never created"
\* (docs/resources/overlay_acl.md:17): across imports, upgrades of the
\* provider, failed applies and edits in the UI, an update removes an entry
\* Terraform has not written only when that is allowed, when the entry came
\* after the guard, or when it carries a number of the record.
ForeignEntriesSurvive ==
    [][\A r \in Resource :
         WritingACL(r) /\ UpdatingACL(r) =>
            config[r].allow \/ r \in unguarded \/ Dropped(r) \subseteq slipped[TargetOverlay(r)]]_overlayVars

\* A create writes to an overlay without entries: it would otherwise
\* "silently drop every entry not present in the configuration"
\* (overlay_acl_resource.go:674-678).  Excepted are entries that came after
\* the guard: from the UI, or with the reset of an overlay that was without
\* entries when it changed hands.
CreateDropsNothing ==
    [][\A r \in Resource :
         WritingACL(r) /\ Creating(r) =>
            \/ r \in unguarded \/ TargetOverlay(r) \in contested
            \/ DOMAIN overlays[TargetOverlay(r)].acl = {}]_overlayVars

\* A field the client does not model: not one of the reserved ones, and a
\* criterion only when its value is no text.
Unmodelled(w, f) == f \in DOMAIN w \ Reserved /\ (f \in Criterion => w[f] \notin Text)

\* "Every other setting, including fields this client does not model, is sent
\* back unchanged" (overlay.go:488-490), with the fields of entries that keep
\* their sequence number, when nobody edits the overlay between the read
\* under the mutex and the PUT.
UnmodelledSurvive ==
    [][\A r \in Resource :
         WritingACL(r) /\ r \notin stale =>
            LET old == overlays[TargetOverlay(r)]
                new == overlays'[TargetOverlay(r)]
            IN  /\ new.settings = old.settings
                /\ \A s \in DOMAIN old.acl, e \in config[r].entries :
                      e.seq = s =>
                          \A f \in DOMAIN old.acl[s] \ DOMAIN e.match :
                              Unmodelled(old.acl[s], f) =>
                                  /\ f \in DOMAIN new.acl[s]
                                  /\ new.acl[s][f] = old.acl[s][f]]_overlayVars

\* What a run reports as applied is what the Orchestrator holds, and what the
\* configuration says.  An overlay without entries that changes hands is the
\* exception: the create of its new block passes the guard, and the removal of
\* its old one may reset the ACL afterwards.
AppliedACLIsStored ==
    \A r \in Resource :
        Undisturbed /\ pc[r] = "ok" /\ config[r] # None /\ config[r].overlay \notin contested =>
            /\ tf[r] = config[r]
            /\ config[r].overlay \in DOMAIN overlays
            /\ ToModel(overlays[config[r].overlay].acl) = config[r].entries

\* A handler that has started ends: no error path keeps overlayMu.
EveryRunEnds == \A r \in Resource : pc[r] \in Planning \cup ApplyingACL ~> pc[r] \in Ended
=============================================================================
