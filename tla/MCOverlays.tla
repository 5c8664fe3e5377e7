------------------------------- MODULE MCOverlays -------------------------------
(***************************************************************************)
(* Small instances of OverlayACLs for TLC.                                 *)
(***************************************************************************)
EXTENDS OverlayProperties, TLC

CONSTANTS r1, r2, o1, o2, s0, s1, t, n, z

E(s, m) == [seq |-> s, permit |-> TRUE, match_all |-> m = <<>>, match |-> m]

\* Entries 1 and 2.
B(o, a, es) == [overlay |-> o, allow |-> a, entries |-> es]
One   == {E(1, ("app" :> t))}
Two   == One \cup {E(2, ("app" :> t))}

\* What the Orchestrator stores for an entry: with a field the client does
\* not know, with a criterion that is a number, and with its own number.
Plain == ("app" :> t) @@ ("permit" :> TRUE) @@ ("vendor" :> z)
Odd   == ("app" :> n) @@ ("permit" :> TRUE) @@ ("self" :> 0)

MCUIEntry == {Plain, Odd}

\* One overlay with an entry and one without any, or one whose entry has a
\* vendor's field.
MCOverlays ==
    {(o1 :> [acl |-> (2 :> (("self" :> 2) @@ Odd)), settings |-> s0])
        @@ (o2 :> [acl |-> <<>>, settings |-> s0]),
     o1 :> [acl |-> (1 :> Plain), settings |-> s0]}

\* No, one or two entries; the removal of others may be allowed.
Blocks == [r \in Resource |->
    {None} \cup IF r = r1
               THEN {B(o1, FALSE, One), B(o1, FALSE, Two), B(o1, TRUE, One), B(o2, FALSE, One)}
               ELSE {B(o2, FALSE, One), B(o2, FALSE, {})}]

\* No two blocks declare the ACL of one overlay.
DistinctConfigs ==
    LET Key(b) == b.overlay
    IN  {c \in [Resource -> UNION {Blocks[r] : r \in Resource}] :
            Distinctly(c, Key) /\ \A r \in Resource : c[r] \in Blocks[r]}

\* Terraform runs, failed requests, lost answers and edits in the UI.
Bound(k, f, l, e) == [runs |-> k, faults |-> f, lost |-> l, edits |-> e]
MCBounds == {Bound(2, 1, 1, 0), Bound(1, 1, 1, 1)}
=============================================================================
