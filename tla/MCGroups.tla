-------------------------------- MODULE MCGroups --------------------------------
(***************************************************************************)
(* Small instances of ApplicationGroups for TLC.                           *)
(***************************************************************************)
EXTENDS GroupProperties, TLC

CONSTANTS r1, r2, r3, x, y, Nobody, Suite

MCName == {"web", "WEB", "mail"}
MCFold == [n \in MCName |-> IF n = "WEB" THEN "web" ELSE n]

\* The Orchestrator holds a group, with a parent, that nobody manages.
MCGroups == {"mail" :> [apps |-> x, parents |-> Suite]}

Block == {[name |-> n, apps |-> a] : n \in {"web", "WEB"}, a \in {x, y}}

\* Blocks may be copied, name and all, but a copied name keeps its case.
CopiedConfigs ==
    {c \in [Resource -> Block \cup {[name |-> "mail", apps |-> y], None}] :
        \A q, r \in Resource :
            c[q] # None /\ c[r] # None /\ SameName(c[q].name, c[r].name)
               => c[q].name = c[r].name}

OneGroup == {[r \in Resource |-> IF r = r1 THEN [name |-> "web", apps |-> x] ELSE None]}

\* Terraform runs, failed requests, lost answers and edits in the UI.
Bound(k, f, l, e) == [runs |-> k, faults |-> f, lost |-> l, edits |-> e]
MCBounds  == {Bound(2, 1, 1, 0), Bound(1, 1, 1, 1)}
CalmBound == {Bound(1, 0, 0, 0)}
=============================================================================
