------------------------------ MODULE MCCompound ------------------------------
(***************************************************************************)
(* Small instances of CompoundClassification for TLC.                      *)
(***************************************************************************)
EXTENDS CompoundProperties, TLC

CONSTANTS r1, r2, x, y

\* "web" and "WEB" are one name to strings.EqualFold.
MCName == {"web", "WEB", "mail", "dns"}
MCFold == [n \in MCName |-> IF n = "WEB" THEN "web" ELSE n]

Ruled(u, n, a) == [uid |-> u, name |-> n, attr |-> a]
MCLists == {<<Ruled(1, "dns", x), Ruled(2, "web", x)>>, <<>>}

W(n, a) == [name |-> n, attr |-> a]

\* Configurations in which no two blocks declare one name.
SmallConfigs ==
    {c \in [Resource -> {W("web", x), W("WEB", y), W("mail", x), None}] :
        \A q, r \in Resource :
            c[q] # None /\ c[r] # None /\ SameName(c[q].name, c[r].name) => q = r}

\* Terraform runs, failed requests, lost answers and edits in the UI.
Bound(k, f, l, e) == [runs |-> k, faults |-> f, lost |-> l, edits |-> e]
MCBounds == {Bound(2, 1, 1, 0), Bound(1, 1, 0, 1)}
=============================================================================
