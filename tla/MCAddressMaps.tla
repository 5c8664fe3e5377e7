----------------------------- MODULE MCAddressMaps -----------------------------
(***************************************************************************)
(* Small instances of AddressMaps for TLC.                                 *)
(***************************************************************************)
EXTENDS AddressMapProperties, TLC

CONSTANTS r1, r2, x, y, h0, h1

\* Around 10.0.1.0, where the third octet changes; one pair is no range.
Net    == 167772160
MCSpan == {<<Net + s[1], Net + s[2]>> : s \in {<<254, 255>>, <<255, 256>>, <<256, 255>>, <<256, 256>>, <<257, 258>>}}
S(a, b) == <<Net + a, Net + b>>

MCName == {"web", "mail", "MAIL"}
MCFold == [n \in MCName |-> IF n = "MAIL" THEN "mail" ELSE n]

\* One entry exists that no block has created, with settings made in the UI.
MCMaps == {S(256, 256) :> [name |-> "mail", attr |-> x, hidden |-> h1]}

B(s, n, a) == [range |-> Dots(s), name |-> n, attr |-> a]

Block == {B(S(254, 255), "web", x), B(S(255, 256), "web", x), B(S(256, 255), "web", x),
          B(S(256, 256), "mail", x),
          B(S(256, 256), "mail", y), B(S(257, 258), "MAIL", x)}

\* No two blocks declare ranges that overlap, or names that are equal
\* whatever their case.
DistinctConfigs ==
    {c \in [Resource -> Block \cup {None}] :
        \A q, r \in Resource : c[q] # None /\ c[r] # None /\ q # r =>
            /\ ~Overlap(c[q].range, c[r].range)
            /\ MCFold[c[q].name] # MCFold[c[r].name]}

\* Terraform runs, failed requests, lost answers and edits in the UI.
Bound(k, f, l, e) == [runs |-> k, faults |-> f, lost |-> l, edits |-> e]
MCBounds  == {Bound(2, 1, 1, 0), Bound(1, 1, 1, 1)}
=============================================================================
