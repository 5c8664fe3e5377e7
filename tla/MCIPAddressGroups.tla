--------------------------- MODULE MCIPAddressGroups ---------------------------
(***************************************************************************)
(* Small instances of IPAddressGroups for TLC.                             *)
(***************************************************************************)
EXTENDS IPAddressGroupProperties, TLC

CONSTANTS r1, r2, lan, office, ip, text

MCLists == {<<>>, <<ip>>, <<lan>>}

R(i, e, g) == [lists |-> ("included_ips" :> i) @@ ("excluded_ips" :> e) @@ ("included_groups" :> g),
               comment |-> text]

Plain  == <<R(<<ip>>, <<>>, <<>>)>>
Nested == <<R(<<>>, <<>>, <<lan>>)>>
Both   == <<R(<<>>, <<>>, <<lan>>), R(<<ip>>, <<>>, <<>>)>>

MCRules  == {Plain, Nested, Both}
MCGroups == {lan :> Plain}

\* One rule that leaves a list out, and is sent like Plain.
Partial == <<R(<<ip>>, <<>>, Null)>>

Block == {[name |-> lan, rules |-> Plain], [name |-> lan, rules |-> Nested],
          [name |-> lan, rules |-> Partial],
          [name |-> office, rules |-> Nested], [name |-> office, rules |-> Both]}

AllConfigs == [Resource -> Block \cup {None}]

\* Terraform runs, failed requests, lost answers and edits in the UI.
Bound(k, f, l, e) == [runs |-> k, faults |-> f, lost |-> l, edits |-> e]
MCBounds  == {Bound(2, 1, 1, 0), Bound(1, 1, 1, 1)}
=============================================================================
