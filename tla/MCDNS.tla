--------------------------------- MODULE MCDNS ---------------------------------
(***************************************************************************)
(* Small instances of DNSClassifications for TLC.                          *)
(***************************************************************************)
EXTENDS DNSProperties, TLC

CONSTANTS r1, r2, x, y

MCDomain == {"a.com", "A.com", "b.com"}
MCName   == {"web", "WEB", "mail"}
MCFold   == [s \in MCDomain \cup MCName |-> CASE s = "A.com" -> "a.com"
                                              [] s = "WEB"   -> "web"
                                              [] OTHER       -> s]

\* One classification exists that no block has created.
MCDefs == {"b.com" :> [name |-> "mail", attr |-> x]}

B(d, n, a) == [domain |-> d, name |-> n, attr |-> a]

Block == {B("a.com", "web", x), B("A.com", "WEB", x), B("a.com", "mail", y),
          B("A.com", "web", y), B("b.com", "web", x), B("b.com", "mail", y)}

\* No two blocks declare one domain or one name, whatever the case.
DistinctConfigs ==
    {c \in [Resource -> Block \cup {None}] :
        /\ Distinctly(c, LAMBDA b : MCFold[b.domain])
        /\ Distinctly(c, LAMBDA b : MCFold[b.name])}

\* Terraform runs, failed requests, lost answers and edits in the UI.
Bound(k, f, l, e) == [runs |-> k, faults |-> f, lost |-> l, edits |-> e]
MCBounds  == {Bound(2, 1, 1, 0), Bound(1, 1, 1, 1)}
=============================================================================
