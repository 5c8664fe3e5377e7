---------------------------- MODULE MCPortProtocols ----------------------------
(***************************************************************************)
(* Small instances of PortProtocols for TLC.                               *)
(***************************************************************************)
EXTENDS PortProtocolProperties, TLC

CONSTANTS r1, r2, x, y

TCP == 6
UDP == 17

\* Two ports, and one of them with both protocols.
MCPair == {<<80, TCP>>, <<80, UDP>>, <<443, TCP>>}
MCName == {"web", "dns", "mail", "MAIL"}
MCFold == [n \in MCName |-> IF n = "MAIL" THEN "mail" ELSE n]

\* One classification exists that no block has created.
MCDefs == {<<443, TCP>> :> [name |-> "mail", attr |-> x]}

Block ==
    {[pair |-> <<80, TCP>>, name |-> "web", attr |-> x],
     [pair |-> <<80, TCP>>, name |-> "dns", attr |-> y],
     [pair |-> <<80, UDP>>, name |-> "dns", attr |-> x],
     [pair |-> <<80, UDP>>, name |-> "MAIL", attr |-> y],
     [pair |-> <<443, TCP>>, name |-> "mail", attr |-> y]}

\* No two blocks declare one pair or names that are equal, whatever their case.
DistinctConfigs ==
    {c \in [Resource -> Block \cup {None}] :
        /\ Distinctly(c, LAMBDA b : b.pair)
        /\ Distinctly(c, LAMBDA b : MCFold[b.name])}

\* A block whose definition exists is given another port.
MovedConfigs ==
    {[r \in Resource |-> IF r = r1 THEN [pair |-> <<80, TCP>>, name |-> "mail", attr |-> x]
                                   ELSE None]}

\* Terraform runs, failed requests, lost answers and edits in the UI.
Bound(k, f, l, e) == [runs |-> k, faults |-> f, lost |-> l, edits |-> e]
MCBounds  == {Bound(2, 1, 1, 0), Bound(1, 1, 1, 1)}
CalmBound == {Bound(1, 0, 0, 0)}
=============================================================================
