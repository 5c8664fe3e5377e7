------------------------------ MODULE MCPolicies ------------------------------
(***************************************************************************)
(* Small instances of SecurityPolicies: zones lan (20 in the default VRF,  *)
(* 40 in VRF 1), dmz (22, default VRF only) and iot (42, VRF 1 only), and  *)
(* pairs within the default VRF and from it to VRF 1.                      *)
(***************************************************************************)
EXTENDS PolicyProperties

CONSTANTS r1, r2, x, y

Assigned(z, n, v) == [zone |-> z, name |-> n, vrf |-> v]
MCMappings == {Assigned(20, "lan", 0), Assigned(40, "lan", 1),
               Assigned(22, "dmz", 0), Assigned(42, "iot", 1)}
MCUnknown == -1
MCZoneId == {20, 22, 40, 42}

Default == [src |-> 0, dst |-> 0]
Cross   == [src |-> 0, dst |-> 1]
MCPairs == {Default, Cross}

InSlot(a, b) == [src |-> a, dst |-> b, prio |-> 20000]
Empty == [s \in Slot |-> None]

\* Nothing at all, or two rules that nobody declares in the cross-VRF pair.
MCServers ==
    {[p \in Pair |-> Empty],
     [p \in Pair |-> IF p = Default THEN Empty
                     ELSE [Empty EXCEPT ![InSlot(20, 40)] = y, ![InSlot(20, 42)] = y]]}

Block(p, b, c) == [pair |-> p, slot |-> InSlot(20, b), body |-> c]

\* Any two declarations, the same slot in two blocks and a zone without an ID
\* in VRF 1 (dmz) included.
MCConfigs ==
    [Resource -> {None, Block(Default, 20, x), Block(Cross, 20, x),
                  Block(Cross, 20, y), Block(Cross, 22, x)}]

\* Terraform runs, failed requests, failed mapping requests, lost answers and
\* edits in the UI.
Bound(k, f, m, l, e) ==
    [runs |-> k, faults |-> f, mapFaults |-> m, lost |-> l, edits |-> e]
MCBounds     == {Bound(2, 1, 0, 0, 0), Bound(1, 0, 1, 1, 0), Bound(1, 0, 0, 0, 1)}
BoundMapping == {Bound(2, 0, 1, 0, 0)}
=============================================================================
