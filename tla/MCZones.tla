-------------------------------- MODULE MCZones --------------------------------
(***************************************************************************)
(* Small instances of SecurityZones for TLC.                               *)
(***************************************************************************)
EXTENDS ZoneProperties, TLC

CONSTANTS r1, r2, r3, lan, wan, Default

\* Zone 0 always exists; a policy guards the traffic between 0 and 1.
MCZones == {[zones |-> (0 :> Default) @@ (1 :> wan), rules |-> {<<0, 1>>}]}

\* Names are free: both blocks may declare the same one.
AllConfigs == [Resource -> {lan, wan, None}]

\* Terraform runs, failed requests, lost answers and edits in the UI.
Bound(k, f, l, e) == [runs |-> k, faults |-> f, lost |-> l, edits |-> e]
MCBounds == {Bound(2, 1, 1, 0), Bound(1, 0, 0, 2)}
=============================================================================
