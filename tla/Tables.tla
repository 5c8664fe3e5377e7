--------------------------------- MODULE Tables ---------------------------------
(***************************************************************************)
(* Functions as tables with keys, the shape in which the Orchestrator      *)
(* keeps what it stores.  They are written out because the proof system    *)
(* does not know the operators of TLC.tla for this.                        *)
(***************************************************************************)
EXTENDS Functions

\* The table f with v under the key k.
Bind(f, k, v) == [x \in DOMAIN f \cup {k} |-> IF x = k THEN v ELSE f[x]]

\* The table f without the key k.
Unbind(f, k) == Restrict(f, DOMAIN f \ {k})
=============================================================================
