------------------------------ MODULE ACLDocument ------------------------------
(***************************************************************************)
(* The ACL built into an overlay, a document embedded in the overlay's     *)
(* configuration: per sequence number the fields of an entry.  The client  *)
(* models some of the fields, the match criteria and permit, and keeps the *)
(* others so that it can write them back.                                  *)
(***************************************************************************)
EXTENDS Integers, Tables

CONSTANTS
    Criterion,    \* the match criteria the client models: fields with a text
    Text,         \* texts a criterion may have
    OtherField    \* fields the client does not model

\* Fields with a meaning of their own; "match_acl_all" only says that there
\* is no criterion, and appliances leave it out.
Reserved == {"permit", "self", "match_acl_all"}

\* What the Orchestrator stores under s: an entry that carries its number
\* carries that of its key, or none.
IsWire(s, w) ==
    /\ DOMAIN w \subseteq Reserved \cup Criterion \cup OtherField
    /\ "self" \in DOMAIN w => w["self"] \in {0, s}
    /\ "permit" \in DOMAIN w => w["permit"] \in BOOLEAN

\* A document; one without entries is the empty string, there is no ACL then.
IsACL(doc) == \A s \in DOMAIN doc : IsWire(s, doc[s])

\* The match criteria of an entry.
Match == UNION {[F -> Text] : F \in SUBSET Criterion}

MatchAll(e) == e.match = <<>>

\* Mutant: the entry's own number counts even when it is 0.
ParseEntry_SelfAlways(s, w) ==
    [seq    |-> IF "self" \in DOMAIN w THEN w["self"] ELSE s,
     permit |-> IF "permit" \in DOMAIN w THEN w["permit"] ELSE TRUE,
     match  |-> Restrict(w, {f \in Criterion \cap DOMAIN w : w[f] \in Text}),
     extra  |-> Restrict(w, {f \in DOMAIN w \ Reserved : f \in Criterion => w[f] \notin Text})]

\* One entry of parseOverlayACL, found under key s with the fields w.
ParseEntry(s, w) ==
    [seq    |-> IF "self" \in DOMAIN w /\ w["self"] # 0 THEN w["self"] ELSE s,
     permit |-> IF "permit" \in DOMAIN w THEN w["permit"] ELSE TRUE,
     match  |-> Restrict(w, {f \in Criterion \cap DOMAIN w : w[f] \in Text}),
     extra  |-> Restrict(w, {f \in DOMAIN w \ Reserved : f \in Criterion => w[f] \notin Text})]

ParseACL(doc) == {ParseEntry(s, doc[s]) : s \in DOMAIN doc}

\* One entry of buildOverlayACL: a criterion replaces what was kept under
\* its name, and permit is always written.
BuildEntry(e) ==
    [f \in {"permit"} \cup DOMAIN e.match \cup (DOMAIN e.extra \ Reserved) |->
        IF f = "permit" THEN e.permit
        ELSE IF f \in DOMAIN e.match THEN e.match[f] ELSE e.extra[f]]

\* The entries have different sequence numbers.
BuildACL(entries) ==
    [s \in {e.seq : e \in entries} |-> BuildEntry(CHOOSE e \in entries : e.seq = s)]
=============================================================================
