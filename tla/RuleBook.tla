------------------------------- MODULE RuleBook -------------------------------
(***************************************************************************)
(* What app_compound_classification promises its user, without IDs, locks, *)
(* listings or retries: a book of named rules in which names are unique,   *)
(* resources own rules, no rule has two owners, and an operation on a      *)
(* resource adds one rule under an unused name or touches the one rule the *)
(* resource owns, leaving every other rule as it is.  Somebody else may    *)
(* disturb this, by editing the book or by losing answers; from then on    *)
(* nothing is promised.                                                    *)
(***************************************************************************)
EXTENDS Naturals

CONSTANTS Resource, Name, Fold, Attr, None, InitialBooks

VARIABLES
    book,    \* the rules: records of an identity, a name and the attributes
    minted,  \* identities handed out so far
    owner,   \* per resource the identity of the rule it owns, or None
    disturbed   \* whether somebody else has interfered

bookVars == <<book, minted, owner, disturbed>>

Unused(n, besides) == \A b \in book \ besides : Fold[b.name] # Fold[n]
Owned(u) == \E r \in Resource : owner[r] = u

BookInit ==
    /\ \E start \in InitialBooks : book = start.book /\ minted = start.minted
    /\ owner = [r \in Resource |-> None]
    /\ ~disturbed

\* A create adds a rule nobody owns yet.
Add(n, a) ==
    /\ Unused(n, {})
    /\ minted' = minted + 1
    /\ book' = book \cup {[uid |-> minted + 1, name |-> n, attr |-> a]}
    /\ UNCHANGED owner

\* The end of a create, or an import: the resource takes a rule without owner.
Adopt(r, b) ==
    /\ owner[r] = None
    /\ ~Owned(b.uid)
    /\ owner' = [owner EXCEPT ![r] = b.uid]
    /\ UNCHANGED <<book, minted>>

\* An update gives the owned rule a name no other rule has, and attributes.
Change(r, b, n, a) ==
    /\ owner[r] = b.uid
    /\ Unused(n, {b})
    /\ book' = (book \ {b}) \cup {[uid |-> b.uid, name |-> n, attr |-> a]}
    /\ UNCHANGED <<minted, owner>>

\* A delete removes the owned rule.
Drop(r, b) ==
    /\ owner[r] = b.uid
    /\ book' = book \ {b}
    /\ owner' = [owner EXCEPT ![r] = None]
    /\ UNCHANGED minted

BookNext ==
    \/ disturbed'
    \/ \E n \in Name, a \in Attr : Add(n, a)
    \/ \E r \in Resource, b \in book :
          \/ Adopt(r, b)
          \/ Drop(r, b)
          \/ \E n \in Name, a \in Attr : Change(r, b, n, a)

BookSpec == BookInit /\ [][BookNext]_bookVars
=============================================================================
