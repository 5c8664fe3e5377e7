------------------------------ MODULE KeyedStore ------------------------------
(***************************************************************************)
(* What every kind of resource that manages one object of the Orchestrator *)
(* promises, without listings, locks, requests or retries: the             *)
(* Orchestrator stores objects under keys, a resource owns at most one     *)
(* key, no key has two owners, and an operation stores an object under a   *)
(* key that was unused or touches the object the resource owns, leaving    *)
(* every other object as it is.  Somebody else may disturb this, by        *)
(* writing to the Orchestrator or by losing its answers; from then on      *)
(* nothing is promised.                                                    *)
(***************************************************************************)
EXTENDS Tables

CONSTANTS Resource, None, InitialStores

VARIABLES
    store,   \* the objects, by key
    owner,      \* per resource the key it owns, or None
    disturbed   \* whether somebody else has interfered

storeVars == <<store, owner, disturbed>>

Owned(k) == \E r \in Resource : owner[r] = k

StoreInit ==
    /\ store \in InitialStores
    /\ owner = [r \in Resource |-> None]
    /\ ~disturbed

\* Some object v is stored under an unused key.
Stores(k, v) == k \notin DOMAIN store /\ store' = Bind(store, k, v)

\* A create stores an object under an unused key.
Add(k, v) == Stores(k, v) /\ UNCHANGED owner

\* A create that ends, or an import, takes a key nobody owns; the create of
\* a kind that needs no answer to know its key does both at once.
Adopt(r, k, v) ==
    /\ owner[r] = None
    /\ ~Owned(k)
    /\ owner' = [owner EXCEPT ![r] = k]
    /\ Stores(k, v) \/ (k \in DOMAIN store /\ UNCHANGED store)

\* An update replaces the owned object.
Change(r, v) ==
    /\ owner[r] \in DOMAIN store
    /\ store' = [store EXCEPT ![owner[r]] = v]
    /\ UNCHANGED owner

\* A delete removes the owned object; when its answer is lost the resource
\* keeps the key until it is refreshed.
Drop(r) ==
    /\ owner[r] \in DOMAIN store
    /\ store' = Unbind(store, owner[r])
    /\ owner' = owner \/ owner' = [owner EXCEPT ![r] = None]

Forget(r) ==
    /\ owner[r] # None
    /\ owner[r] \notin DOMAIN store
    /\ owner' = [owner EXCEPT ![r] = None]
    /\ UNCHANGED store

StoreNext ==
    \/ disturbed'
    \/ \E k \in DOMAIN store' : Add(k, store'[k])
    \/ \E r \in Resource :
          \/ \E k \in DOMAIN store' : Adopt(r, k, store'[k])
          \/ owner[r] \in DOMAIN store' /\ Change(r, store'[owner[r]])
          \/ Drop(r) \/ Forget(r)

StoreSpec == StoreInit /\ [][StoreNext]_storeVars
=============================================================================
