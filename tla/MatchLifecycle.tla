--------------------------- MODULE MatchLifecycle ---------------------------
(***************************************************************************)
(* What the matching services promise about a prospect and an estate, with *)
(* everything before the TOP list taken together: a candidate is listed,   *)
(* the rental is requested from somebody on the list, and who confirms the *)
(* request is the tenant.  A prospect may fall back to a candidate at any  *)
(* time, and an invitation link leads to the end at once.  Several pairs   *)
(* may move in one step: estates leave the market with all their matches.  *)
(***************************************************************************)

CONSTANT Pairs  \* of a prospect and an estate

VARIABLES
    place,   \* how far the pair has come
    bonded,  \* the pairs that can talk: they have a system task
    linked   \* the pairs whose invitation link is being accepted

lifecycleVars == <<place, bonded, linked>>

Places == {"candidate", "listed", "requested", "tenant"}

LifecycleInit ==
    /\ place = [p \in Pairs |-> "candidate"]
    /\ bonded = {}
    /\ linked = {}

Falls(p) == place'[p] = "candidate"

\* From the bottom, or back from a request that is cancelled or too old.
Lists(p) == place'[p] = "listed" /\ p \in bonded'

IsRequested(p) == place[p] = "listed" /\ place'[p] = "requested"

Confirms(p) == place[p] = "requested" /\ place'[p] = "tenant"

ArrivesByLink(p) == p \in linked /\ p \in bonded' /\ place'[p] = "tenant"

Moves(p) ==
    \/ place'[p] = place[p]
    \/ Falls(p) \/ Lists(p) \/ IsRequested(p) \/ Confirms(p) \/ ArrivesByLink(p)

\* Who may accept a link is for the landlord to say.
LifecycleNext ==
    /\ place' \in [Pairs -> Places]
    /\ bonded \subseteq bonded' /\ bonded' \subseteq Pairs
    /\ linked' \subseteq Pairs
    /\ \A p \in Pairs : Moves(p)

Lifecycle == LifecycleInit /\ [][LifecycleNext]_lifecycleVars

-----------------------------------------------------------------------------
\* Whoever is past the candidates can talk to the landlord.
PastIsBonded == \A p \in Pairs : place[p] # "candidate" => p \in bonded
=============================================================================
