---------------------------- MODULE MarketTables ----------------------------
(***************************************************************************)
(* The tables behind the publication of estates: the estates and buildings *)
(* of a landlord, their rows in estate_sync_listings, and what the service *)
(* EstateSync keeps for them on its side.                                  *)
(*                                                                         *)
(* A call is a client's request, a webhook or a job that is being served.  *)
(* It reads and checks in one action and writes in later ones, one per     *)
(* transaction and one per request to EstateSync.                          *)
(***************************************************************************)
EXTENDS Naturals, FiniteSets

CONSTANTS
    Estates,     \* rental units
    Buildings,   \* buildings
    House,       \* House[e]: the building of a unit, None without one
    Publishers,  \* market places
    Props,       \* ids of properties at EstateSync
    Offers,      \* ids of listings at EstateSync
    Calls,       \* calls that can be in flight at the same time
    None,        \* no building, no property, no listing
    Idle,        \* a call slot that serves nothing
    Endpoints    \* the operations that are called in this instance

ASSUME MarketAssumption ==
    /\ House \in [Estates -> Buildings \cup {None}]
    /\ None \notin Estates \cup Buildings \cup Publishers \cup Props \cup Offers

VARIABLES
    estate,    \* estates: status and publish_status
    let,       \* the estates with letting_type = LETTING_TYPE_LET
    building,  \* buildings: status and published
    listing,   \* estate_sync_listings: one row per estate and provider (unique key)
    property,  \* EstateSync: the properties, each of an estate of ours
    offer,     \* EstateSync: the listings, each of a property on a market place
    hooks,     \* EstateSync: webhooks on their way, in no order
    jobs,      \* the queue: jobs that wait for a worker
    call       \* the calls in flight

remoteVars == <<property, offer, hooks>>
marketTables == <<estate, let, building, listing, remoteVars, jobs>>
marketVars == <<marketTables, call>>

-----------------------------------------------------------------------------
Rows == Estates \X Publishers

EstateRow == [status : {"active", "expire", "draft", "offline", "deleted"},
              pub : {"init", "landlord", "approved", "declined"}]

\* building.status is DRAFT or ACTIVE; published is a publish_status.
BuildingRow == [status : {"draft", "active"}, pub : {"init", "landlord", "approved"}]

\* prop and remote are estate_sync_property_id and estate_sync_listing_id,
\* failed is posting_error; "none" is a row that does not exist.
Listing ==
    [status : {"none", "initialized", "posted", "published", "scheduled", "error", "deleted"},
     prop : Props \cup {None}, remote : Offers \cup {None}, failed : BOOLEAN]
NoListing == [status |-> "none", prop |-> None, remote |-> None, failed |-> FALSE]

\* An id that EstateSync has not given yet has no estate or property.  A listing
\* that EstateSync has failed to delete is kept.
Property == [estate : Estates \cup {None}, live : BOOLEAN]
Offer == [prop : Props \cup {None}, publisher : Publishers \cup {None},
          live : BOOLEAN, kept : BOOLEAN]
NoOffer == [prop |-> None, publisher |-> None, live |-> FALSE, kept |-> FALSE]

\* property.processing_succeeded and _failed, publication.succeeded and _failed
\* (with type set or delete).
PropertyHooks == [event : {"processed", "rejected"}, id : Props]
OfferHooks == [event : {"published", "notPublished", "withdrawn", "notWithdrawn"}, id : Offers]

Job == [op : {"post", "withdraw"}, estates : SUBSET Estates, mark : BOOLEAN]

Handlers == {"request", "publish", "commitPublish", "approve", "decline", "unpublish",
             "commitUnpublish", "deactivate", "goneOffline", "offMarket", "remove",
             "publishBuilding", "unpublishBuilding", "deactivateBuilding", "rent", "expire",
             "post", "process", "withdraw", "exhaust"}

Call == [op : Handlers, units : SUBSET Estates, todo : SUBSET Estates,
         seen : [Estates -> EstateRow], seenLet : SUBSET Estates, places : SUBSET Publishers,
         prop : Props \cup {None}, posted : SUBSET (Publishers \X Offers)]

ASSUME IdleAssumption == Idle \notin Call

TypeOK ==
    /\ estate \in [Estates -> EstateRow]
    /\ let \subseteq Estates
    /\ building \in [Buildings -> BuildingRow]
    /\ listing \in [Rows -> Listing]
    /\ property \in [Props -> Property]
    /\ offer \in [Offers -> Offer]
    /\ hooks \subseteq PropertyHooks \cup OfferHooks
    /\ jobs \subseteq Job
    /\ call \in [Calls -> Call \cup {Idle}]

\* What createEstate stores: a draft nobody has asked to publish.
Draft == [status |-> "draft", pub |-> "init"]

Init ==
    /\ estate = [e \in Estates |-> Draft]
    /\ let = {}
    /\ building = [b \in Buildings |-> [status |-> "draft", pub |-> "init"]]
    /\ listing = [r \in Rows |-> NoListing]
    /\ property = [p \in Props |-> [estate |-> None, live |-> FALSE]]
    /\ offer = [o \in Offers |-> NoOffer]
    /\ hooks = {}
    /\ jobs = {}
    /\ call = [c \in Calls |-> Idle]

-----------------------------------------------------------------------------
\* Calls in flight.

NewCall(op, units) ==
    [op |-> op, units |-> units, todo |-> {}, seen |-> [e \in Estates |-> Draft],
     seenLet |-> {}, places |-> {}, prop |-> None, posted |-> {}]

\* A call that works on with the rows it has read.
Reading(op, units) ==
    [NewCall(op, units) EXCEPT
        !.seen = [e \in Estates |-> IF e \in units THEN estate[e] ELSE Draft],
        !.seenLet = units \cap let]

Accepts(c, op) == op \in Endpoints /\ call[c] = Idle
Goes(c, next) == call' = [call EXCEPT ![c] = next]
Begin(c, first) == Goes(c, first) /\ UNCHANGED marketTables
Ends(c) == Goes(c, Idle)
\* A worker's or a webhook's call ends with its last part.
GoesOn(c, next) ==
    Goes(c, IF next.todo = {} /\ next.places = {} /\ next.posted = {} THEN Idle ELSE next)
Serving(c, op) == call[c] # Idle /\ call[c].op = op

\* An operation of one statement, with nothing read before it.
Served(op) == op \in Endpoints /\ (\E c \in Calls : call[c] = Idle) /\ UNCHANGED call

-----------------------------------------------------------------------------
\* Rows.

Units(b) == {e \in Estates : House[e] = b}
RowsOf(units) == units \X Publishers

WithEstates(units, row) == [e \in Estates |-> IF e \in units THEN row ELSE estate[e]]

\* UPDATE estate_sync_listings SET status, for the given rows.
WithListings(rows, s) ==
    [r \in Rows |-> IF r \in rows THEN [listing[r] EXCEPT !.status = s] ELSE listing[r]]

\* A row that was closed: nothing at EstateSync belongs to it any more.
Closed(row) ==
    IF row.status = "none" THEN row
    ELSE [row EXCEPT !.status = "deleted", !.prop = None, !.remote = None]

\* Mutant: a row starts again with the listing it had.
WithMarketPlacesKeeping(units, places) ==
    [r \in Rows |->
        IF places = {} \/ r[1] \notin units THEN listing[r]
        ELSE IF r[2] \in places
        THEN [NoListing EXCEPT !.status = "initialized", !.remote = listing[r].remote]
        ELSE Closed(listing[r])]

\* EstateSyncService.saveMarketPlacesInfo: the chosen market places start from
\* INITIALIZED, the other rows of the estate are closed.
WithMarketPlaces(units, places) ==
    [r \in Rows |->
        IF places = {} \/ r[1] \notin units THEN listing[r]
        ELSE IF r[2] \in places THEN [NoListing EXCEPT !.status = "initialized"]
        ELSE Closed(listing[r])]

\* The rows that markListingsForDelete finds for some estates.
ToDelete(units) == {r \in RowsOf(units) : listing[r].status \notin {"none", "deleted"}}

Post(e) == [op |-> "post", estates |-> {e}, mark |-> FALSE]
Withdraw(units, mark) == [op |-> "withdraw", estates |-> units, mark |-> mark]

\* An instance without workers for a kind of job does not look at such jobs.
Queued(new) == jobs \cup {job \in new : job.op \in Endpoints}
=============================================================================
