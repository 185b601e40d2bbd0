---------------------------- MODULE Publication ----------------------------
(***************************************************************************)
(* How an estate, or a whole building, comes to the market and leaves it:  *)
(* the landlord asks, an administrator approves or acts himself, and a     *)
(* final match, a deletion or a job takes the estate off again.            *)
(***************************************************************************)
EXTENDS MarketTables

\* Mutant: an estate on the market can be asked for again.
PublishableActive(e, row) ==
    /\ row.pub # "landlord"
    /\ ~(row.status \in {"draft", "expire"} /\ e \in let)

\* What EstateService.publishEstate refuses.
Publishable(e, row) ==
    /\ row.status # "active"
    /\ row.pub \notin {"landlord", "approved"}
    /\ ~(row.status \in {"draft", "expire"} /\ e \in let)

\* getById and getEstatesByBuilding do not find deleted estates.
Found(units) == {e \in units : estate[e].status # "deleted"}

Request(c, e, places) ==
    /\ Accepts(c, "request")
    /\ e \in Found({e})
    /\ House[e] = None
    /\ Publishable(e, estate[e])
    /\ Begin(c, [Reading("request", {e}) EXCEPT !.places = places])

\* The status that was read is written back.
StoreRequest(c) ==
    /\ Serving(c, "request")
    /\ estate' = [e \in Estates |-> IF e \in call[c].units
                     THEN [call[c].seen[e] EXCEPT !.pub = "landlord"] ELSE estate[e]]
    /\ listing' = WithMarketPlaces(call[c].units, call[c].places)
    /\ Ends(c)
    /\ UNCHANGED <<let, building, remoteVars, jobs>>

\* Mutant: a listing that is out is overlooked.
OnItsWay(e) == \E r \in RowsOf({e}) : listing[r].status \in {"posted", "scheduled"}

\* IS_CURRENTLY_PUBLISHED_IN_MARKET_PLACE
OnMarketPlace(e) ==
    \E r \in RowsOf({e}) : listing[r].status \in {"published", "posted", "scheduled"}

\* By an administrator.  A unit of a building is never sent to a market place
\* this way.
Publish(c, e, places) ==
    /\ Accepts(c, "publish")
    /\ estate[e].status \in {"draft", "expire"}
    /\ Publishable(e, estate[e])
    /\ ~OnMarketPlace(e)
    /\ Begin(c, [NewCall("publish", {e}) EXCEPT !.places = IF House[e] = None THEN places ELSE {}])

\* The job is queued while the transaction is still open.
QueuePost(c) ==
    /\ Serving(c, "publish")
    /\ jobs' = Queued({Post(e) : e \in call[c].units})
    /\ Goes(c, [call[c] EXCEPT !.op = "commitPublish"])
    /\ UNCHANGED <<estate, let, building, listing, remoteVars>>

StorePublish(c) ==
    /\ Serving(c, "commitPublish")
    /\ estate' = WithEstates(call[c].units, [status |-> "active", pub |-> "approved"])
    /\ listing' = WithMarketPlaces(call[c].units, call[c].places)
    /\ Ends(c)
    /\ UNCHANGED <<let, building, remoteVars, jobs>>

\* EstateService.updateBuildingPublishStatus, reading what has been committed.
WithBuildingPublished(e, rows) ==
    [b \in Buildings |->
        IF b = House[e] /\ \A u \in Units(b) : rows[u].status \in {"active", "deleted"}
        THEN [status |-> "active", pub |-> "approved"] ELSE building[b]]

WithBuildingUnpublished(e, rows) ==
    [b \in Buildings |->
        IF b = House[e] /\ \A u \in Units(b) : rows[u].status # "active"
        THEN [status |-> "draft", pub |-> "init"] ELSE building[b]]

\* EstateService.publishRequestedProperty
Requested(e) == estate[e].status \in {"expire", "draft"} /\ estate[e].pub = "landlord"

Review(c, answer, e) ==
    /\ answer \in {"approve", "decline"}
    /\ Accepts(c, answer)
    /\ Requested(e)
    /\ Begin(c, NewCall(answer, {e}))

\* The update of the estate is outside the transaction that the rest is in.
StoreApprove(c, e) ==
    /\ Serving(c, "approve")
    /\ e \in call[c].units
    /\ estate' = WithEstates({e}, [status |-> "active", pub |-> "approved"])
    /\ building' = WithBuildingPublished(e, estate')
    /\ jobs' = Queued({Post(e)})
    /\ Ends(c)
    /\ UNCHANGED <<let, listing, remoteVars>>

StoreDecline(c, e) ==
    /\ Serving(c, "decline")
    /\ e \in call[c].units
    /\ estate' = WithEstates({e}, [status |-> "draft", pub |-> "declined"])
    /\ building' = WithBuildingUnpublished(e, estate')
    /\ listing' = WithListings(ToDelete({e}), "scheduled")
    /\ jobs' = Queued({Withdraw({e}, FALSE)})
    /\ Ends(c)
    /\ UNCHANGED <<let, remoteVars>>

-----------------------------------------------------------------------------
\* Off the market.

Unpublish(c, e) ==
    /\ Accepts(c, "unpublish")
    /\ estate[e].status = "active"
    /\ Begin(c, Reading("unpublish", {e}))

QueueUnpublish(c) ==
    /\ Serving(c, "unpublish")
    /\ jobs' = Queued({Withdraw(call[c].units, FALSE)})
    /\ Goes(c, [call[c] EXCEPT !.op = "commitUnpublish"])
    /\ UNCHANGED <<estate, let, building, listing, remoteVars>>

\* The hook of the model Estate before an update: what is let is a draft.
BeforeUpdate(isLet, row) == IF isLet /\ row.status \in {"active", "expire"} THEN Draft ELSE row

\* A Lucid instance saves the columns that differ from what it has read.
Saved(c, e, row) ==
    LET seen == call[c].seen[e]
        new == BeforeUpdate(e \in call[c].seenLet, row)
    IN  [status |-> IF new.status = seen.status THEN estate[e].status ELSE new.status,
         pub |-> IF new.pub = seen.pub THEN estate[e].pub ELSE new.pub]

\* The other units are read outside the transaction, so that the unit itself
\* still counts as active: the building stays as it is.
StoreUnpublish(c, e) ==
    /\ Serving(c, "commitUnpublish")
    /\ e \in call[c].units
    /\ estate' = [estate EXCEPT ![e] = Saved(c, e, [status |-> "expire", pub |-> "init"])]
    /\ building' = WithBuildingUnpublished(e, estate)
    /\ listing' = WithListings(ToDelete({e}), "scheduled")
    /\ Ends(c)
    /\ UNCHANGED <<let, remoteVars, jobs>>

\* findOrFail finds deleted estates too.
Deactivate(c, e) ==
    /\ Accepts(c, "deactivate")
    /\ Begin(c, Reading("deactivate", {e}))

StoreDeactivate(c, e) ==
    /\ Serving(c, "deactivate")
    /\ e \in call[c].units
    /\ estate' = [estate EXCEPT ![e] = Saved(c, e, Draft)]
    /\ building' = WithBuildingUnpublished(e, estate)
    /\ Goes(c, [call[c] EXCEPT !.op = "goneOffline"])
    /\ UNCHANGED <<let, listing, remoteVars, jobs>>

\* EstateService.handleOffline, after the commit.
HandleOffline(c) ==
    /\ Serving(c, "goneOffline")
    /\ listing' = WithListings(ToDelete(call[c].units), "scheduled")
    /\ jobs' = Queued({Withdraw(call[c].units, FALSE)})
    /\ Ends(c)
    /\ UNCHANGED <<estate, let, building, remoteVars>>

OffMarketPublish(c, e) ==
    /\ Accepts(c, "offMarket")
    /\ e \in Found({e})
    /\ estate[e].pub # "approved"
    /\ Begin(c, Reading("offMarket", {e}))

StoreOffMarket(c, e) ==
    /\ Serving(c, "offMarket")
    /\ e \in call[c].units
    /\ estate' = [estate EXCEPT ![e] = Saved(c, e, [status |-> "offline", pub |-> "init"])]
    /\ Ends(c)
    /\ UNCHANGED <<let, building, listing, remoteVars, jobs>>

Extend(e) ==
    /\ Served("extend")
    /\ estate[e].status \in {"expire", "active"}
    /\ estate' = [estate EXCEPT ![e].status = "active"]
    /\ UNCHANGED <<let, building, listing, remoteVars, jobs>>

\* updateEstate names status DRAFT, but status is a readonly column of the
\* model: but for the hook, only the building and the market places hear of it.
UpdateEstate(e) ==
    /\ Served("edit")
    /\ e \in Found({e})
    /\ estate' = [estate EXCEPT ![e] = BeforeUpdate(e \in let, @)]
    /\ building' = [b \in Buildings |->
                       IF b = House[e] THEN [building[b] EXCEPT !.pub = "init"] ELSE building[b]]
    /\ jobs' = Queued({Withdraw({e}, TRUE)})
    /\ UNCHANGED <<let, listing, remoteVars>>

\* deleteMultiple
DeleteEstates(e) ==
    /\ Served("delete")
    /\ estate' = [estate EXCEPT ![e].status = "deleted"]
    /\ jobs' = Queued({Withdraw({e}, TRUE)})
    /\ UNCHANGED <<let, building, listing, remoteVars>>

\* removeEstate asks EstateSync itself, within its transaction (see Listings).
RemoveEstate(c, e) ==
    /\ Accepts(c, "remove")
    /\ Begin(c, [NewCall("remove", {e}) EXCEPT !.todo = {e}])

StoreRemove(c, e) ==
    /\ Serving(c, "remove")
    /\ e \in call[c].units
    /\ call[c].todo = {} /\ call[c].prop = None
    /\ estate' = [estate EXCEPT ![e].status = "deleted"]
    /\ Ends(c)
    /\ UNCHANGED <<let, building, listing, remoteVars, jobs>>

-----------------------------------------------------------------------------
\* Whole buildings.

\* Every unit of the building that is not let is asked for, and one of each
\* category is to go to the market places.
PublishBuilding(c, b, reps, places) ==
    LET units == Found(Units(b)) \ let
    IN  /\ Accepts(c, "publishBuilding")
        /\ \A e \in units : Publishable(e, estate[e])
        /\ reps \subseteq units
        /\ places # {} => reps # {} \/ units = {}
        /\ Begin(c, [Reading("publishBuilding", units) EXCEPT !.todo = reps, !.places = places])

StorePublishBuilding(c, b) ==
    /\ Serving(c, "publishBuilding")
    /\ \A e \in call[c].units : House[e] = b
    /\ building' = [building EXCEPT ![b].pub = "landlord"]
    /\ estate' = [e \in Estates |-> IF e \in call[c].units
                     THEN [call[c].seen[e] EXCEPT !.pub = "landlord"] ELSE estate[e]]
    /\ listing' = WithMarketPlaces(call[c].todo, call[c].places)
    /\ Ends(c)
    /\ UNCHANGED <<let, remoteVars, jobs>>

\* The units are read first.  The updates cover every unit that names the
\* building, deleted and let ones too.
LeaveMarket(c, op, b) ==
    /\ op \in {"unpublishBuilding", "deactivateBuilding"}
    /\ Accepts(c, op)
    /\ Found(Units(b)) # {}
    /\ Begin(c, NewCall(op, Found(Units(b))))

StoreLeave(c, b) ==
    /\ \A e \in call[c].units : House[e] = b
    /\ listing' = WithListings(ToDelete(call[c].units), "scheduled")
    /\ jobs' = Queued({Withdraw(call[c].units, FALSE)})
    /\ Ends(c)
    /\ UNCHANGED <<let, remoteVars>>

StoreUnpublishBuilding(c, b) ==
    /\ Serving(c, "unpublishBuilding")
    /\ estate' = WithEstates(Units(b), [status |-> "expire", pub |-> "init"])
    /\ building' = [building EXCEPT ![b].pub = "init"]
    /\ StoreLeave(c, b)

StoreDeactivateBuilding(c, b) ==
    /\ Serving(c, "deactivateBuilding")
    /\ estate' = WithEstates(Units(b), Draft)
    /\ building' = [building EXCEPT ![b].status = "draft"]
    /\ StoreLeave(c, b)

\* EstateController.updateBuilding looks at one of the units only.
UpdateBuilding(b) ==
    /\ Served("editBuilding")
    /\ \E e \in Found(Units(b)) : estate[e].pub # "approved"
    /\ estate' = [e \in Estates |-> IF e \in Found(Units(b))
                     THEN [estate[e] EXCEPT !.status = "draft"] ELSE estate[e]]
    /\ UNCHANGED <<let, building, listing, remoteVars, jobs>>

-----------------------------------------------------------------------------
\* What others do to an estate.

\* The estate side of finalConfirm (module FinalMatch): rentable, then rented.
Rent(c, e) ==
    /\ Accepts(c, "rent")
    /\ estate[e].status \in {"active", "expire"}
    /\ e \notin let
    /\ Begin(c, NewCall("rent", {e}))

\* Mutant: a let estate can be extended.
StoreRentExpired(c, e) ==
    /\ Serving(c, "rent")
    /\ e \in call[c].units
    /\ estate' = WithEstates({e}, [status |-> "expire", pub |-> "init"])
    /\ let' = let \cup {e}
    /\ jobs' = Queued({Withdraw({e}, TRUE)})
    /\ Ends(c)
    /\ UNCHANGED <<building, listing, remoteVars>>

\* Mutant: the listings are not marked for deletion.
StoreRentUnmarked(c, e) ==
    /\ Serving(c, "rent")
    /\ e \in call[c].units
    /\ estate' = WithEstates({e}, Draft)
    /\ let' = let \cup {e}
    /\ jobs' = Queued({Withdraw({e}, FALSE)})
    /\ Ends(c)
    /\ UNCHANGED <<building, listing, remoteVars>>

StoreRent(c, e) ==
    /\ Serving(c, "rent")
    /\ e \in call[c].units
    /\ estate' = WithEstates({e}, Draft)
    /\ let' = let \cup {e}
    /\ jobs' = Queued({Withdraw({e}, TRUE)})
    /\ Ends(c)
    /\ UNCHANGED <<building, listing, remoteVars>>

\* EstateService.notAvailable, when the landlord deletes the current tenant.
NotAvailable(e) ==
    /\ Served("vacate")
    /\ e \in let \cap Found({e})
    /\ let' = let \ {e}
    /\ UNCHANGED <<estate, building, listing, remoteVars, jobs>>

\* The job finds the active estates whose time on the market is over.
FindExpired(c, due) ==
    /\ Accepts(c, "expire")
    /\ due # {}
    /\ \A e \in due : estate[e].status = "active"
    /\ Begin(c, NewCall("expire", due))

\* fetchToExpireEstates selects nothing but the id, so that every estate passes
\* for one without a date: all are drafts again, and none is "expire".
HandleToExpire(c) ==
    /\ Serving(c, "expire")
    /\ estate' = WithEstates(call[c].units, Draft)
    /\ jobs' = Queued({Withdraw(call[c].units, TRUE)})
    /\ Ends(c)
    /\ UNCHANGED <<let, building, listing, remoteVars>>

\* The job that deactivates a landlord.
DeactivateLandlord ==
    /\ Served("landlordOff")
    /\ estate' = [e \in Estates |-> IF estate[e].status \in {"active", "expire"}
                                    THEN Draft ELSE estate[e]]
    /\ UNCHANGED <<let, building, listing, remoteVars, jobs>>

PublicationNext ==
    \/ DeactivateLandlord
    \/ \E e \in Estates : \/ Extend(e) \/ UpdateEstate(e)
                          \/ DeleteEstates(e) \/ NotAvailable(e)
    \/ \E b \in Buildings : UpdateBuilding(b)
    \/ \E c \in Calls :
          \/ StoreRequest(c) \/ QueuePost(c) \/ StorePublish(c)
          \/ QueueUnpublish(c) \/ HandleOffline(c) \/ HandleToExpire(c)
          \/ \E due \in SUBSET Estates : FindExpired(c, due)
          \/ \E e \in Estates :
                \/ \E places \in SUBSET Publishers : Request(c, e, places) \/ Publish(c, e, places)
                \/ \E answer \in {"approve", "decline"} : Review(c, answer, e)
                \/ StoreApprove(c, e) \/ StoreDecline(c, e)
                \/ Unpublish(c, e) \/ StoreUnpublish(c, e)
                \/ Deactivate(c, e) \/ StoreDeactivate(c, e)
                \/ OffMarketPublish(c, e) \/ StoreOffMarket(c, e)
                \/ RemoveEstate(c, e) \/ StoreRemove(c, e)
                \/ Rent(c, e) \/ StoreRent(c, e)
          \/ \E b \in Buildings :
                \/ \E reps \in SUBSET Estates, places \in SUBSET Publishers :
                      PublishBuilding(c, b, reps, places)
                \/ \E op \in {"unpublishBuilding", "deactivateBuilding"} : LeaveMarket(c, op, b)
                \/ StorePublishBuilding(c, b)
                \/ StoreUnpublishBuilding(c, b) \/ StoreDeactivateBuilding(c, b)
=============================================================================
