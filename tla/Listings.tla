------------------------------ MODULE Listings ------------------------------
(***************************************************************************)
(* The listings of estates on market places, through EstateSync: workers   *)
(* of the queue post and withdraw, and the webhooks of EstateSync report   *)
(* what has become of it, in any order.  EstateSync is external: an id it  *)
(* gives is new, it answers or refuses, and it reports each outcome once.  *)
(***************************************************************************)
EXTENDS MarketTables

\* The next id that EstateSync gives: any that it has not given yet.
NextProp == CHOOSE p \in Props : property[p].estate = None
NextOffer == CHOOSE o \in Offers : offer[o].prop = None

\* EstateSync processes a property later; one it rejects never goes live.
NewProperty(p, e) ==
    /\ property[p].estate = None
    /\ p = NextProp
    /\ \E accepted \in BOOLEAN :
          /\ property' = [property EXCEPT ![p] = [estate |-> e, live |-> accepted]]
          /\ hooks' = hooks \cup {[event |-> IF accepted THEN "processed" ELSE "rejected", id |-> p]}

NewOffer(o, p, publisher) ==
    /\ offer[o].prop = None
    /\ o = NextOffer
    /\ offer' = [offer EXCEPT ![o] = [NoOffer EXCEPT !.prop = p, !.publisher = publisher, !.live = TRUE]]
    /\ \E outcome \in {"published", "notPublished"} :
          hooks' = hooks \cup {[event |-> outcome, id |-> o]}

\* Deleting listings while the webhooks others wait; a listing that is gone is
\* not reported on again.
Outcome == IF "refuseDelete" \in Endpoints THEN {"withdrawn", "notWithdrawn"} ELSE {"withdrawn"}
DeleteOffers(gone, others) ==
    LET live == {o \in gone : offer[o].live}
    IN  \E reports \in [live -> Outcome] :
           /\ offer' = [o \in Offers |->
                  IF o \notin live THEN offer[o]
                  ELSE IF reports[o] = "withdrawn" THEN [offer[o] EXCEPT !.live = FALSE]
                  ELSE [offer[o] EXCEPT !.kept = TRUE]]
           /\ hooks' = others \cup {[event |-> reports[o], id |-> o] : o \in live}

DeleteProperty(p) ==
    property' = [q \in Props |-> IF q = p THEN [property[q] EXCEPT !.live = FALSE] ELSE property[q]]

-----------------------------------------------------------------------------
\* Posting.

\* Do not post again if already posted on any listing.
AlreadyPosted(e) ==
    \E r \in RowsOf({e}) : listing[r].prop # None /\ listing[r].status # "deleted"
ToPost(e) == \E r \in RowsOf({e}) : listing[r].status = "initialized"

PostEstate(c, job, e) ==
    /\ job \in jobs /\ job = Post(e)
    /\ Accepts(c, "post")
    /\ jobs' = jobs \ {job}
    /\ Goes(c, IF ToPost(e) /\ ~AlreadyPosted(e) THEN NewCall("post", {e}) ELSE Idle)
    /\ UNCHANGED <<estate, let, building, listing, remoteVars>>

PropertyPosted(c, p) ==
    /\ Serving(c, "post")
    /\ call[c].prop = None
    /\ \E e \in call[c].units : NewProperty(p, e)
    /\ Goes(c, [call[c] EXCEPT !.prop = p])
    /\ UNCHANGED <<estate, let, building, listing, offer, jobs>>

\* Every row that is not closed, whatever it was meanwhile.
StorePosted(c) ==
    /\ Serving(c, "post")
    /\ call[c].prop # None
    /\ listing' = [r \in Rows |->
                      IF r \in ToDelete(call[c].units)
                      THEN [listing[r] EXCEPT !.status = "posted", !.prop = call[c].prop, !.failed = FALSE]
                      ELSE listing[r]]
    /\ Ends(c)
    /\ UNCHANGED <<estate, let, building, remoteVars, jobs>>

PropertyRefused(c) ==
    /\ Serving(c, "post")
    /\ call[c].prop = None
    /\ listing' = [r \in Rows |->
                      IF r \in RowsOf(call[c].units) /\ listing[r].status # "none"
                      THEN [listing[r] EXCEPT !.failed = TRUE] ELSE listing[r]]
    /\ Ends(c)
    /\ UNCHANGED <<estate, let, building, remoteVars, jobs>>

-----------------------------------------------------------------------------
\* Webhooks about a property.

Arrives(c, h) ==
    /\ h \in hooks
    /\ call[c] = Idle
    /\ hooks' = hooks \ {h}

\* The rows of a property that still wait for a listing.
Waiting(p) == {r \in Rows : /\ listing[r].prop = p /\ listing[r].remote = None
                            /\ listing[r].status = "posted" /\ ~listing[r].failed}

PropertyProcessingSucceeded(c, h) ==
    /\ Arrives(c, h)
    /\ h.event = "processed"
    /\ LET rows == Waiting(h.id)
       IN  GoesOn(c, [NewCall("process", {r[1] : r \in rows}) EXCEPT
                         !.places = {r[2] : r \in rows}, !.prop = h.id])
    /\ UNCHANGED <<estate, let, building, listing, property, offer, jobs>>

RowOf(c, publisher) == {r \in Rows : r[1] \in call[c].units /\ r[2] = publisher}

\* The rows are handled side by side, each with a request and an update.
PostListing(c, publisher, o) ==
    /\ Serving(c, "process")
    /\ publisher \in call[c].places
    /\ property[call[c].prop].live
    /\ NewOffer(o, call[c].prop, publisher)
    /\ Goes(c, [call[c] EXCEPT !.places = @ \ {publisher}, !.posted = @ \cup {<<publisher, o>>}])
    /\ UNCHANGED <<estate, let, building, listing, property, jobs>>

\* Without a target, or when EstateSync says why it refuses, the row is an
\* error; without a message it stays as it is.
ListingRefused(c, publisher, told) ==
    /\ Serving(c, "process")
    /\ publisher \in call[c].places
    /\ listing' = IF told THEN WithListings(RowOf(c, publisher), "error") ELSE listing
    /\ GoesOn(c, [call[c] EXCEPT !.places = @ \ {publisher}])
    /\ UNCHANGED <<estate, let, building, remoteVars, jobs>>

\* Mutant: the id of the property is stored as that of the listing.
StoreProperty(c, publisher, o) ==
    /\ Serving(c, "process")
    /\ <<publisher, o>> \in call[c].posted
    /\ listing' = [r \in Rows |-> IF r \in RowOf(c, publisher)
                                  THEN [listing[r] EXCEPT !.remote = call[c].prop] ELSE listing[r]]
    /\ GoesOn(c, [call[c] EXCEPT !.posted = @ \ {<<publisher, o>>}])
    /\ UNCHANGED <<estate, let, building, remoteVars, jobs>>

\* UPDATE of the row by its id.
StoreListing(c, publisher, o) ==
    /\ Serving(c, "process")
    /\ <<publisher, o>> \in call[c].posted
    /\ listing' = [r \in Rows |-> IF r \in RowOf(c, publisher)
                                  THEN [listing[r] EXCEPT !.remote = o] ELSE listing[r]]
    /\ GoesOn(c, [call[c] EXCEPT !.posted = @ \ {<<publisher, o>>}])
    /\ UNCHANGED <<estate, let, building, remoteVars, jobs>>

PropertyProcessingFailed(c, h) ==
    /\ Arrives(c, h)
    /\ h.event = "rejected"
    /\ LET rows == {r \in Rows : listing[r].prop = h.id}
       IN  listing' = IF \A r \in rows : listing[r].remote # None THEN listing
                      ELSE [r \in Rows |-> IF r \in rows
                               THEN [listing[r] EXCEPT !.failed = TRUE, !.status = "error"]
                               ELSE listing[r]]
    /\ UNCHANGED <<estate, let, building, property, offer, jobs, call>>

-----------------------------------------------------------------------------
\* Webhooks about a listing.

Named(o) == {r \in Rows : listing[r].remote = o}

PublicationSucceeded(c, h) ==
    /\ Arrives(c, h)
    /\ h.event = "published"
    /\ listing' = WithListings({r \in Named(h.id) : ~listing[r].failed}, "published")
    /\ UNCHANGED <<estate, let, building, property, offer, jobs, call>>

\* The listing is taken back at EstateSync, and the row keeps its error.
PublicationFailed(c, h) ==
    /\ h \in hooks
    /\ call[c] = Idle
    /\ h.event = "notPublished"
    /\ listing' = WithListings(Named(h.id), "error")
    /\ DeleteOffers(IF Named(h.id) = {} THEN {} ELSE {h.id}, hooks \ {h})
    /\ UNCHANGED <<estate, let, building, property, jobs, call>>

WithoutRemote(rows) ==
    [r \in Rows |-> IF r \in rows THEN [listing[r] EXCEPT !.remote = None] ELSE listing[r]]

\* After the last listing of an estate, its property is to go.
PublicationDeleted(c, h) ==
    LET rows == {r \in Named(h.id) : ~listing[r].failed}
    IN  /\ Arrives(c, h)
        /\ h.event = "withdrawn"
        /\ listing' = WithoutRemote(rows)
        /\ Goes(c, IF \A r \in rows : listing[r].status = "error" THEN Idle
                   ELSE [NewCall("exhaust", {r[1] : r \in rows}) EXCEPT !.prop = offer[h.id].prop])
        /\ UNCHANGED <<estate, let, building, property, offer, jobs>>

Scheduled(units) ==
    {r \in RowsOf(units) : listing[r].status = "scheduled" /\ listing[r].remote # None}

\* The rows keep estate_sync_property_id, for the contact requests to come.
DeleteExhausted(c) ==
    /\ Serving(c, "exhaust")
    /\ IF Scheduled(call[c].units) # {} THEN UNCHANGED <<listing, property>>
       ELSE /\ DeleteProperty(call[c].prop)
            /\ listing' = WithListings({r \in Rows : listing[r].prop = call[c].prop}, "deleted")
    /\ Ends(c)
    /\ UNCHANGED <<estate, let, building, offer, hooks, jobs>>

\* EstateSync could not delete: the row forgets the listing, the others go on.
DeletionFailed(c, h) ==
    /\ Arrives(c, h)
    /\ h.event = "notWithdrawn"
    /\ listing' = WithoutRemote(Named(h.id))
    /\ LET units == {r[1] : r \in Named(h.id)}
       IN  GoesOn(c, [NewCall("withdraw", units) EXCEPT !.todo = units])
    /\ UNCHANGED <<estate, let, building, property, offer, jobs>>

-----------------------------------------------------------------------------
\* Withdrawing.

\* unpublishMultipleEstates
UnpublishMultiple(c, job) ==
    LET marked == IF job.mark THEN WithListings(ToDelete(job.estates), "scheduled") ELSE listing
        units == {e \in job.estates :
                     \E r \in RowsOf({e}) : marked[r].status \in {"scheduled", "published"}}
    IN  /\ job \in jobs /\ job.op = "withdraw"
        /\ Accepts(c, "withdraw")
        /\ jobs' = jobs \ {job}
        /\ listing' = marked
        /\ GoesOn(c, [NewCall("withdraw", units) EXCEPT !.todo = units])
        /\ UNCHANGED <<estate, let, building, remoteVars>>

Withdrawing(c, e) ==
    /\ Serving(c, "withdraw") \/ Serving(c, "remove")
    /\ e \in call[c].todo
    /\ call[c].prop = None

\* removeEstate has its transaction to commit yet.
Withdrawn(c, e) ==
    LET next == [call[c] EXCEPT !.todo = @ \ {e}]
    IN  IF next.op = "remove" THEN Goes(c, next) ELSE GoesOn(c, next)

\* unpublishEstate: the listings that are known, their property when the last
\* of them is reported.
WithdrawListings(c, e) ==
    /\ Withdrawing(c, e)
    /\ Scheduled({e}) # {}
    /\ DeleteOffers({listing[r].remote : r \in Scheduled({e})}, hooks)
    /\ Withdrawn(c, e)
    /\ UNCHANGED <<estate, let, building, listing, property, jobs>>

\* Property is initialized but not published: the property of one row, and all
\* the rows of the estate are closed.
WithdrawProperty(c, e, r) ==
    /\ Withdrawing(c, e)
    /\ Scheduled({e}) = {}
    /\ r \in RowsOf({e}) /\ listing[r].status = "scheduled"
    /\ DeleteProperty(listing[r].prop)
    /\ listing' = [q \in Rows |-> IF q \in RowsOf({e}) THEN Closed(listing[q]) ELSE listing[q]]
    /\ Withdrawn(c, e)
    /\ UNCHANGED <<estate, let, building, offer, hooks, jobs>>

NothingToWithdraw(c, e) ==
    /\ Withdrawing(c, e)
    /\ \A r \in RowsOf({e}) : listing[r].status # "scheduled"
    /\ Withdrawn(c, e)
    /\ UNCHANGED marketTables

ListingsNext ==
    \E c \in Calls :
        \/ StorePosted(c) \/ PropertyRefused(c)
        \/ DeleteExhausted(c)
        \/ \E job \in jobs : UnpublishMultiple(c, job) \/ \E e \in Estates : PostEstate(c, job, e)
        \/ \E p \in Props : PropertyPosted(c, p)
        \/ \E publisher \in Publishers :
              \/ \E told \in BOOLEAN : ListingRefused(c, publisher, told)
              \/ \E o \in Offers : PostListing(c, publisher, o) \/ StoreListing(c, publisher, o)
        \/ \E h \in hooks :
              \/ PropertyProcessingSucceeded(c, h) \/ PropertyProcessingFailed(c, h)
              \/ PublicationSucceeded(c, h) \/ PublicationFailed(c, h)
              \/ PublicationDeleted(c, h) \/ DeletionFailed(c, h)
        \/ \E e \in Estates :
              \/ WithdrawListings(c, e) \/ NothingToWithdraw(c, e)
              \/ \E r \in Rows : WithdrawProperty(c, e, r)
=============================================================================
