---------------------------- MODULE MarketProofs ----------------------------
(***************************************************************************)
(* What holds of estates and their listings, for any estates, buildings    *)
(* and market places.  Nothing comes to the market without an approval,    *)
(* with any number of calls in flight; three operations are left out,      *)
(* which break this by themselves: extendEstate (it does not look at       *)
(* publish_status), deactivateEstate and offMarketPublish (they save some  *)
(* of the columns that they have read).  The tables keep their types.      *)
(* With one call in flight at a time, estates that are let stay off the    *)
(* market, rows name listings of their own, and what is on a market place  *)
(* can be withdrawn from there.                                            *)
(***************************************************************************)
EXTENDS MarketSystem, TLAPS

Excluded == {"extend", "deactivate", "offMarket"}

Asks(k) == k.op \in {"request", "publishBuilding"}
Leaves(k) == k.op \in {"unpublish", "commitUnpublish"}

\* What a call may do to an estate: write back a row that was not on the market,
\* or take one off that was.
Fits(k) ==
    /\ {"op", "units", "seen"} \subseteq DOMAIN k
    /\ k.op \notin Excluded
    /\ Asks(k) => \A e \in k.units : k.seen[e] \in EstateRow /\ k.seen[e].status # "active"
    /\ Leaves(k) => \A e \in k.units : k.seen[e].status = "active"

IInv ==
    /\ estate \in [Estates -> EstateRow]
    /\ call = [c \in Calls |-> call[c]]
    /\ \A c \in Calls : call[c] # Idle => Fits(call[c])
    /\ ActiveIsApproved

-----------------------------------------------------------------------------
\* Calls.

\* A call that is not about the rows it has read.
LEMMA NewCallFits ==
    ASSUME NEW op, op \notin Excluded \cup {"request", "publishBuilding", "unpublish", "commitUnpublish"},
           NEW units
    PROVE  Fits(NewCall(op, units))
BY DEF NewCall, Fits, Asks, Leaves

\* Going on with the same rows, or at the last part of leaving the market.
LEMMA SameFits ==
    ASSUME NEW k, NEW next, Fits(k),
           {"op", "units", "seen"} \subseteq DOMAIN next,
           next.units = k.units /\ next.seen = k.seen,
           next.op = k.op \/ next.op \notin Excluded \cup {"request", "publishBuilding", "unpublish", "commitUnpublish"}
    PROVE  Fits(next)
BY DEF Fits, Asks, Leaves

CallsFit == call' = [c \in Calls |-> call'[c]] /\ \A c \in Calls : call'[c] # Idle => Fits(call'[c])

LEMMA GoesFits ==
    ASSUME IInv, NEW c \in Calls, NEW next, next = Idle \/ Fits(next), Goes(c, next)
    PROVE  CallsFit
<1>1. call' = [d \in Calls |-> IF d = c THEN next ELSE call[d]]
  BY DEF IInv, Goes
<1> QED BY <1>1 DEF IInv, CallsFit

LEMMA EndsFits ==
    ASSUME IInv, NEW c \in Calls, Ends(c)
    PROVE  CallsFit
BY GoesFits DEF Ends

LEMMA GoesOnFits ==
    ASSUME IInv, NEW c \in Calls, NEW next, Fits(next), GoesOn(c, next)
    PROVE  CallsFit
BY GoesFits DEF GoesOn

\* An update of the other fields of a call.
LEMMA FieldsFit ==
    ASSUME NEW k, Fits(k), NEW v, NEW w
    PROVE  /\ Fits([k EXCEPT !.prop = v]) /\ Fits([k EXCEPT !.places = v])
           /\ Fits([k EXCEPT !.todo = v]) /\ Fits([k EXCEPT !.posted = v])
           /\ Fits([k EXCEPT !.places = v, !.posted = w])
           /\ Fits([k EXCEPT !.places = v, !.prop = w])
<1> DEFINE Same(next) == /\ {"op", "units", "seen"} \subseteq DOMAIN next
                         /\ next.units = k.units /\ next.seen = k.seen /\ next.op = k.op
<1>0. {"op", "units", "seen"} \subseteq DOMAIN k
  BY DEF Fits
<1>1. Same([k EXCEPT !.prop = v]) /\ Same([k EXCEPT !.places = v])
  BY <1>0
<1>2. Same([k EXCEPT !.todo = v]) /\ Same([k EXCEPT !.posted = v])
  BY <1>0
<1>3. Same([k EXCEPT !.places = v, !.posted = w])
  BY <1>0
<1>4. Same([k EXCEPT !.places = v, !.prop = w])
  BY <1>0
<1> QED BY <1>1, <1>2, <1>3, <1>4, SameFits

-----------------------------------------------------------------------------
\* Workers and webhooks do not touch estates.
LEMMA ListingsStay ==
    ASSUME IInv, ListingsNext PROVE UNCHANGED estate /\ CallsFit
<1>f. \A c \in Calls : call[c] # Idle => Fits(call[c])
  BY DEF IInv
<1>n. \A units : /\ Fits(NewCall("post", units)) /\ Fits(NewCall("process", units))
                 /\ Fits(NewCall("exhaust", units)) /\ Fits(NewCall("withdraw", units))
  BY NewCallFits DEF Excluded
<1>u. ASSUME UNCHANGED call PROVE CallsFit
  BY <1>u DEF IInv, CallsFit
<1>a. ASSUME NEW c \in Calls, StorePosted(c) \/ PropertyRefused(c) \/ DeleteExhausted(c)
      PROVE  UNCHANGED estate /\ CallsFit
  BY <1>a, EndsFits DEF StorePosted, PropertyRefused, DeleteExhausted
<1>b. ASSUME NEW c \in Calls, NEW job, UnpublishMultiple(c, job)
      PROVE  UNCHANGED estate /\ CallsFit
  <2>1. \E units : GoesOn(c, [NewCall("withdraw", units) EXCEPT !.todo = units])
    BY <1>b DEF UnpublishMultiple
  <2> QED BY <1>b, <1>n, <2>1, FieldsFit, GoesOnFits DEF UnpublishMultiple
<1>c. ASSUME NEW c \in Calls, NEW job, NEW e \in Estates, PostEstate(c, job, e)
      PROVE  UNCHANGED estate /\ CallsFit
  BY <1>c, <1>n, GoesFits DEF PostEstate
<1>d. ASSUME NEW c \in Calls, NEW p \in Props, PropertyPosted(c, p)
      PROVE  UNCHANGED estate /\ CallsFit
  <2>1. Fits([call[c] EXCEPT !.prop = p])
    BY <1>d, <1>f, FieldsFit DEF PropertyPosted, Serving
  <2> QED BY <1>d, <2>1, GoesFits DEF PropertyPosted
<1>e. ASSUME NEW c \in Calls, NEW publisher \in Publishers, NEW told \in BOOLEAN,
             ListingRefused(c, publisher, told)
      PROVE  UNCHANGED estate /\ CallsFit
  <2>1. Fits([call[c] EXCEPT !.places = @ \ {publisher}])
    BY <1>e, <1>f, FieldsFit DEF ListingRefused, Serving
  <2> QED BY <1>e, <2>1, GoesOnFits DEF ListingRefused
<1>g. ASSUME NEW c \in Calls, NEW publisher \in Publishers, NEW o \in Offers, PostListing(c, publisher, o)
      PROVE  UNCHANGED estate /\ CallsFit
  <2>1. Fits([call[c] EXCEPT !.places = @ \ {publisher}, !.posted = @ \cup {<<publisher, o>>}])
    BY <1>g, <1>f, FieldsFit DEF PostListing, Serving
  <2> QED BY <1>g, <2>1, GoesFits DEF PostListing
<1>h. ASSUME NEW c \in Calls, NEW publisher \in Publishers, NEW o \in Offers, StoreListing(c, publisher, o)
      PROVE  UNCHANGED estate /\ CallsFit
  <2>1. Fits([call[c] EXCEPT !.posted = @ \ {<<publisher, o>>}])
    BY <1>h, <1>f, FieldsFit DEF StoreListing, Serving
  <2> QED BY <1>h, <2>1, GoesOnFits DEF StoreListing
<1>i. ASSUME NEW c \in Calls, NEW h \in hooks, PropertyProcessingSucceeded(c, h)
      PROVE  UNCHANGED estate /\ CallsFit
  <2>1. \E units, places :
           GoesOn(c, [NewCall("process", units) EXCEPT !.places = places, !.prop = h.id])
    BY <1>i DEF PropertyProcessingSucceeded
  <2> QED BY <1>i, <1>n, <2>1, FieldsFit, GoesOnFits DEF PropertyProcessingSucceeded
<1>j. ASSUME NEW c \in Calls, NEW h \in hooks,
             PropertyProcessingFailed(c, h) \/ PublicationSucceeded(c, h) \/ PublicationFailed(c, h)
      PROVE  UNCHANGED estate /\ CallsFit
  BY <1>j, <1>u DEF PropertyProcessingFailed, PublicationSucceeded, PublicationFailed
<1>k. ASSUME NEW c \in Calls, NEW h \in hooks, PublicationDeleted(c, h)
      PROVE  UNCHANGED estate /\ CallsFit
  <2>1. \/ Goes(c, Idle)
        \/ \E units, prop : Goes(c, [NewCall("exhaust", units) EXCEPT !.prop = prop])
    BY <1>k DEF PublicationDeleted
  <2> QED BY <1>k, <1>n, <2>1, FieldsFit, GoesFits DEF PublicationDeleted
<1>l. ASSUME NEW c \in Calls, NEW h \in hooks, DeletionFailed(c, h)
      PROVE  UNCHANGED estate /\ CallsFit
  <2>1. \E units : GoesOn(c, [NewCall("withdraw", units) EXCEPT !.todo = units])
    BY <1>l DEF DeletionFailed
  <2> QED BY <1>l, <1>n, <2>1, FieldsFit, GoesOnFits DEF DeletionFailed
<1>m. ASSUME NEW c \in Calls, NEW e \in Estates, Withdrawing(c, e), Withdrawn(c, e)
      PROVE  CallsFit
  <2>1. Fits([call[c] EXCEPT !.todo = @ \ {e}])
    BY <1>m, <1>f, FieldsFit DEF Withdrawing, Serving
  <2> QED BY <1>m, <2>1, GoesFits, GoesOnFits DEF Withdrawn
<1>o. ASSUME NEW c \in Calls, NEW e \in Estates,
             \/ WithdrawListings(c, e) \/ NothingToWithdraw(c, e)
             \/ \E r \in Rows : WithdrawProperty(c, e, r)
      PROVE  UNCHANGED estate /\ CallsFit
  BY <1>o, <1>m DEF WithdrawListings, NothingToWithdraw, WithdrawProperty, marketTables
<1> QED
  BY <1>a, <1>b, <1>c, <1>d, <1>e, <1>g, <1>h, <1>i, <1>j, <1>k, <1>l, <1>o DEF ListingsNext

-----------------------------------------------------------------------------
\* Estates are well typed, and those on the market are approved.
EstatesFit == estate' \in [Estates -> EstateRow] /\ ActiveIsApproved'

LEMMA EstatesStay == ASSUME IInv, UNCHANGED estate PROVE EstatesFit
BY DEF IInv, EstatesFit, ActiveIsApproved

\* An estate is as it was, gets a row that is not on the market, or an approved
\* one.
LEMMA RowsFit ==
    ASSUME IInv, estate' = [e \in Estates |-> estate'[e]],
           \A e \in Estates : \/ estate'[e] = estate[e]
                              \/ estate'[e] \in EstateRow /\ estate'[e].status # "active"
                              \/ estate'[e] = [status |-> "active", pub |-> "approved"]
    PROVE  EstatesFit
<1>1. \A e \in Estates : estate'[e] \in EstateRow /\ (estate'[e].status = "active" => estate'[e].pub = "approved")
  BY DEF IInv, ActiveIsApproved, EstateRow
<1> QED BY <1>1 DEF EstatesFit, ActiveIsApproved

\* What takes an estate off the market.
OffMarket == {r \in EstateRow : r.status # "active"}

LEMMA WithEstatesFits ==
    ASSUME IInv, NEW units, NEW row \in OffMarket \cup {[status |-> "active", pub |-> "approved"]},
           estate' = WithEstates(units, row)
    PROVE  EstatesFit
BY RowsFit DEF WithEstates, OffMarket

LEMMA DraftIsOff == Draft \in OffMarket
BY DEF Draft, OffMarket, EstateRow

-----------------------------------------------------------------------------
\* The landlord's own estates.

\* Who asks for an estate has read that it is not on the market.
LEMMA AsksFit ==
    ASSUME IInv, NEW c \in Calls, call[c] # Idle, Asks(call[c]),
           estate' = [e \in Estates |-> IF e \in call[c].units
                         THEN [call[c].seen[e] EXCEPT !.pub = "landlord"] ELSE estate[e]]
    PROVE  EstatesFit
<1>1. ASSUME NEW e \in call[c].units
      PROVE  [call[c].seen[e] EXCEPT !.pub = "landlord"] \in OffMarket
  <2>1. call[c].seen[e] \in EstateRow /\ call[c].seen[e].status # "active"
    BY DEF IInv, Fits
  <2> QED BY <2>1 DEF EstateRow, OffMarket
<1> QED BY <1>1, RowsFit DEF OffMarket

\* Who takes one off has read that it is on the market, so that he writes the
\* status.
LEMMA LeavesFit ==
    ASSUME IInv, NEW c \in Calls, NEW e \in Estates, StoreUnpublish(c, e)
    PROVE  EstatesFit
<1> DEFINE row == [status |-> "expire", pub |-> "init"]
           new == BeforeUpdate(e \in call[c].seenLet, row)
<1>1. call[c].seen[e].status = "active"
  BY DEF IInv, Fits, Leaves, StoreUnpublish, Serving
<1>2. new.status \in {"expire", "draft"} /\ new.pub = "init"
  BY DEF BeforeUpdate, Draft
<1>3. Saved(c, e, row) = [status |-> new.status,
                          pub |-> IF new.pub = call[c].seen[e].pub THEN estate[e].pub ELSE new.pub]
  BY <1>1, <1>2 DEF Saved
<1>4. Saved(c, e, row) \in OffMarket
  BY <1>2, <1>3 DEF IInv, EstateRow, OffMarket
<1>5. estate' = [estate EXCEPT ![e] = Saved(c, e, row)]
  BY DEF StoreUnpublish
<1> QED BY <1>4, <1>5, RowsFit DEF IInv, OffMarket

\* What a call has read is what it works with.
LEMMA ReadingFits ==
    ASSUME IInv, NEW op \in {"request", "publishBuilding", "unpublish"}, NEW units \in SUBSET Estates,
           op # "unpublish" => \A e \in units : estate[e].status # "active",
           op = "unpublish" => \A e \in units : estate[e].status = "active"
    PROVE  Fits(Reading(op, units))
<1> DEFINE k == Reading(op, units)
<1>1. /\ {"op", "units", "seen"} \subseteq DOMAIN k
      /\ k.op = op /\ k.units = units
      /\ \A e \in units : k.seen[e] = estate[e]
  BY DEF Reading, NewCall
<1> HIDE DEF k
<1>2. Fits(k)
  BY <1>1 DEF Fits, Asks, Leaves, Excluded, IInv
<1> QED BY <1>2 DEF k

LEMMA PublicationStays ==
    ASSUME Endpoints \cap Excluded = {}, IInv, PublicationNext PROVE EstatesFit /\ CallsFit
<1>f. \A c \in Calls : call[c] # Idle => Fits(call[c])
  BY DEF IInv
<1>u. ASSUME UNCHANGED call PROVE CallsFit
  BY <1>u DEF IInv, CallsFit
<1>x. ASSUME NEW c \in Calls, NEW op \in Excluded
      PROVE  ~Accepts(c, op) /\ ~Served(op) /\ ~Serving(c, op)
  BY <1>x, <1>f DEF Accepts, Served, Serving, Fits
\* One statement, without a call of its own.
<1>a. CASE DeactivateLandlord
  <2>1. \A e \in Estates : estate'[e] \in {estate[e], Draft}
    BY <1>a DEF DeactivateLandlord
  <2> QED BY <1>a, <1>u, <2>1, RowsFit, DraftIsOff DEF DeactivateLandlord, Served, OffMarket
<1>b. ASSUME NEW e \in Estates, UpdateEstate(e) PROVE EstatesFit /\ CallsFit
  <2>1. BeforeUpdate(e \in let, estate[e]) \in {estate[e], Draft}
    BY DEF BeforeUpdate
  <2>2. \A d \in Estates : estate'[d] \in {estate[d], Draft}
    BY <1>b, <2>1 DEF UpdateEstate, IInv
  <2>3. estate' = [d \in Estates |-> estate'[d]]
    BY <1>b DEF UpdateEstate, IInv
  <2> QED BY <1>b, <1>u, <2>2, <2>3, RowsFit, DraftIsOff DEF UpdateEstate, Served, OffMarket
<1>c. ASSUME NEW e \in Estates, NEW s \in {"deleted"}, estate' = [estate EXCEPT ![e].status = s]
      PROVE  EstatesFit
  <2>1. [estate[e] EXCEPT !.status = s] \in OffMarket
    BY DEF IInv, EstateRow, OffMarket
  <2> QED BY <1>c, <2>1, RowsFit DEF IInv, OffMarket
<1>d. ASSUME NEW e \in Estates, DeleteEstates(e) \/ NotAvailable(e) PROVE EstatesFit /\ CallsFit
  BY <1>c, <1>d, <1>u, EstatesStay DEF DeleteEstates, NotAvailable, Served
<1>e. ASSUME NEW b \in Buildings, UpdateBuilding(b) PROVE EstatesFit /\ CallsFit
  <2>1. ASSUME NEW e \in Estates PROVE [estate[e] EXCEPT !.status = "draft"] \in OffMarket
    BY DEF IInv, EstateRow, OffMarket
  <2> QED BY <1>e, <1>u, <2>1, RowsFit DEF UpdateBuilding, Served, OffMarket
\* The parts of a call that write.
<1>g. ASSUME NEW c \in Calls, StoreRequest(c) PROVE EstatesFit /\ CallsFit
  BY <1>g, AsksFit, EndsFits DEF StoreRequest, Serving, Asks
<1>h. ASSUME NEW c \in Calls, StorePublish(c) PROVE EstatesFit /\ CallsFit
  BY <1>h, WithEstatesFits, EndsFits DEF StorePublish
<1>i. ASSUME NEW c \in Calls, HandleToExpire(c) PROVE EstatesFit /\ CallsFit
  BY <1>i, WithEstatesFits, DraftIsOff, EndsFits DEF HandleToExpire
<1>j. ASSUME NEW c \in Calls, NEW e \in Estates, StoreApprove(c, e) \/ StoreDecline(c, e)
      PROVE  EstatesFit /\ CallsFit
  <2>1. [status |-> "draft", pub |-> "declined"] \in OffMarket
    BY DEF OffMarket, EstateRow
  <2> QED BY <1>j, <2>1, WithEstatesFits, EndsFits DEF StoreApprove, StoreDecline
<1>k. ASSUME NEW c \in Calls, NEW e \in Estates, StoreUnpublish(c, e) PROVE EstatesFit /\ CallsFit
  BY <1>k, LeavesFit, EndsFits DEF StoreUnpublish
<1>l. ASSUME NEW c \in Calls, NEW e \in Estates, StoreRemove(c, e) PROVE EstatesFit /\ CallsFit
  BY <1>c, <1>l, EndsFits DEF StoreRemove
<1>m. ASSUME NEW c \in Calls, NEW e \in Estates, StoreRent(c, e) PROVE EstatesFit /\ CallsFit
  BY <1>m, WithEstatesFits, DraftIsOff, EndsFits DEF StoreRent
<1>n. ASSUME NEW c \in Calls, NEW b \in Buildings, StorePublishBuilding(c, b) PROVE EstatesFit /\ CallsFit
  BY <1>n, AsksFit, EndsFits DEF StorePublishBuilding, Serving, Asks
<1>o. ASSUME NEW c \in Calls, NEW b \in Buildings,
             StoreUnpublishBuilding(c, b) \/ StoreDeactivateBuilding(c, b)
      PROVE  EstatesFit /\ CallsFit
  <2>1. [status |-> "expire", pub |-> "init"] \in OffMarket
    BY DEF OffMarket, EstateRow
  <2> QED BY <1>o, <2>1, WithEstatesFits, DraftIsOff, EndsFits
             DEF StoreUnpublishBuilding, StoreDeactivateBuilding, StoreLeave
\* The other parts.
<1>p. ASSUME NEW c \in Calls, NEW next, Fits(next), Begin(c, next) PROVE EstatesFit /\ CallsFit
  BY <1>p, EstatesStay, GoesFits DEF Begin, marketTables
<1>q. ASSUME NEW c \in Calls, NEW next \in {"commitPublish", "commitUnpublish"},
             next = "commitPublish" => call[c].op = "publish",
             next = "commitUnpublish" => call[c].op = "unpublish",
             call[c] # Idle, Goes(c, [call[c] EXCEPT !.op = next])
      PROVE  CallsFit
  <2> DEFINE k == [call[c] EXCEPT !.op = next]
  <2>1. {"op", "units", "seen"} \subseteq DOMAIN call[c]
    BY <1>q DEF IInv, Fits
  <2>2. /\ {"op", "units", "seen"} \subseteq DOMAIN k
        /\ k.op = next /\ k.units = call[c].units /\ k.seen = call[c].seen
    BY <2>1
  <2> HIDE DEF k
  <2>3. Fits(k)
    BY <1>q, <1>f, <2>2 DEF Fits, Asks, Leaves, Excluded
  <2> QED BY <1>q, <2>3, GoesFits DEF k
<1>r. ASSUME NEW c \in Calls, QueuePost(c) \/ QueueUnpublish(c) PROVE EstatesFit /\ CallsFit
  BY <1>q, <1>r, EstatesStay DEF QueuePost, QueueUnpublish, Serving
<1>s. ASSUME NEW c \in Calls, HandleOffline(c) PROVE EstatesFit /\ CallsFit
  BY <1>s, EstatesStay, EndsFits DEF HandleOffline
<1>t. ASSUME NEW c \in Calls, NEW op \in {"publish", "approve", "decline", "remove", "rent", "expire",
                                         "unpublishBuilding", "deactivateBuilding"}, NEW units
      PROVE  Fits(NewCall(op, units))
  BY NewCallFits DEF Excluded
<1>v. ASSUME NEW c \in Calls, NEW e \in Estates, NEW places \in SUBSET Publishers, Request(c, e, places)
      PROVE  EstatesFit /\ CallsFit
  <2>1. Fits(Reading("request", {e}))
    BY <1>v, ReadingFits DEF Request, Publishable
  <2>2. Fits([Reading("request", {e}) EXCEPT !.places = places])
    BY <2>1, FieldsFit
  <2> QED BY <1>p, <1>v, <2>2 DEF Request
<1>w. ASSUME NEW c \in Calls, NEW e \in Estates, NEW places \in SUBSET Publishers, Publish(c, e, places)
      PROVE  EstatesFit /\ CallsFit
  <2>1. \E set : Begin(c, [NewCall("publish", {e}) EXCEPT !.places = set])
    BY <1>w DEF Publish
  <2> QED BY <1>p, <1>t, <2>1, FieldsFit
<1>y. ASSUME NEW c \in Calls, NEW e \in Estates,
             \/ \E answer \in {"approve", "decline"} : Review(c, answer, e)
             \/ Rent(c, e)
             \/ \E due \in SUBSET Estates : FindExpired(c, due)
             \/ \E b \in Buildings, op \in {"unpublishBuilding", "deactivateBuilding"} : LeaveMarket(c, op, b)
      PROVE  EstatesFit /\ CallsFit
  BY <1>p, <1>t, <1>y DEF Review, Rent, FindExpired, LeaveMarket
<1>z. ASSUME NEW c \in Calls, NEW e \in Estates, Unpublish(c, e) \/ RemoveEstate(c, e)
      PROVE  EstatesFit /\ CallsFit
  <2>1. CASE Unpublish(c, e)
    BY <1>p, <2>1, ReadingFits DEF Unpublish
  <2>2. CASE RemoveEstate(c, e)
    <3>1. Fits([NewCall("remove", {e}) EXCEPT !.todo = {e}])
      BY <1>t, FieldsFit
    <3> QED BY <1>p, <2>2, <3>1 DEF RemoveEstate
  <2> QED BY <1>z, <2>1, <2>2
<1>aa. ASSUME NEW c \in Calls, NEW b \in Buildings, NEW reps, NEW places, PublishBuilding(c, b, reps, places)
       PROVE  EstatesFit /\ CallsFit
  <2> DEFINE units == Found(Units(b)) \ let
             k == Reading("publishBuilding", units)
             next == [k EXCEPT !.todo = reps, !.places = places]
  <2>1. units \in SUBSET Estates /\ \A e \in units : estate[e].status # "active"
    BY <1>aa DEF PublishBuilding, Publishable, Found, Units
  <2>2. Fits(k)
    BY <2>1, ReadingFits
  <2>3. {"op", "units", "seen"} \subseteq DOMAIN k
    BY <2>2 DEF Fits
  <2>4. Begin(c, next)
    BY <1>aa DEF PublishBuilding
  <2> HIDE DEF k
  <2>5. /\ {"op", "units", "seen"} \subseteq DOMAIN next
        /\ next.units = k.units /\ next.seen = k.seen /\ next.op = k.op
    BY <2>3
  <2> HIDE DEF next
  <2>6. Fits(next)
    BY <2>2, <2>5, SameFits
  <2> QED BY <1>p, <2>4, <2>6
\* The operations that are left out.
<1>bb. ASSUME NEW c \in Calls, NEW e \in Estates
       PROVE  /\ ~Extend(e) /\ ~Deactivate(c, e) /\ ~StoreDeactivate(c, e)
              /\ ~OffMarketPublish(c, e) /\ ~StoreOffMarket(c, e)
  BY <1>x DEF Extend, Deactivate, StoreDeactivate, OffMarketPublish, StoreOffMarket, Excluded
<1>cc. ASSUME NEW e \in Estates PROVE ~Extend(e)
  BY DEF Extend, Served, Excluded
<1> QED
  <2>1. CASE \/ DeactivateLandlord \/ \E b \in Buildings : UpdateBuilding(b)
             \/ \E e \in Estates : \/ Extend(e) \/ UpdateEstate(e)
                                   \/ DeleteEstates(e) \/ NotAvailable(e)
    BY <1>a, <1>b, <1>d, <1>e, <1>cc, <2>1
  <2>2. CASE \E c \in Calls :
          \/ StoreRequest(c) \/ QueuePost(c) \/ StorePublish(c)
          \/ QueueUnpublish(c) \/ HandleOffline(c) \/ HandleToExpire(c)
          \/ \E due \in SUBSET Estates : FindExpired(c, due)
    <3>1. ASSUME NEW c \in Calls, NEW due \in SUBSET Estates, FindExpired(c, due)
          PROVE  EstatesFit /\ CallsFit
      BY <1>p, <1>t, <3>1 DEF FindExpired
    <3> QED BY <1>g, <1>h, <1>i, <1>r, <1>s, <2>2, <3>1
  <2>3. CASE \E c \in Calls, e \in Estates :
                \/ \E places \in SUBSET Publishers : Request(c, e, places) \/ Publish(c, e, places)
                \/ \E answer \in {"approve", "decline"} : Review(c, answer, e)
                \/ StoreApprove(c, e) \/ StoreDecline(c, e)
                \/ Unpublish(c, e) \/ StoreUnpublish(c, e)
                \/ Deactivate(c, e) \/ StoreDeactivate(c, e)
                \/ OffMarketPublish(c, e) \/ StoreOffMarket(c, e)
                \/ RemoveEstate(c, e) \/ StoreRemove(c, e)
                \/ Rent(c, e) \/ StoreRent(c, e)
    BY <1>j, <1>k, <1>l, <1>m, <1>v, <1>w, <1>y, <1>z, <1>bb, <2>3
  <2>4. CASE \E c \in Calls, b \in Buildings :
                \/ \E reps \in SUBSET Estates, places \in SUBSET Publishers :
                      PublishBuilding(c, b, reps, places)
                \/ \E op \in {"unpublishBuilding", "deactivateBuilding"} : LeaveMarket(c, op, b)
                \/ StorePublishBuilding(c, b)
                \/ StoreUnpublishBuilding(c, b) \/ StoreDeactivateBuilding(c, b)
    <3>1. ASSUME NEW c \in Calls, NEW b \in Buildings,
                 NEW op \in {"unpublishBuilding", "deactivateBuilding"}, LeaveMarket(c, op, b)
          PROVE  EstatesFit /\ CallsFit
      BY <1>p, <1>t, <3>1 DEF LeaveMarket
    <3> QED BY <1>n, <1>o, <1>aa, <2>4, <3>1
  <2> QED BY <2>1, <2>2, <2>3, <2>4 DEF PublicationNext

-----------------------------------------------------------------------------
LEMMA InvariantStarts == Init => IInv
<1> SUFFICES ASSUME Init PROVE IInv
  OBVIOUS
<1>1. estate = [e \in Estates |-> Draft] /\ call = [c \in Calls |-> Idle]
  BY DEF Init
<1> QED BY <1>1 DEF IInv, ActiveIsApproved, Draft, EstateRow

LEMMA InvariantStays ==
    ASSUME Endpoints \cap Excluded = {}, IInv, [Next]_marketVars PROVE IInv'
<1>1. CASE UNCHANGED marketVars
  BY <1>1 DEF marketVars, marketTables, IInv, ActiveIsApproved
<1>2. CASE PublicationNext
  BY <1>2, PublicationStays DEF IInv, EstatesFit, CallsFit
<1>3. CASE ListingsNext
  BY <1>3, ListingsStay, EstatesStay DEF IInv, EstatesFit, CallsFit
<1> QED BY <1>1, <1>2, <1>3 DEF Next

\* Without the three operations that break it, no estate is on the market that
\* no administrator has approved, however the landlord's requests, the
\* administrator's answers, final matches and jobs cross.
THEOREM ApprovedOnMarket ==
    ASSUME Endpoints \cap Excluded = {} PROVE Spec => []ActiveIsApproved
<1>1. Init => IInv
  BY InvariantStarts
<1>2. IInv /\ [Next]_marketVars => IInv'
  BY InvariantStays
<1>3. IInv => ActiveIsApproved
  BY DEF IInv
<1> QED BY <1>1, <1>2, <1>3, PTL DEF Spec

-----------------------------------------------------------------------------
(* Types.                                                                  *)

LEMMA NewCallTypes ==
    ASSUME NEW op \in Handlers, NEW units \in SUBSET Estates
    PROVE  /\ NewCall(op, units) \in Call
           /\ NewCall(op, units).op = op
<1>1. Draft \in EstateRow
  BY DEF Draft, EstateRow
<1> QED BY <1>1 DEF NewCall, Call

LEMMA ReadingTypes ==
    ASSUME estate \in [Estates -> EstateRow], NEW op \in Handlers, NEW units \in SUBSET Estates
    PROVE  Reading(op, units) \in Call
<1>1. Draft \in EstateRow
  BY DEF Draft, EstateRow
<1>2. [e \in Estates |-> IF e \in units THEN estate[e] ELSE Draft] \in [Estates -> EstateRow]
  BY <1>1
<1>3. NewCall(op, units) \in Call
  BY NewCallTypes
<1> QED BY <1>2, <1>3 DEF Reading, Call

\* What a call keeps for later.
LEMMA CallUpdates ==
    ASSUME NEW k \in Call
    PROVE  /\ \A units \in SUBSET Estates : [k EXCEPT !.todo = units] \in Call
           /\ \A places \in SUBSET Publishers : [k EXCEPT !.places = places] \in Call
           /\ \A p \in Props \cup {None} : [k EXCEPT !.prop = p] \in Call
           /\ \A new \in SUBSET (Publishers \X Offers) : [k EXCEPT !.posted = new] \in Call
           /\ \A op \in Handlers : [k EXCEPT !.op = op] \in Call
           /\ \A places \in SUBSET Publishers, p \in Props \cup {None} :
                 [k EXCEPT !.places = places, !.prop = p] \in Call
           /\ \A units \in SUBSET Estates, places \in SUBSET Publishers :
                 [k EXCEPT !.todo = units, !.places = places] \in Call
           /\ \A places \in SUBSET Publishers, new \in SUBSET (Publishers \X Offers) :
                 [k EXCEPT !.places = places, !.posted = new] \in Call
BY DEF Call

CallsTyped == call' \in [Calls -> Call \cup {Idle}]

LEMMA GoesTypes ==
    ASSUME TypeOK, NEW c \in Calls, NEW next \in Call \cup {Idle}
    PROVE  (Goes(c, next) \/ GoesOn(c, next)) => CallsTyped
BY DEF TypeOK, Goes, GoesOn, CallsTyped

LEMMA CallFields ==
    ASSUME TypeOK, NEW c \in Calls, call[c] # Idle
    PROVE  /\ call[c] \in Call
           /\ call[c].units \in SUBSET Estates /\ call[c].todo \in SUBSET Estates
           /\ call[c].seen \in [Estates -> EstateRow] /\ call[c].seenLet \in SUBSET Estates
           /\ call[c].places \in SUBSET Publishers /\ call[c].prop \in Props \cup {None}
           /\ call[c].posted \in SUBSET (Publishers \X Offers)
           /\ call[c].op \in Handlers
BY DEF TypeOK, Call

\* Publication begins calls, and lets them go on and end.
LEMMA PublicationCalls ==
    ASSUME TypeOK, PublicationNext
    PROVE  CallsTyped
<1>1. CASE UNCHANGED call
  BY <1>1 DEF TypeOK, CallsTyped
<1>2. ASSUME NEW c \in Calls, Ends(c) PROVE CallsTyped
  BY <1>2, GoesTypes DEF Ends
<1>3. ASSUME NEW c \in Calls, NEW next \in Call, Begin(c, next) PROVE CallsTyped
  BY <1>3, GoesTypes DEF Begin
<1>4. ASSUME NEW c \in Calls, NEW op \in Handlers, call[c] # Idle, Goes(c, [call[c] EXCEPT !.op = op])
      PROVE  CallsTyped
  <2>1. PICK k \in Call : k = call[c]
    BY <1>4, CallFields
  <2>2. [k EXCEPT !.op = op] \in Call
    BY CallUpdates
  <2> QED BY <1>4, <2>1, <2>2, GoesTypes
<1>5. CASE \/ DeactivateLandlord
           \/ \E e \in Estates : \/ Extend(e) \/ UpdateEstate(e) \/ DeleteEstates(e) \/ NotAvailable(e)
           \/ \E b \in Buildings : UpdateBuilding(b)
  BY <1>1, <1>5 DEF DeactivateLandlord, Extend, UpdateEstate, DeleteEstates, NotAvailable,
                   UpdateBuilding, Served
<1>6. ASSUME NEW c \in Calls,
             \/ StoreRequest(c) \/ StorePublish(c) \/ HandleOffline(c) \/ HandleToExpire(c)
             \/ \E e \in Estates : \/ StoreApprove(c, e) \/ StoreDecline(c, e)
                                  \/ StoreUnpublish(c, e) \/ StoreOffMarket(c, e)
                                  \/ StoreRemove(c, e) \/ StoreRent(c, e)
             \/ \E b \in Buildings : \/ StorePublishBuilding(c, b)
                                    \/ StoreUnpublishBuilding(c, b)
                                    \/ StoreDeactivateBuilding(c, b)
      PROVE  CallsTyped
  <2>1. CASE StoreRequest(c) \/ StorePublish(c) \/ HandleOffline(c) \/ HandleToExpire(c)
    BY <1>2, <2>1 DEF StoreRequest, StorePublish, HandleOffline, HandleToExpire
  <2>2. ASSUME NEW e \in Estates,
               \/ StoreApprove(c, e) \/ StoreDecline(c, e) \/ StoreUnpublish(c, e)
               \/ StoreOffMarket(c, e) \/ StoreRemove(c, e) \/ StoreRent(c, e)
        PROVE  CallsTyped
    BY <1>2, <2>2 DEF StoreApprove, StoreDecline, StoreUnpublish, StoreOffMarket, StoreRemove, StoreRent,
         StoreLeave
  <2>3. ASSUME NEW b \in Buildings,
               \/ StorePublishBuilding(c, b) \/ StoreUnpublishBuilding(c, b)
               \/ StoreDeactivateBuilding(c, b)
        PROVE  CallsTyped
    <3>1. CASE StorePublishBuilding(c, b)
      BY <1>2, <3>1 DEF StorePublishBuilding
    <3>2. CASE StoreUnpublishBuilding(c, b) \/ StoreDeactivateBuilding(c, b)
      BY <1>2, <3>2 DEF StoreUnpublishBuilding, StoreDeactivateBuilding, StoreLeave
    <3> QED BY <2>3, <3>1, <3>2
  <2> QED BY <1>6, <2>1, <2>2, <2>3
<1>7. ASSUME NEW c \in Calls, QueuePost(c) \/ QueueUnpublish(c) \/ \E e \in Estates : StoreDeactivate(c, e)
      PROVE  CallsTyped
  <2>1. \E op \in {"commitPublish", "commitUnpublish", "goneOffline"} :
           call[c] # Idle /\ Goes(c, [call[c] EXCEPT !.op = op])
    BY <1>7 DEF QueuePost, QueueUnpublish, StoreDeactivate, Serving
  <2> QED BY <1>4, <2>1 DEF Handlers
<1>8. ASSUME NEW c \in Calls, NEW e \in Estates, NEW places \in SUBSET Publishers,
             Request(c, e, places) \/ Publish(c, e, places)
      PROVE  CallsTyped
  <2>1. PICK k \in Call, w \in SUBSET Publishers : Begin(c, [k EXCEPT !.places = w])
    <3>1. Reading("request", {e}) \in Call /\ NewCall("publish", {e}) \in Call
      BY ReadingTypes, NewCallTypes DEF Handlers, TypeOK
    <3> QED BY <1>8, <3>1 DEF Request, Publish
  <2>2. [k EXCEPT !.places = w] \in Call
    BY CallUpdates
  <2> QED BY <1>3, <2>1, <2>2
<1>9. ASSUME NEW c \in Calls, NEW e \in Estates,
             \/ \E answer \in {"approve", "decline"} : Review(c, answer, e)
             \/ Unpublish(c, e) \/ Deactivate(c, e) \/ OffMarketPublish(c, e) \/ Rent(c, e)
      PROVE  CallsTyped
  <2>1. \A op \in Handlers : NewCall(op, {e}) \in Call /\ Reading(op, {e}) \in Call
    BY ReadingTypes, NewCallTypes DEF TypeOK
  <2> QED BY <1>3, <1>9, <2>1 DEF Review, Unpublish, Deactivate, OffMarketPublish, Rent, Handlers
<1>10. ASSUME NEW c \in Calls, NEW e \in Estates, RemoveEstate(c, e)
       PROVE  CallsTyped
  <2>1. PICK k \in Call : k = NewCall("remove", {e})
    BY NewCallTypes DEF Handlers
  <2>2. [k EXCEPT !.todo = {e}] \in Call
    BY CallUpdates
  <2> QED BY <1>3, <1>10, <2>1, <2>2 DEF RemoveEstate
<1>11. ASSUME NEW c \in Calls, NEW due \in SUBSET Estates, FindExpired(c, due)
       PROVE  CallsTyped
  <2>1. NewCall("expire", due) \in Call
    BY NewCallTypes DEF Handlers
  <2> QED BY <1>3, <1>11, <2>1 DEF FindExpired
<1>12. ASSUME NEW c \in Calls, NEW b \in Buildings, NEW op \in {"unpublishBuilding", "deactivateBuilding"},
              LeaveMarket(c, op, b)
       PROVE  CallsTyped
  <2>1. NewCall(op, Found(Units(b))) \in Call
    BY NewCallTypes DEF Handlers, Found, Units
  <2> QED BY <1>3, <1>12, <2>1 DEF LeaveMarket
<1>13. ASSUME NEW c \in Calls, NEW b \in Buildings, NEW reps \in SUBSET Estates,
              NEW places \in SUBSET Publishers, PublishBuilding(c, b, reps, places)
       PROVE  CallsTyped
  <2>1. PICK k \in Call : k = Reading("publishBuilding", Found(Units(b)) \ let)
    BY ReadingTypes DEF Handlers, Found, Units, TypeOK
  <2>2. [k EXCEPT !.todo = reps, !.places = places] \in Call
    BY CallUpdates
  <2> QED BY <1>3, <1>13, <2>1, <2>2 DEF PublishBuilding
<1> QED
  BY <1>5, <1>6, <1>7, <1>8, <1>9, <1>10, <1>11, <1>12, <1>13 DEF PublicationNext

RowsTyped == estate' \in [Estates -> EstateRow]

\* Publication writes the row of an estate as it was read, with another status, or new.
LEMMA PublicationRows ==
    ASSUME TypeOK, PublicationNext
    PROVE  RowsTyped
<1>0. estate \in [Estates -> EstateRow]
  BY DEF TypeOK
<1>1. CASE UNCHANGED estate
  BY <1>0, <1>1 DEF RowsTyped
<1>2. ASSUME NEW units, NEW row \in EstateRow, estate' = WithEstates(units, row)
      PROVE  RowsTyped
  BY <1>0, <1>2 DEF WithEstates, RowsTyped
<1>3. ASSUME NEW e \in Estates, NEW s \in {"active", "deleted"}, estate' = [estate EXCEPT ![e].status = s]
      PROVE  RowsTyped
  <2>1. PICK row \in EstateRow : row = estate[e]
    BY <1>0
  <2>2. [row EXCEPT !.status = s] \in EstateRow
    BY DEF EstateRow
  <2> QED BY <1>0, <1>3, <2>1, <2>2 DEF RowsTyped
<1>4. Draft \in EstateRow
  BY DEF Draft, EstateRow
<1>5. ASSUME NEW row \in EstateRow
      PROVE  [row EXCEPT !.pub = "landlord"] \in EstateRow /\ [row EXCEPT !.status = "draft"] \in EstateRow
  BY DEF EstateRow
<1>6. CASE \/ DeactivateLandlord
           \/ \E e \in Estates : \/ Extend(e) \/ UpdateEstate(e) \/ DeleteEstates(e) \/ NotAvailable(e)
           \/ \E b \in Buildings : UpdateBuilding(b)
  <2>1. CASE DeactivateLandlord
    BY <1>0, <1>4, <2>1 DEF DeactivateLandlord, RowsTyped
  <2>2. ASSUME NEW e \in Estates, UpdateEstate(e) PROVE RowsTyped
    <3>1. BeforeUpdate(e \in let, estate[e]) \in EstateRow
      BY <1>0, <1>4 DEF BeforeUpdate
    <3> QED BY <1>0, <2>2, <3>1 DEF UpdateEstate, RowsTyped
  <2>3. ASSUME NEW b \in Buildings, UpdateBuilding(b) PROVE RowsTyped
    BY <1>0, <1>5, <2>3 DEF UpdateBuilding, RowsTyped
  <2> QED BY <1>1, <1>3, <1>6, <2>1, <2>2, <2>3 DEF Extend, DeleteEstates, NotAvailable
<1>7. CASE \E c \in Calls : StoreRequest(c) \/ \E b \in Buildings : StorePublishBuilding(c, b)
  <2>1. PICK c \in Calls : /\ call[c] # Idle
                           /\ estate' = [e \in Estates |-> IF e \in call[c].units
                                           THEN [call[c].seen[e] EXCEPT !.pub = "landlord"] ELSE estate[e]]
    BY <1>7 DEF StoreRequest, StorePublishBuilding, Serving
  <2>2. call[c].seen \in [Estates -> EstateRow]
    BY <2>1, CallFields
  <2> QED BY <1>0, <1>5, <2>1, <2>2 DEF RowsTyped
<1>8. CASE \E c \in Calls : \/ StorePublish(c) \/ HandleToExpire(c)
                            \/ \E e \in Estates : StoreApprove(c, e) \/ StoreDecline(c, e) \/ StoreRent(c, e)
                            \/ \E b \in Buildings : StoreUnpublishBuilding(c, b) \/ StoreDeactivateBuilding(c, b)
  <2>1. {Draft, [status |-> "active", pub |-> "approved"], [status |-> "draft", pub |-> "declined"],
         [status |-> "expire", pub |-> "init"]} \subseteq EstateRow
    BY <1>4 DEF EstateRow
  <2> QED BY <1>2, <1>8, <2>1 DEF StorePublish, HandleToExpire, StoreApprove, StoreDecline, StoreRent,
                                  StoreUnpublishBuilding, StoreDeactivateBuilding
<1>9. ASSUME NEW c \in Calls, NEW e \in Estates,
             StoreUnpublish(c, e) \/ StoreDeactivate(c, e) \/ StoreOffMarket(c, e)
      PROVE  RowsTyped
  <2>1. PICK row \in EstateRow : estate' = [estate EXCEPT ![e] = Saved(c, e, row)]
    <3>1. {Draft, [status |-> "expire", pub |-> "init"], [status |-> "offline", pub |-> "init"]} \subseteq EstateRow
      BY <1>4 DEF EstateRow
    <3> QED BY <1>9, <3>1 DEF StoreUnpublish, StoreDeactivate, StoreOffMarket
  <2>2. PICK new \in EstateRow : new = BeforeUpdate(e \in call[c].seenLet, row)
    BY <1>4 DEF BeforeUpdate
  <2>3. PICK old \in EstateRow : old = estate[e]
    BY <1>0
  <2>4. Saved(c, e, row) = [status |-> IF new.status = call[c].seen[e].status THEN old.status ELSE new.status,
                            pub |-> IF new.pub = call[c].seen[e].pub THEN old.pub ELSE new.pub]
    BY <2>2, <2>3 DEF Saved
  <2>5. Saved(c, e, row) \in EstateRow
    BY <2>4 DEF EstateRow
  <2> QED BY <1>0, <2>1, <2>5 DEF RowsTyped
<1>b. ASSUME NEW c, NEW next, Begin(c, next) PROVE UNCHANGED estate
  BY <1>b DEF Begin, marketTables
<1>10. ASSUME NEW c \in Calls,
              \/ QueuePost(c) \/ QueueUnpublish(c) \/ HandleOffline(c)
              \/ \E due \in SUBSET Estates : FindExpired(c, due)
       PROVE  RowsTyped
  BY <1>1, <1>b, <1>10 DEF QueuePost, QueueUnpublish, HandleOffline, FindExpired
<1>12. ASSUME NEW c \in Calls, NEW e \in Estates,
              \/ \E places \in SUBSET Publishers : Request(c, e, places) \/ Publish(c, e, places)
              \/ \E answer \in {"approve", "decline"} : Review(c, answer, e)
              \/ Unpublish(c, e) \/ Deactivate(c, e) \/ OffMarketPublish(c, e)
              \/ RemoveEstate(c, e) \/ Rent(c, e)
       PROVE  RowsTyped
  BY <1>1, <1>b, <1>12 DEF Request, Publish, Review, Unpublish, Deactivate, OffMarketPublish,
                           RemoveEstate, Rent
<1>13. ASSUME NEW c \in Calls, NEW b \in Buildings,
              \/ \E reps \in SUBSET Estates, places \in SUBSET Publishers :
                    PublishBuilding(c, b, reps, places)
              \/ \E op \in {"unpublishBuilding", "deactivateBuilding"} : LeaveMarket(c, op, b)
       PROVE  RowsTyped
  BY <1>1, <1>b, <1>13 DEF PublishBuilding, LeaveMarket
<1>11. ASSUME NEW c \in Calls, NEW e \in Estates, StoreRemove(c, e) PROVE RowsTyped
  BY <1>3, <1>11 DEF StoreRemove
<1> QED
  BY <1>6, <1>7, <1>8, <1>9, <1>10, <1>11, <1>12, <1>13 DEF PublicationNext

\* What else publication writes.
LEMMA PublicationRest ==
    ASSUME TypeOK, PublicationNext
    PROVE  /\ let' \subseteq Estates
           /\ building' \in [Buildings -> BuildingRow]
           /\ listing' \in [Rows -> Listing]
           /\ jobs' \subseteq Job
           /\ UNCHANGED remoteVars
<1>l. ASSUME NEW s \in {"scheduled"}, NEW rows, listing' = WithListings(rows, s)
      PROVE  listing' \in [Rows -> Listing]
  <2>1. \A row \in Listing : [row EXCEPT !.status = s] \in Listing
    BY DEF Listing
  <2> QED BY <1>l, <2>1 DEF WithListings, TypeOK
<1>p. ASSUME NEW units, NEW places, listing' = WithMarketPlaces(units, places)
      PROVE  listing' \in [Rows -> Listing]
  <2>1. [NoListing EXCEPT !.status = "initialized"] \in Listing
    BY DEF NoListing, Listing
  <2>2. \A row \in Listing : Closed(row) \in Listing
    BY DEF Closed, Listing
  <2> QED BY <1>p, <2>1, <2>2 DEF WithMarketPlaces, TypeOK
<1>b. ASSUME NEW status \in {"draft", "active"}, NEW pub \in {"init", "landlord", "approved"}
      PROVE  /\ [status |-> status, pub |-> pub] \in BuildingRow
             /\ \A row \in BuildingRow : /\ [row EXCEPT !.status = status] \in BuildingRow
                                         /\ [row EXCEPT !.pub = pub] \in BuildingRow
  BY DEF BuildingRow
<1>w. \A e, rows : /\ WithBuildingPublished(e, rows) \in [Buildings -> BuildingRow]
                   /\ WithBuildingUnpublished(e, rows) \in [Buildings -> BuildingRow]
  <2>1. /\ [status |-> "active", pub |-> "approved"] \in BuildingRow
        /\ [status |-> "draft", pub |-> "init"] \in BuildingRow
    BY <1>b
  <2> QED BY <2>1 DEF WithBuildingPublished, WithBuildingUnpublished, TypeOK
<1>j. ASSUME NEW new \in SUBSET Job, jobs' = Queued(new)
      PROVE  jobs' \subseteq Job
  BY <1>j DEF Queued, TypeOK
<1>k. /\ \A e \in Estates : Post(e) \in Job
      /\ \A units \in SUBSET Estates, mark \in BOOLEAN : Withdraw(units, mark) \in Job
  BY DEF Post, Withdraw, Job
<1>c. ASSUME NEW c \in Calls, call[c] # Idle
      PROVE  call[c].units \in SUBSET Estates
  BY <1>c, CallFields
<1>u. /\ let \subseteq Estates /\ building \in [Buildings -> BuildingRow]
      /\ listing \in [Rows -> Listing] /\ jobs \subseteq Job
  BY DEF TypeOK
<1> DEFINE Goal == /\ let' \subseteq Estates
                   /\ building' \in [Buildings -> BuildingRow]
                   /\ listing' \in [Rows -> Listing]
                   /\ jobs' \subseteq Job
                   /\ UNCHANGED remoteVars
<1>1. CASE \/ DeactivateLandlord
           \/ \E e \in Estates : Extend(e) \/ NotAvailable(e)
           \/ \E b \in Buildings : UpdateBuilding(b)
           \/ \E c \in Calls : \/ QueuePost(c) \/ QueueUnpublish(c)
                               \/ \E e \in Estates : StoreOffMarket(c, e) \/ StoreRemove(c, e)
  <2>1. let' \subseteq let /\ UNCHANGED <<building, listing, remoteVars>>
    BY <1>1 DEF DeactivateLandlord, Extend, NotAvailable, UpdateBuilding, QueuePost, QueueUnpublish,
                StoreOffMarket, StoreRemove
  <2>2. jobs' \subseteq Job
    <3>1. ASSUME NEW c \in Calls, QueuePost(c) \/ QueueUnpublish(c) PROVE jobs' \subseteq Job
      <4>1. call[c].units \in SUBSET Estates
        BY <1>c, <3>1 DEF QueuePost, QueueUnpublish, Serving
      <4> QED BY <1>j, <1>k, <3>1, <4>1 DEF QueuePost, QueueUnpublish
    <3> QED BY <1>1, <1>u, <3>1 DEF DeactivateLandlord, Extend, NotAvailable, UpdateBuilding,
                                    StoreOffMarket, StoreRemove
  <2> QED BY <1>u, <2>1, <2>2
<1>2. ASSUME NEW e \in Estates, UpdateEstate(e) \/ DeleteEstates(e)
      PROVE  Goal
  <2>1. jobs' \subseteq Job
    <3>1. {Withdraw({e}, TRUE)} \in SUBSET Job
      BY <1>k
    <3> QED BY <1>2, <1>j, <3>1 DEF UpdateEstate, DeleteEstates
  <2>2. building' \in [Buildings -> BuildingRow]
    <3>1. \A row \in BuildingRow : [row EXCEPT !.pub = "init"] \in BuildingRow
      BY <1>b
    <3> QED BY <1>2, <1>u, <3>1 DEF UpdateEstate, DeleteEstates
  <2> QED BY <1>2, <1>u, <2>1, <2>2 DEF UpdateEstate, DeleteEstates
<1>3. ASSUME NEW c \in Calls, StoreRequest(c) \/ StorePublish(c)
      PROVE  Goal
  BY <1>3, <1>p, <1>u DEF StoreRequest, StorePublish
<1>4. ASSUME NEW c \in Calls, HandleOffline(c) \/ HandleToExpire(c)
      PROVE  Goal
  <2>1. call[c].units \in SUBSET Estates
    BY <1>4, <1>c DEF HandleOffline, HandleToExpire, Serving
  <2>2. jobs' \subseteq Job
    BY <1>4, <1>j, <1>k, <2>1 DEF HandleOffline, HandleToExpire
  <2> QED BY <1>4, <1>l, <1>u, <2>2 DEF HandleOffline, HandleToExpire
<1>5. ASSUME NEW c \in Calls, NEW e \in Estates, StoreApprove(c, e) \/ StoreDecline(c, e) \/ StoreRent(c, e)
      PROVE  Goal
  <2>1. jobs' \subseteq Job
    BY <1>5, <1>j, <1>k DEF StoreApprove, StoreDecline, StoreRent
  <2>2. building' \in [Buildings -> BuildingRow]
    BY <1>5, <1>w, <1>u DEF StoreApprove, StoreDecline, StoreRent
  <2>3. listing' \in [Rows -> Listing]
    BY <1>5, <1>l, <1>u DEF StoreApprove, StoreDecline, StoreRent
  <2> QED BY <1>5, <1>u, <2>1, <2>2, <2>3 DEF StoreApprove, StoreDecline, StoreRent
<1>6. ASSUME NEW c \in Calls, NEW e \in Estates, StoreUnpublish(c, e) \/ StoreDeactivate(c, e)
      PROVE  Goal
  <2>1. building' \in [Buildings -> BuildingRow]
    BY <1>6, <1>w DEF StoreUnpublish, StoreDeactivate
  <2>2. listing' \in [Rows -> Listing]
    BY <1>6, <1>l, <1>u DEF StoreUnpublish, StoreDeactivate
  <2> QED BY <1>6, <1>u, <2>1, <2>2 DEF StoreUnpublish, StoreDeactivate
<1>7. ASSUME NEW c \in Calls, NEW b \in Buildings, StorePublishBuilding(c, b)
      PROVE  Goal
  BY <1>7, <1>b, <1>p, <1>u DEF StorePublishBuilding
<1>8. ASSUME NEW c \in Calls, NEW b \in Buildings, StoreUnpublishBuilding(c, b) \/ StoreDeactivateBuilding(c, b)
      PROVE  Goal
  <2>1. call[c].units \in SUBSET Estates
    BY <1>8, <1>c DEF StoreUnpublishBuilding, StoreDeactivateBuilding, Serving
  <2>2. jobs' \subseteq Job
    BY <1>8, <1>j, <1>k, <2>1 DEF StoreUnpublishBuilding, StoreDeactivateBuilding, StoreLeave
  <2>3. building' \in [Buildings -> BuildingRow]
    <3>1. \A row \in BuildingRow : /\ [row EXCEPT !.pub = "init"] \in BuildingRow
                                    /\ [row EXCEPT !.status = "draft"] \in BuildingRow
      BY <1>b
    <3> QED BY <1>8, <1>u, <3>1 DEF StoreUnpublishBuilding, StoreDeactivateBuilding
  <2> QED BY <1>8, <1>l, <1>u, <2>2, <2>3 DEF StoreUnpublishBuilding, StoreDeactivateBuilding, StoreLeave
<1>9. ASSUME NEW c \in Calls, NEW next, Begin(c, next)
      PROVE  Goal
  BY <1>9, <1>u DEF Begin, marketTables
<1>10. CASE \E c \in Calls : \/ \E due \in SUBSET Estates : FindExpired(c, due)
                             \/ \E e \in Estates :
                                   \/ \E places \in SUBSET Publishers : Request(c, e, places) \/ Publish(c, e, places)
                                   \/ \E answer \in {"approve", "decline"} : Review(c, answer, e)
                                   \/ Unpublish(c, e) \/ Deactivate(c, e) \/ OffMarketPublish(c, e)
                                   \/ RemoveEstate(c, e) \/ Rent(c, e)
                             \/ \E b \in Buildings :
                                   \/ \E reps \in SUBSET Estates, places \in SUBSET Publishers :
                                         PublishBuilding(c, b, reps, places)
                                   \/ \E op \in {"unpublishBuilding", "deactivateBuilding"} : LeaveMarket(c, op, b)
  BY <1>9, <1>10 DEF FindExpired, Request, Publish, Review, Unpublish, Deactivate, OffMarketPublish,
       RemoveEstate, Rent, PublishBuilding, LeaveMarket
<1> QED
  BY <1>1, <1>2, <1>3, <1>4, <1>5, <1>6, <1>7, <1>8, <1>10 DEF PublicationNext

\* A hook names a property or a listing, as its event says.
LEMMA HookFields ==
    ASSUME TypeOK, NEW h \in hooks
    PROVE  /\ h.event \in {"processed", "rejected"} => h.id \in Props
           /\ h.event \in {"published", "notPublished", "withdrawn", "notWithdrawn"} => h.id \in Offers
BY DEF TypeOK, PropertyHooks, OfferHooks

\* What workers and webhooks write to a row.
LEMMA RowUpdates ==
    ASSUME NEW row \in Listing
    PROVE  /\ \A s \in {"posted", "published", "scheduled", "error", "deleted"} :
                 [row EXCEPT !.status = s] \in Listing
           /\ \A p \in Props : [row EXCEPT !.status = "posted", !.prop = p, !.failed = FALSE] \in Listing
           /\ [row EXCEPT !.failed = TRUE] \in Listing
           /\ [row EXCEPT !.failed = TRUE, !.status = "error"] \in Listing
           /\ \A o \in Offers \cup {None} : [row EXCEPT !.remote = o] \in Listing
           /\ Closed(row) \in Listing
BY DEF Listing, Closed

LEMMA WithListingsTypes ==
    ASSUME TypeOK, NEW rows, NEW s \in {"posted", "published", "scheduled", "error", "deleted"}
    PROVE  WithListings(rows, s) \in [Rows -> Listing]
BY RowUpdates DEF TypeOK, WithListings

LEMMA RemoteTypes ==
    ASSUME TypeOK, NEW gone \in SUBSET Offers, NEW others \in SUBSET (PropertyHooks \cup OfferHooks),
           DeleteOffers(gone, others)
    PROVE  offer' \in [Offers -> Offer] /\ hooks' \subseteq PropertyHooks \cup OfferHooks
<1> DEFINE live == {o \in gone : offer[o].live}
<1>1. PICK reports \in [live -> Outcome] :
           /\ offer' = [o \in Offers |->
                  IF o \notin live THEN offer[o]
                  ELSE IF reports[o] = "withdrawn" THEN [offer[o] EXCEPT !.live = FALSE]
                  ELSE [offer[o] EXCEPT !.kept = TRUE]]
           /\ hooks' = others \cup {[event |-> reports[o], id |-> o] : o \in live}
  BY DEF DeleteOffers
<1>2. \A row \in Offer : [row EXCEPT !.live = FALSE] \in Offer /\ [row EXCEPT !.kept = TRUE] \in Offer
  BY DEF Offer
<1>3. offer' \in [Offers -> Offer]
  BY <1>1, <1>2 DEF TypeOK
<1>4. \A o \in live : [event |-> reports[o], id |-> o] \in OfferHooks
  <2>1. Outcome \subseteq {"withdrawn", "notWithdrawn"}
    BY DEF Outcome
  <2> HIDE DEF live
  <2>2. live \subseteq Offers
    BY DEF live
  <2> QED BY <2>1, <2>2 DEF OfferHooks
<1> QED BY <1>1, <1>3, <1>4

LEMMA ListingsTypes ==
    ASSUME TypeOK, ListingsNext
    PROVE  TypeOK'
<1>t. /\ estate \in [Estates -> EstateRow] /\ let \subseteq Estates
      /\ building \in [Buildings -> BuildingRow] /\ listing \in [Rows -> Listing]
      /\ property \in [Props -> Property] /\ offer \in [Offers -> Offer]
      /\ hooks \subseteq PropertyHooks \cup OfferHooks /\ jobs \subseteq Job
  BY DEF TypeOK
<1> DEFINE Typed == /\ listing' \in [Rows -> Listing] /\ property' \in [Props -> Property]
                    /\ offer' \in [Offers -> Offer]
                    /\ hooks' \subseteq PropertyHooks \cup OfferHooks /\ jobs' \subseteq Job
                    /\ CallsTyped
<1>s. ASSUME UNCHANGED <<estate, let, building>>, Typed PROVE TypeOK'
  BY <1>s, <1>t DEF TypeOK, CallsTyped
<1>u. UNCHANGED call => CallsTyped
  BY DEF TypeOK, CallsTyped
<1>e. ASSUME NEW c \in Calls, Ends(c) PROVE CallsTyped
  BY <1>e, GoesTypes DEF Ends
<1>r. ASSUME NEW rows \in SUBSET Rows PROVE {r[1] : r \in rows} \subseteq Estates
  BY DEF Rows
<1>n. \A op \in Handlers, units \in SUBSET Estates : NewCall(op, units) \in Call
  BY NewCallTypes
<1>h. {"post", "process", "exhaust", "withdraw"} \subseteq Handlers
  BY DEF Handlers
<1>1. ASSUME NEW c \in Calls, StorePosted(c) \/ PropertyRefused(c) PROVE TypeOK'
  <2>1. call[c].prop \in Props \cup {None}
    BY <1>1, CallFields DEF StorePosted, PropertyRefused, Serving
  <2>2. listing' \in [Rows -> Listing]
    <3>1. CASE StorePosted(c)
      <4>1. PICK p \in Props : p = call[c].prop
        BY <2>1, <3>1 DEF StorePosted
      <4>2. \A r \in Rows : [listing[r] EXCEPT !.status = "posted", !.prop = p, !.failed = FALSE] \in Listing
        BY <1>t, RowUpdates
      <4> QED BY <1>t, <3>1, <4>1, <4>2 DEF StorePosted
    <3>2. CASE PropertyRefused(c)
      BY <1>t, <3>2, RowUpdates DEF PropertyRefused
    <3> QED BY <1>1, <3>1, <3>2
  <2> QED BY <1>1, <1>e, <1>s, <1>t, <2>2 DEF StorePosted, PropertyRefused, remoteVars
<1>2. ASSUME NEW p PROVE DeleteProperty(p) => property' \in [Props -> Property]
  <2>1. \A row \in Property : [row EXCEPT !.live = FALSE] \in Property
    BY DEF Property
  <2> QED BY <1>t, <2>1 DEF DeleteProperty
<1>3. ASSUME NEW c \in Calls, DeleteExhausted(c) PROVE TypeOK'
  <2>1. listing' \in [Rows -> Listing] /\ property' \in [Props -> Property]
    BY <1>2, <1>3, <1>t, WithListingsTypes DEF DeleteExhausted
  <2> QED BY <1>3, <1>e, <1>s, <1>t, <2>1 DEF DeleteExhausted
<1>4. ASSUME NEW c \in Calls, NEW job \in jobs, UnpublishMultiple(c, job) PROVE TypeOK'
  <2>1. job.estates \in SUBSET Estates
    BY <1>t DEF Job
  <2>2. listing' \in [Rows -> Listing]
    BY <1>4, <1>t, WithListingsTypes DEF UnpublishMultiple
  <2>3. PICK units \in SUBSET Estates : GoesOn(c, [NewCall("withdraw", units) EXCEPT !.todo = units])
    BY <1>4, <2>1 DEF UnpublishMultiple
  <2>4. [NewCall("withdraw", units) EXCEPT !.todo = units] \in Call
    BY <1>h, <1>n, CallUpdates
  <2>5. CallsTyped
    BY <2>3, <2>4, GoesTypes
  <2> QED BY <1>4, <1>s, <1>t, <2>2, <2>5 DEF UnpublishMultiple, remoteVars
<1>5. ASSUME NEW c \in Calls, NEW job \in jobs, NEW e \in Estates, PostEstate(c, job, e) PROVE TypeOK'
  <2>1. NewCall("post", {e}) \in Call
    BY <1>h, <1>n
  <2>2. CallsTyped
    BY <1>5, <2>1, GoesTypes DEF PostEstate
  <2> QED BY <1>5, <1>s, <1>t, <2>2 DEF PostEstate, remoteVars
<1>6. ASSUME NEW c \in Calls, NEW p \in Props, PropertyPosted(c, p) PROVE TypeOK'
  <2>1. call[c] \in Call /\ call[c].units \in SUBSET Estates
    BY <1>6, CallFields DEF PropertyPosted, Serving
  <2>2. [call[c] EXCEPT !.prop = p] \in Call
    BY <2>1, CallUpdates
  <2>3. CallsTyped
    BY <1>6, <2>2, GoesTypes DEF PropertyPosted
  <2>4. PICK e \in Estates : NewProperty(p, e)
    BY <1>6, <2>1 DEF PropertyPosted
  <2>5. property' \in [Props -> Property] /\ hooks' \subseteq PropertyHooks \cup OfferHooks
    BY <1>t, <2>4 DEF NewProperty, Property, PropertyHooks
  <2> QED BY <1>6, <1>s, <1>t, <2>3, <2>5 DEF PropertyPosted
<1>7. ASSUME NEW c \in Calls, NEW publisher \in Publishers, NEW told \in BOOLEAN,
             ListingRefused(c, publisher, told)
      PROVE  TypeOK'
  <2>1. call[c] \in Call /\ call[c].places \in SUBSET Publishers
    BY <1>7, CallFields DEF ListingRefused, Serving
  <2>2. [call[c] EXCEPT !.places = @ \ {publisher}] \in Call
    BY <2>1, CallUpdates
  <2>3. CallsTyped
    BY <1>7, <2>2, GoesTypes DEF ListingRefused
  <2>4. listing' \in [Rows -> Listing]
    BY <1>7, <1>t, WithListingsTypes DEF ListingRefused
  <2> QED BY <1>7, <1>s, <1>t, <2>3, <2>4 DEF ListingRefused, remoteVars
<1>8. ASSUME NEW c \in Calls, NEW publisher \in Publishers, NEW o \in Offers, PostListing(c, publisher, o)
      PROVE  TypeOK'
  <2>1. /\ call[c] \in Call /\ call[c].places \in SUBSET Publishers
        /\ call[c].posted \in SUBSET (Publishers \X Offers) /\ call[c].prop \in Props \cup {None}
    BY <1>8, CallFields DEF PostListing, Serving
  <2>2. [call[c] EXCEPT !.places = @ \ {publisher}, !.posted = @ \cup {<<publisher, o>>}] \in Call
    <3>1. PICK k \in Call : k = call[c]
      BY <2>1
    <3>2. /\ k.places \ {publisher} \in SUBSET Publishers
          /\ k.posted \cup {<<publisher, o>>} \in SUBSET (Publishers \X Offers)
      BY <2>1, <3>1
    <3>3. [k EXCEPT !.places = k.places \ {publisher}, !.posted = k.posted \cup {<<publisher, o>>}] \in Call
      BY <3>2, CallUpdates
    <3> QED BY <3>1, <3>3
  <2>3. CallsTyped
    BY <1>8, <2>2, GoesTypes DEF PostListing
  <2>4. [NoOffer EXCEPT !.prop = call[c].prop, !.publisher = publisher, !.live = TRUE] \in Offer
    BY <2>1 DEF NoOffer, Offer
  <2>5. offer' \in [Offers -> Offer] /\ hooks' \subseteq PropertyHooks \cup OfferHooks
    BY <1>8, <1>t, <2>4 DEF PostListing, NewOffer, OfferHooks
  <2> QED BY <1>8, <1>s, <1>t, <2>3, <2>5 DEF PostListing
<1>9. ASSUME NEW c \in Calls, NEW publisher \in Publishers, NEW o \in Offers, StoreListing(c, publisher, o)
      PROVE  TypeOK'
  <2>1. call[c] \in Call /\ call[c].posted \in SUBSET (Publishers \X Offers)
    BY <1>9, CallFields DEF StoreListing, Serving
  <2>2. [call[c] EXCEPT !.posted = @ \ {<<publisher, o>>}] \in Call
    BY <2>1, CallUpdates
  <2>3. CallsTyped
    BY <1>9, <2>2, GoesTypes DEF StoreListing
  <2>4. listing' \in [Rows -> Listing]
    BY <1>9, <1>t, RowUpdates DEF StoreListing
  <2> QED BY <1>9, <1>s, <1>t, <2>3, <2>4 DEF StoreListing, remoteVars
<1>10. ASSUME NEW c \in Calls, NEW h \in hooks, PropertyProcessingSucceeded(c, h) PROVE TypeOK'
  <2> DEFINE rows == Waiting(h.id)
  <2>1. h.id \in Props
    BY <1>10, HookFields DEF PropertyProcessingSucceeded
  <2>2. {r[1] : r \in rows} \in SUBSET Estates /\ {r[2] : r \in rows} \in SUBSET Publishers
    BY DEF Waiting, Rows
  <2>3. [NewCall("process", {r[1] : r \in rows}) EXCEPT !.places = {r[2] : r \in rows}, !.prop = h.id] \in Call
    BY <1>h, <1>n, <2>1, <2>2, CallUpdates
  <2>4. CallsTyped
    BY <1>10, <2>3, GoesTypes DEF PropertyProcessingSucceeded
  <2> QED BY <1>10, <1>s, <1>t, <2>4 DEF PropertyProcessingSucceeded, Arrives
<1>11. ASSUME NEW c \in Calls, NEW h \in hooks, PropertyProcessingFailed(c, h) \/ PublicationSucceeded(c, h)
       PROVE  TypeOK'
  <2>1. CASE PropertyProcessingFailed(c, h)
    <3>1. listing' \in [Rows -> Listing]
      BY <1>t, <2>1, RowUpdates DEF PropertyProcessingFailed
    <3> QED BY <1>s, <1>t, <1>u, <2>1, <3>1 DEF PropertyProcessingFailed, Arrives
  <2>2. CASE PublicationSucceeded(c, h)
    <3>1. listing' \in [Rows -> Listing]
      BY <2>2, WithListingsTypes DEF PublicationSucceeded
    <3> QED BY <1>s, <1>t, <1>u, <2>2, <3>1 DEF PublicationSucceeded, Arrives
  <2> QED BY <1>11, <2>1, <2>2
<1>12. ASSUME NEW c \in Calls, NEW h \in hooks, PublicationFailed(c, h) PROVE TypeOK'
  <2>1. listing' \in [Rows -> Listing]
    BY <1>12, WithListingsTypes DEF PublicationFailed
  <2>2. offer' \in [Offers -> Offer] /\ hooks' \subseteq PropertyHooks \cup OfferHooks
    <3>1. \E gone \in SUBSET Offers : DeleteOffers(gone, hooks \ {h})
      BY <1>12, HookFields DEF PublicationFailed
    <3> QED BY <1>t, <3>1, RemoteTypes
  <2> QED BY <1>12, <1>s, <1>t, <1>u, <2>1, <2>2 DEF PublicationFailed
<1>13. ASSUME NEW rows PROVE WithoutRemote(rows) \in [Rows -> Listing]
  BY <1>t, RowUpdates DEF WithoutRemote
<1>14. ASSUME NEW c \in Calls, NEW h \in hooks, PublicationDeleted(c, h) PROVE TypeOK'
  <2> DEFINE rows == {r \in Named(h.id) : ~listing[r].failed}
  <2>1. h.id \in Offers
    BY <1>14, HookFields DEF PublicationDeleted
  <2>2. {r[1] : r \in rows} \in SUBSET Estates
    BY <1>r DEF Named
  <2>3. offer[h.id].prop \in Props \cup {None}
    BY <1>t, <2>1 DEF Offer
  <2>4. [NewCall("exhaust", {r[1] : r \in rows}) EXCEPT !.prop = offer[h.id].prop] \in Call
    BY <1>h, <1>n, <2>2, <2>3, CallUpdates
  <2>5. CallsTyped
    BY <1>14, <2>4, GoesTypes DEF PublicationDeleted
  <2> QED BY <1>13, <1>14, <1>s, <1>t, <2>5 DEF PublicationDeleted, Arrives
<1>15. ASSUME NEW c \in Calls, NEW h \in hooks, DeletionFailed(c, h) PROVE TypeOK'
  <2> DEFINE units == {r[1] : r \in Named(h.id)}
  <2>1. units \in SUBSET Estates
    BY <1>r DEF Named
  <2>2. [NewCall("withdraw", units) EXCEPT !.todo = units] \in Call
    BY <1>h, <1>n, <2>1, CallUpdates
  <2>3. CallsTyped
    BY <1>15, <2>2, GoesTypes DEF DeletionFailed
  <2> QED BY <1>13, <1>15, <1>s, <1>t, <2>3 DEF DeletionFailed, Arrives
<1>16. ASSUME NEW c \in Calls, NEW e \in Estates, Withdrawing(c, e), Withdrawn(c, e) PROVE CallsTyped
  <2>1. call[c] \in Call /\ call[c].todo \in SUBSET Estates
    BY <1>16, CallFields DEF Withdrawing, Serving
  <2>2. [call[c] EXCEPT !.todo = @ \ {e}] \in Call
    BY <2>1, CallUpdates
  <2> QED BY <1>16, <2>2, GoesTypes DEF Withdrawn
<1>17. ASSUME NEW c \in Calls, NEW e \in Estates, WithdrawListings(c, e) PROVE TypeOK'
  <2>1. offer' \in [Offers -> Offer] /\ hooks' \subseteq PropertyHooks \cup OfferHooks
    <3>1. {listing[r].remote : r \in Scheduled({e})} \in SUBSET Offers
      BY <1>t DEF Scheduled, RowsOf, Rows, Listing
    <3>2. \E gone \in SUBSET Offers : DeleteOffers(gone, hooks)
      BY <1>17, <3>1 DEF WithdrawListings
    <3> QED BY <1>t, <3>2, RemoteTypes
  <2> QED BY <1>16, <1>17, <1>s, <1>t, <2>1 DEF WithdrawListings
<1>18. ASSUME NEW c \in Calls, NEW e \in Estates, NEW r \in Rows, WithdrawProperty(c, e, r) PROVE TypeOK'
  <2>1. listing' \in [Rows -> Listing] /\ property' \in [Props -> Property]
    BY <1>2, <1>18, <1>t, RowUpdates DEF WithdrawProperty
  <2> QED BY <1>16, <1>18, <1>s, <1>t, <2>1 DEF WithdrawProperty
<1>19. ASSUME NEW c \in Calls, NEW e \in Estates, NothingToWithdraw(c, e) PROVE TypeOK'
  BY <1>16, <1>19, <1>s, <1>t DEF NothingToWithdraw, marketTables, remoteVars
<1> QED
  BY <1>1, <1>3, <1>4, <1>5, <1>6, <1>7, <1>8, <1>9, <1>10, <1>11, <1>12, <1>14, <1>15, <1>17, <1>18,
     <1>19 DEF ListingsNext

LEMMA MarketTypeStep == ASSUME TypeOK, [Next]_marketVars PROVE TypeOK'
<1>1. CASE UNCHANGED marketVars
  BY <1>1 DEF marketVars, marketTables, remoteVars, TypeOK
<1>2. CASE PublicationNext
  BY <1>2, PublicationCalls, PublicationRows, PublicationRest
     DEF TypeOK, CallsTyped, RowsTyped, remoteVars
<1>3. CASE ListingsNext
  BY <1>3, ListingsTypes
<1> QED BY <1>1, <1>2, <1>3 DEF Next

\* The types of the tables, of what EstateSync keeps and of every call in flight, for
\* all endpoints and any number of calls.
THEOREM MarketTypes == Spec => []TypeOK
<1>1. Init => TypeOK
  BY MarketAssumption DEF Init, TypeOK, Draft, EstateRow, BuildingRow, NoListing, Listing, NoOffer, Offer,
     Property, Rows
<1> QED BY <1>1, MarketTypeStep, PTL DEF Spec

-----------------------------------------------------------------------------
\* With one call in flight at a time, what a call has checked still holds when
\* it writes.
OneCall == \A c, d \in Calls : c = d

LEMMA OneGoes ==
    ASSUME TypeOK, OneCall, NEW c \in Calls, NEW next, Goes(c, next)
    PROVE  \A d \in Calls : call'[d] = next
BY DEF TypeOK, OneCall, Goes

LEMMA OneEnds ==
    ASSUME TypeOK, OneCall, NEW c \in Calls, Ends(c)
    PROVE  \A d \in Calls : call'[d] = Idle
BY OneGoes DEF Ends

LEMMA ReadingFields ==
    ASSUME NEW op, NEW units \in SUBSET Estates
    PROVE  LET Fields(k) == /\ k.op = op /\ k.units = units /\ k.seenLet = units \cap let
                            /\ \A e \in units : k.seen[e] = estate[e]
           IN  /\ Fields(Reading(op, units))
               /\ \A places : Fields([Reading(op, units) EXCEPT !.places = places])
               /\ \A reps, places : Fields([Reading(op, units) EXCEPT !.todo = reps, !.places = places])
BY DEF Reading, NewCall

\* The calls of workers, webhooks and of the removal of an estate.
Removes == {"post", "process", "exhaust", "withdraw", "remove"}

\* They leave the estates alone and never become a call of another kind.
LEMMA ListingsCalls ==
    ASSUME TypeOK, ListingsNext
    PROVE  /\ UNCHANGED <<estate, let, building>>
           /\ \A d \in Calls : \/ call'[d] = call[d] \/ call'[d] = Idle
                               \/ call'[d] # Idle /\ call'[d].op \in Removes
<1> DEFINE Fit(next) == next = Idle \/ next.op \in Removes
           Done == /\ UNCHANGED <<estate, let, building>>
                   /\ \A d \in Calls : call'[d] = call[d] \/ Fit(call'[d])
<1>g. ASSUME NEW c \in Calls, NEW next, Fit(next), Goes(c, next)
      PROVE  \A d \in Calls : call'[d] = call[d] \/ Fit(call'[d])
  BY <1>g DEF TypeOK, Goes
<1>o. ASSUME NEW c \in Calls, NEW next, Fit(next), GoesOn(c, next)
      PROVE  \A d \in Calls : call'[d] = call[d] \/ Fit(call'[d])
  BY <1>g, <1>o DEF GoesOn
<1>f. ASSUME NEW c \in Calls, call[c] # Idle
      PROVE  /\ \A v : [call[c] EXCEPT !.prop = v].op = call[c].op
             /\ \A v : [call[c] EXCEPT !.todo = v].op = call[c].op
             /\ \A v : [call[c] EXCEPT !.places = v].op = call[c].op
             /\ \A v : [call[c] EXCEPT !.posted = v].op = call[c].op
             /\ \A v, w : [call[c] EXCEPT !.places = v, !.posted = w].op = call[c].op
  <2>1. PICK k \in Call : k = call[c]
    BY <1>f, CallFields
  <2> QED BY <2>1 DEF Call
<1>n. ASSUME NEW op, NEW units
      PROVE  /\ NewCall(op, units).op = op
             /\ \A v : [NewCall(op, units) EXCEPT !.todo = v].op = op
             /\ \A v : [NewCall(op, units) EXCEPT !.prop = v].op = op
             /\ \A v, w : [NewCall(op, units) EXCEPT !.places = v, !.prop = w].op = op
  BY DEF NewCall
<1> HIDE DEF Fit
<1>i. Fit(Idle) /\ \A next : next.op \in Removes => Fit(next)
  BY DEF Fit
<1>1. ASSUME NEW c \in Calls, StorePosted(c) \/ PropertyRefused(c) \/ DeleteExhausted(c)
      PROVE  Done
  BY <1>1, <1>g, <1>i DEF StorePosted, PropertyRefused, DeleteExhausted, Ends
<1>2. ASSUME NEW c \in Calls, NEW job, UnpublishMultiple(c, job) PROVE Done
  <2>1. PICK units : GoesOn(c, [NewCall("withdraw", units) EXCEPT !.todo = units])
    BY <1>2 DEF UnpublishMultiple
  <2>2. Fit([NewCall("withdraw", units) EXCEPT !.todo = units])
    BY <1>n DEF Removes, Fit
  <2>3. \A d \in Calls : call'[d] = call[d] \/ Fit(call'[d])
    BY <1>o, <2>1, <2>2
  <2> QED BY <1>2, <2>3 DEF UnpublishMultiple
<1>3. ASSUME NEW c \in Calls, NEW job, NEW e, PostEstate(c, job, e) PROVE Done
  <2>1. Fit(NewCall("post", {e}))
    BY <1>n DEF Removes, Fit
  <2>2. \A d \in Calls : call'[d] = call[d] \/ Fit(call'[d])
    BY <1>3, <1>g, <1>i, <2>1 DEF PostEstate
  <2> QED BY <1>3, <2>2 DEF PostEstate
<1>4. ASSUME NEW c \in Calls, NEW p \in Props, PropertyPosted(c, p) PROVE Done
  <2>1. Fit([call[c] EXCEPT !.prop = p])
    BY <1>4, <1>f DEF PropertyPosted, Serving, Removes, Fit
  <2>2. \A d \in Calls : call'[d] = call[d] \/ Fit(call'[d])
    BY <1>4, <1>g, <2>1 DEF PropertyPosted
  <2> QED BY <1>4, <2>2 DEF PropertyPosted
<1>5. ASSUME NEW c \in Calls, NEW publisher \in Publishers, NEW told, ListingRefused(c, publisher, told)
      PROVE  Done
  <2>1. Fit([call[c] EXCEPT !.places = @ \ {publisher}])
    BY <1>5, <1>f DEF ListingRefused, Serving, Removes, Fit
  <2>2. \A d \in Calls : call'[d] = call[d] \/ Fit(call'[d])
    BY <1>5, <1>o, <2>1 DEF ListingRefused
  <2> QED BY <1>5, <2>2 DEF ListingRefused
<1>6. ASSUME NEW c \in Calls, NEW publisher \in Publishers, NEW o \in Offers,
             PostListing(c, publisher, o) \/ StoreListing(c, publisher, o)
      PROVE  Done
  <2>1. CASE PostListing(c, publisher, o)
    <3>1. Fit([call[c] EXCEPT !.places = @ \ {publisher}, !.posted = @ \cup {<<publisher, o>>}])
      BY <2>1, <1>f DEF PostListing, Serving, Removes, Fit
    <3>2. \A d \in Calls : call'[d] = call[d] \/ Fit(call'[d])
      BY <1>g, <2>1, <3>1 DEF PostListing
    <3> QED BY <2>1, <3>2 DEF PostListing
  <2>2. CASE StoreListing(c, publisher, o)
    <3>1. Fit([call[c] EXCEPT !.posted = @ \ {<<publisher, o>>}])
      BY <2>2, <1>f DEF StoreListing, Serving, Removes, Fit
    <3>2. \A d \in Calls : call'[d] = call[d] \/ Fit(call'[d])
      BY <1>o, <2>2, <3>1 DEF StoreListing
    <3> QED BY <2>2, <3>2 DEF StoreListing
  <2> QED BY <1>6, <2>1, <2>2
<1>7. ASSUME NEW c \in Calls, NEW h,
             \/ PropertyProcessingSucceeded(c, h) \/ PropertyProcessingFailed(c, h)
             \/ PublicationSucceeded(c, h) \/ PublicationFailed(c, h)
             \/ PublicationDeleted(c, h) \/ DeletionFailed(c, h)
      PROVE  Done
  <2>1. CASE \/ PropertyProcessingFailed(c, h) \/ PublicationSucceeded(c, h) \/ PublicationFailed(c, h)
    BY <2>1 DEF PropertyProcessingFailed, PublicationSucceeded, PublicationFailed
  <2>2. CASE PropertyProcessingSucceeded(c, h)
    <3>1. PICK units, places :
             GoesOn(c, [NewCall("process", units) EXCEPT !.places = places, !.prop = h.id])
      BY <2>2 DEF PropertyProcessingSucceeded
    <3>2. Fit([NewCall("process", units) EXCEPT !.places = places, !.prop = h.id])
      BY <1>n DEF Removes, Fit
    <3>3. \A d \in Calls : call'[d] = call[d] \/ Fit(call'[d])
      BY <1>o, <3>1, <3>2
    <3> QED BY <2>2, <3>3 DEF PropertyProcessingSucceeded
  <2>3. CASE PublicationDeleted(c, h)
    <3>1. \/ Goes(c, Idle)
          \/ \E units, prop : Goes(c, [NewCall("exhaust", units) EXCEPT !.prop = prop])
      BY <2>3 DEF PublicationDeleted
    <3>2. \A units, prop : Fit([NewCall("exhaust", units) EXCEPT !.prop = prop])
      BY <1>n DEF Removes, Fit
    <3>3. \A d \in Calls : call'[d] = call[d] \/ Fit(call'[d])
      BY <1>g, <1>i, <3>1, <3>2
    <3> QED BY <2>3, <3>3 DEF PublicationDeleted
  <2>4. CASE DeletionFailed(c, h)
    <3>1. PICK units : GoesOn(c, [NewCall("withdraw", units) EXCEPT !.todo = units])
      BY <2>4 DEF DeletionFailed
    <3>2. Fit([NewCall("withdraw", units) EXCEPT !.todo = units])
      BY <1>n DEF Removes, Fit
    <3>3. \A d \in Calls : call'[d] = call[d] \/ Fit(call'[d])
      BY <1>o, <3>1, <3>2
    <3> QED BY <2>4, <3>3 DEF DeletionFailed
  <2> QED BY <1>7, <2>1, <2>2, <2>3, <2>4
<1>8. ASSUME NEW c \in Calls, NEW e, Withdrawing(c, e), Withdrawn(c, e)
      PROVE  \A d \in Calls : call'[d] = call[d] \/ Fit(call'[d])
  <2>1. Fit([call[c] EXCEPT !.todo = @ \ {e}])
    BY <1>8, <1>f DEF Withdrawing, Serving, Removes, Fit
  <2> QED BY <1>8, <1>g, <1>o, <2>1 DEF Withdrawn
<1>9. ASSUME NEW c \in Calls, NEW e,
             \/ WithdrawListings(c, e) \/ NothingToWithdraw(c, e)
             \/ \E r \in Rows : WithdrawProperty(c, e, r)
      PROVE  Done
  BY <1>8, <1>9 DEF WithdrawListings, NothingToWithdraw, WithdrawProperty, marketTables
<1>10. Done
  BY <1>1, <1>2, <1>3, <1>4, <1>5, <1>6, <1>7, <1>9 DEF ListingsNext
<1> QED BY <1>10 DEF Fit

\* What a call in flight has checked: the rows it has read are as they were, it
\* publishes no estate that is let, and the landlord asks for a single estate.
Watched == {"request", "unpublish", "commitUnpublish", "deactivate", "offMarket"}
LetChecked(k) ==
    /\ k.op # "unpublishBuilding"
    /\ k.op \in Watched => \A e \in k.units : k.seen[e] = estate[e]
    /\ k.op \in Watched \ {"request"} => k.seenLet = k.units \cap let
    /\ k.op = "request" => \A e \in k.units : House[e] = None /\ Publishable(e, estate[e])
    /\ k.op \in {"publish", "commitPublish", "approve", "publishBuilding"} => k.units \cap let = {}

\* A let estate can be asked for once more only when it is offline, or a deleted
\* one, and in no building.
LetRows ==
    \A e \in let : /\ estate[e].status \in {"draft", "offline", "deleted"}
                   /\ estate[e].pub = "landlord" => estate[e].status # "draft" /\ House[e] = None

LetInv == LetRows /\ \A c \in Calls : call[c] # Idle => LetChecked(call[c])

\* Without a change of the estates it is enough to look at the new calls.
LEMMA LetKept ==
    ASSUME LetInv, UNCHANGED <<estate, let>>,
           \A d \in Calls : call'[d] # Idle /\ call'[d] # call[d] => LetChecked(call'[d])
    PROVE  LetInv'
<1>1. LetRows'
  BY DEF LetInv, LetRows
<1>2. ASSUME NEW d \in Calls, call'[d] # Idle PROVE LetChecked(call'[d])
  BY <1>2 DEF LetInv
<1>3. ASSUME NEW d \in Calls, call'[d] # Idle PROVE LetChecked(call[d])'
  BY <1>2, <1>3 DEF LetChecked, Publishable
<1> QED BY <1>1, <1>3 DEF LetInv

LEMMA LetListings == ASSUME TypeOK, LetInv, ListingsNext PROVE LetInv'
<1>1. \A k : k.op \in Removes => LetChecked(k)
  BY DEF Removes, LetChecked, Watched
<1> QED BY <1>1, ListingsCalls, LetKept

\* A call begins with what it checks.
LEMMA LetBegins ==
    ASSUME TypeOK, LetInv, OneCall, "unpublishBuilding" \notin Endpoints, NEW c \in Calls,
           \/ \E due \in SUBSET Estates : FindExpired(c, due)
           \/ \E e \in Estates :
                 \/ \E places \in SUBSET Publishers : Request(c, e, places) \/ Publish(c, e, places)
                 \/ \E answer \in {"approve", "decline"} : Review(c, answer, e)
                 \/ Unpublish(c, e) \/ Deactivate(c, e) \/ OffMarketPublish(c, e)
                 \/ RemoveEstate(c, e) \/ Rent(c, e)
           \/ \E b \in Buildings :
                 \/ \E reps \in SUBSET Estates, places \in SUBSET Publishers :
                       PublishBuilding(c, b, reps, places)
                 \/ \E op \in {"unpublishBuilding", "deactivateBuilding"} : LeaveMarket(c, op, b)
    PROVE  LetInv'
<1>k. ASSUME NEW next, LetChecked(next), Begin(c, next) PROVE LetInv'
  <2>1. \A d \in Calls : call'[d] = next
    BY <1>k, OneGoes DEF Begin
  <2>2. UNCHANGED <<estate, let>>
    BY <1>k DEF Begin, marketTables
  <2> QED BY <1>k, <2>1, <2>2, LetKept
<1>n. ASSUME NEW op, NEW units, NEW v
      PROVE  /\ NewCall(op, units).op = op /\ NewCall(op, units).units = units
             /\ [NewCall(op, units) EXCEPT !.places = v].op = op
             /\ [NewCall(op, units) EXCEPT !.places = v].units = units
             /\ [NewCall(op, units) EXCEPT !.todo = v].op = op
  BY DEF NewCall
<1>1. ASSUME NEW due, FindExpired(c, due) PROVE LetInv'
  <2>1. LetChecked(NewCall("expire", due))
    BY <1>n DEF LetChecked, Watched
  <2> QED BY <1>1, <1>k, <2>1 DEF FindExpired
<1>2. ASSUME NEW e \in Estates, NEW places, Request(c, e, places) PROVE LetInv'
  <2> DEFINE next == [Reading("request", {e}) EXCEPT !.places = places]
  <2>1. next.op = "request" /\ next.units = {e} /\ next.seen[e] = estate[e]
    BY ReadingFields
  <2>2. House[e] = None /\ Publishable(e, estate[e]) /\ Begin(c, next)
    BY <1>2 DEF Request
  <2> HIDE DEF next
  <2>3. LetChecked(next)
    BY <2>1, <2>2 DEF LetChecked
  <2> QED BY <1>k, <2>2, <2>3
<1>3. ASSUME NEW e \in Estates, NEW places, Publish(c, e, places) PROVE LetInv'
  <2> DEFINE next == [NewCall("publish", {e}) EXCEPT !.places = IF House[e] = None THEN places ELSE {}]
  <2>1. next.op = "publish" /\ next.units = {e}
    BY <1>n
  <2>2. e \notin let /\ Begin(c, next)
    BY <1>3 DEF Publish, Publishable
  <2> HIDE DEF next
  <2>3. LetChecked(next)
    BY <2>1, <2>2 DEF LetChecked, Watched
  <2> QED BY <1>k, <2>2, <2>3
<1>4. ASSUME NEW e \in Estates, NEW answer \in {"approve", "decline"}, Review(c, answer, e) PROVE LetInv'
  <2>1. e \notin let
    BY <1>4 DEF Review, Requested, LetInv, LetRows
  <2>2. LetChecked(NewCall(answer, {e}))
    BY <1>n, <2>1 DEF LetChecked, Watched
  <2> QED BY <1>4, <1>k, <2>2 DEF Review
<1>5. ASSUME NEW e \in Estates, NEW op \in {"unpublish", "deactivate", "offMarket"},
             Begin(c, Reading(op, {e}))
      PROVE  LetInv'
  <2> DEFINE next == Reading(op, {e})
  <2>1. next.op = op /\ next.units = {e} /\ next.seen[e] = estate[e] /\ next.seenLet = {e} \cap let
    BY ReadingFields
  <2> HIDE DEF next
  <2>2. LetChecked(next)
    BY <2>1 DEF LetChecked
  <2>3. Begin(c, next)
    BY <1>5 DEF next
  <2> QED BY <1>k, <2>2, <2>3
<1>6. ASSUME NEW e \in Estates, RemoveEstate(c, e) \/ Rent(c, e) PROVE LetInv'
  <2>1. LetChecked([NewCall("remove", {e}) EXCEPT !.todo = {e}]) /\ LetChecked(NewCall("rent", {e}))
    BY <1>n DEF LetChecked, Watched
  <2> QED BY <1>6, <1>k, <2>1 DEF RemoveEstate, Rent
<1>7. ASSUME NEW b, NEW reps, NEW places, PublishBuilding(c, b, reps, places) PROVE LetInv'
  <2> DEFINE units == Found(Units(b)) \ let
             next == [Reading("publishBuilding", units) EXCEPT !.todo = reps, !.places = places]
  <2>1. units \in SUBSET Estates /\ units \cap let = {}
    BY DEF Found, Units
  <2>2. Begin(c, next)
    BY <1>7 DEF PublishBuilding
  <2> HIDE DEF units
  <2>3. next.op = "publishBuilding" /\ next.units = units
    BY <2>1, ReadingFields
  <2> HIDE DEF next
  <2>4. LetChecked(next)
    BY <2>1, <2>3 DEF LetChecked, Watched
  <2> QED BY <1>k, <2>2, <2>4
<1>8. ASSUME NEW op \in {"unpublishBuilding", "deactivateBuilding"}, NEW b, LeaveMarket(c, op, b)
      PROVE  LetInv'
  <2>1. LetChecked(NewCall(op, Found(Units(b))))
    BY <1>8, <1>n DEF LeaveMarket, Accepts, LetChecked, Watched
  <2> QED BY <1>8, <1>k, <2>1 DEF LeaveMarket
<1>9. ASSUME NEW e \in Estates, Unpublish(c, e) \/ Deactivate(c, e) \/ OffMarketPublish(c, e) PROVE LetInv'
  BY <1>5, <1>9 DEF Unpublish, Deactivate, OffMarketPublish
<1> QED BY <1>1, <1>2, <1>3, <1>4, <1>6, <1>7, <1>8, <1>9

\* An operation of one statement finds no call in flight.
LEMMA LetServed ==
    ASSUME TypeOK, LetInv, OneCall,
           \/ DeactivateLandlord
           \/ \E e \in Estates : Extend(e) \/ UpdateEstate(e) \/ DeleteEstates(e) \/ NotAvailable(e)
           \/ \E b \in Buildings : UpdateBuilding(b)
    PROVE  LetInv'
<1>1. ASSUME NEW op, Served(op) PROVE UNCHANGED call /\ \A c \in Calls : call'[c] = Idle
  BY <1>1 DEF Served, OneCall
<1>2. ASSUME NEW op, Served(op), LetRows' PROVE LetInv'
  BY <1>1, <1>2 DEF LetInv
<1>t. let \subseteq Estates /\ estate \in [Estates -> EstateRow] /\ LetRows
  BY DEF LetInv, TypeOK
<1>3. CASE DeactivateLandlord
  <2>1. LetRows'
    BY <1>3, <1>t DEF DeactivateLandlord, LetRows
  <2> QED BY <1>2, <1>3, <2>1 DEF DeactivateLandlord
<1>4. ASSUME NEW e \in Estates, Extend(e) PROVE LetInv'
  <2>1. LetRows'
    BY <1>4, <1>t DEF Extend, LetRows
  <2> QED BY <1>2, <1>4, <2>1 DEF Extend
<1>5. ASSUME NEW e \in Estates, UpdateEstate(e) PROVE LetInv'
  <2>1. \A d \in let : estate'[d] = estate[d]
    BY <1>5, <1>t DEF UpdateEstate, BeforeUpdate, LetRows
  <2>2. LetRows'
    BY <1>5, <1>t, <2>1 DEF UpdateEstate, LetRows
  <2> QED BY <1>2, <1>5, <2>2 DEF UpdateEstate
<1>6. ASSUME NEW e \in Estates, DeleteEstates(e) PROVE LetInv'
  <2>1. \A d \in Estates : estate'[d].pub = estate[d].pub /\ estate'[d].status \in {estate[d].status, "deleted"}
    BY <1>6, <1>t DEF DeleteEstates, EstateRow
  <2>2. LetRows'
    BY <1>6, <1>t, <2>1 DEF DeleteEstates, LetRows
  <2> QED BY <1>2, <1>6, <2>2 DEF DeleteEstates
<1>7. ASSUME NEW e \in Estates, NotAvailable(e) PROVE LetInv'
  <2>1. LetRows'
    BY <1>7, <1>t DEF NotAvailable, LetRows
  <2> QED BY <1>2, <1>7, <2>1 DEF NotAvailable
<1>8. ASSUME NEW b \in Buildings, UpdateBuilding(b) PROVE LetInv'
  <2>1. \A d \in Estates : House[d] = b => House[d] # None
    BY MarketAssumption
  <2>2. \A d \in Estates : \/ estate'[d] = estate[d]
                           \/ House[d] # None /\ estate'[d].status = "draft" /\ estate'[d].pub = estate[d].pub
    BY <1>8, <1>t, <2>1 DEF UpdateBuilding, Found, Units, EstateRow
  <2>3. UNCHANGED let
    BY <1>8 DEF UpdateBuilding
  <2>4. LetRows'
    BY <1>t, <2>2, <2>3 DEF LetRows
  <2> QED BY <1>2, <1>8, <2>4 DEF UpdateBuilding
<1> QED BY <1>3, <1>4, <1>5, <1>6, <1>7, <1>8

\* What a call stores.
LEMMA LetStores ==
    ASSUME TypeOK, LetInv, OneCall, "unpublishBuilding" \notin Endpoints, NEW c \in Calls,
           \/ StoreRequest(c) \/ QueuePost(c) \/ StorePublish(c)
           \/ QueueUnpublish(c) \/ HandleOffline(c) \/ HandleToExpire(c)
           \/ \E e \in Estates :
                 \/ StoreApprove(c, e) \/ StoreDecline(c, e) \/ StoreUnpublish(c, e)
                 \/ StoreDeactivate(c, e) \/ StoreOffMarket(c, e)
                 \/ StoreRemove(c, e) \/ StoreRent(c, e)
           \/ \E b \in Buildings :
                 \/ StorePublishBuilding(c, b)
                 \/ StoreUnpublishBuilding(c, b) \/ StoreDeactivateBuilding(c, b)
    PROVE  LetInv'
<1>t. /\ let \subseteq Estates /\ estate \in [Estates -> EstateRow] /\ LetRows
      /\ call[c] # Idle => LetChecked(call[c])
  BY DEF LetInv, TypeOK
<1>e. ASSUME Ends(c), LetRows' PROVE LetInv'
  BY <1>e, OneEnds DEF LetInv
<1>f. call[c] # Idle =>
         /\ \A op : [call[c] EXCEPT !.op = op].op = op
         /\ \A op : [call[c] EXCEPT !.op = op].units = call[c].units
         /\ \A op : [call[c] EXCEPT !.op = op].seen = call[c].seen
         /\ \A op : [call[c] EXCEPT !.op = op].seenLet = call[c].seenLet
  <2>1. call[c] # Idle => call[c] \in Call
    BY CallFields
  <2> QED BY <2>1 DEF Call
<1>w. ASSUME NEW units, NEW row, row.pub # "landlord", row.status \in {"draft", "offline"} \/ units \cap let = {},
             estate' = WithEstates(units, row), UNCHANGED let
      PROVE  LetRows'
  BY <1>t, <1>w DEF WithEstates, LetRows
<1>1. CASE StoreRequest(c)
  <2>1. \A e \in call[c].units : call[c].seen[e] = estate[e] /\ House[e] = None /\ Publishable(e, estate[e])
    BY <1>1, <1>t DEF StoreRequest, Serving, LetChecked, Watched
  <2>2. \A e \in Estates : /\ e \notin call[c].units => estate'[e] = estate[e]
                           /\ e \in call[c].units => estate'[e] = [estate[e] EXCEPT !.pub = "landlord"]
    BY <1>1, <2>1 DEF StoreRequest
  <2>3. ASSUME NEW e \in let, e \in call[c].units
        PROVE  estate'[e].status \in {"offline", "deleted"} /\ House[e] = None
    <3>0. Publishable(e, estate[e]) /\ House[e] = None
      BY <2>1, <2>3
    <3>1. estate[e].status \in {"offline", "deleted"} /\ House[e] = None
      BY <1>t, <2>3, <3>0 DEF Publishable, LetRows
    <3>2. [estate[e] EXCEPT !.pub = "landlord"].status = estate[e].status
      BY <1>t, <2>3 DEF EstateRow
    <3>3. e \in Estates
      BY <1>t
    <3>4. estate'[e].status = estate[e].status
      BY <2>2, <2>3, <3>2, <3>3
    <3> QED BY <3>1, <3>4
  <2>4. UNCHANGED let
    BY <1>1 DEF StoreRequest
  <2>5. LetRows'
    BY <1>t, <2>2, <2>3, <2>4 DEF LetRows
  <2> QED BY <1>1, <1>e, <2>5 DEF StoreRequest
<1>2. CASE QueuePost(c)
  <2>1. \A d \in Calls : call'[d] = [call[c] EXCEPT !.op = "commitPublish"]
    BY <1>2, OneGoes DEF QueuePost
  <2>2. LetChecked([call[c] EXCEPT !.op = "commitPublish"])
    BY <1>2, <1>f, <1>t DEF QueuePost, Serving, LetChecked, Watched
  <2> QED BY <1>2, <2>1, <2>2, LetKept DEF QueuePost
<1>3. CASE QueueUnpublish(c)
  <2>1. \A d \in Calls : call'[d] = [call[c] EXCEPT !.op = "commitUnpublish"]
    BY <1>3, OneGoes DEF QueueUnpublish
  <2>2. LetChecked([call[c] EXCEPT !.op = "commitUnpublish"])
    BY <1>3, <1>f, <1>t DEF QueueUnpublish, Serving, LetChecked, Watched
  <2> QED BY <1>3, <2>1, <2>2, LetKept DEF QueueUnpublish
<1>4. CASE StorePublish(c)
  <2>1. call[c].units \cap let = {}
    BY <1>4, <1>t DEF StorePublish, Serving, LetChecked
  <2>2. LetRows'
    BY <1>4, <1>w, <2>1 DEF StorePublish
  <2> QED BY <1>4, <1>e, <2>2 DEF StorePublish
<1>5. CASE HandleOffline(c)
  BY <1>5, <1>e, <1>t DEF HandleOffline, LetRows
<1>6. CASE HandleToExpire(c)
  <2>1. LetRows'
    BY <1>6, <1>w DEF HandleToExpire, Draft
  <2> QED BY <1>6, <1>e, <2>1 DEF HandleToExpire
<1>7. ASSUME NEW e \in Estates, StoreApprove(c, e) PROVE LetInv'
  <2>1. {e} \cap let = {}
    BY <1>7, <1>t DEF StoreApprove, Serving, LetChecked
  <2>2. LetRows'
    BY <1>7, <1>w, <2>1 DEF StoreApprove
  <2> QED BY <1>7, <1>e, <2>2 DEF StoreApprove
<1>8. ASSUME NEW e \in Estates, StoreDecline(c, e) PROVE LetInv'
  <2>1. LetRows'
    BY <1>8, <1>w DEF StoreDecline
  <2> QED BY <1>8, <1>e, <2>1 DEF StoreDecline
\* Who saves an estate that is let makes a draft of it, or takes it offline.
<1>s. ASSUME NEW e \in Estates, NEW row, call[c] # Idle, call[c].op \in Watched \ {"request"},
             e \in call[c].units, row.pub = "init",
             row.status \in {"expire", "draft", "offline"},
             estate' = [estate EXCEPT ![e] = Saved(c, e, row)], UNCHANGED let
      PROVE  LetRows'
  <2> DEFINE new == BeforeUpdate(e \in call[c].seenLet, row)
  <2>1. call[c].seen[e] = estate[e] /\ (e \in call[c].seenLet <=> e \in let)
    BY <1>s, <1>t DEF LetChecked
  <2>2. e \in let => new.status \in {"draft", "offline"} /\ new.pub = "init"
    BY <1>s, <2>1 DEF BeforeUpdate, Draft
  <2>3. Saved(c, e, row).status = new.status /\ Saved(c, e, row).pub = new.pub
    BY <2>1 DEF Saved
  <2> HIDE DEF new
  <2>4. e \in let => estate'[e].status \in {"draft", "offline"} /\ estate'[e].pub = "init"
    BY <1>s, <1>t, <2>2, <2>3
  <2>5. \A d \in let : d # e => estate'[d] = estate[d]
    BY <1>s, <1>t
  <2> QED BY <1>s, <1>t, <2>4, <2>5 DEF LetRows
<1>9. ASSUME NEW e \in Estates, StoreUnpublish(c, e) PROVE LetInv'
  <2> DEFINE row == [status |-> "expire", pub |-> "init"]
  <2>r. row.pub = "init" /\ row.status = "expire"
    OBVIOUS
  <2>s. /\ call[c] # Idle /\ call[c].op \in Watched \ {"request"} /\ e \in call[c].units
        /\ estate' = [estate EXCEPT ![e] = Saved(c, e, row)] /\ UNCHANGED let
    BY <1>9 DEF StoreUnpublish, Serving, Watched
  <2> HIDE DEF row
  <2>1. LetRows'
    BY <1>s, <2>r, <2>s
  <2> QED BY <1>9, <1>e, <2>1 DEF StoreUnpublish
<1>10. ASSUME NEW e \in Estates, StoreDeactivate(c, e) PROVE LetInv'
  <2> DEFINE row == Draft
  <2>r. row.pub = "init" /\ row.status = "draft"
    BY DEF Draft
  <2>s. /\ call[c] # Idle /\ call[c].op \in Watched \ {"request"} /\ e \in call[c].units
        /\ estate' = [estate EXCEPT ![e] = Saved(c, e, row)] /\ UNCHANGED let
    BY <1>10 DEF StoreDeactivate, Serving, Watched
  <2> HIDE DEF row
  <2>1. LetRows'
    BY <1>s, <2>r, <2>s
  <2>2. \A d \in Calls : call'[d] = [call[c] EXCEPT !.op = "goneOffline"]
    BY <1>10, OneGoes DEF StoreDeactivate
  <2>3. \A d \in Calls : call'[d].op = "goneOffline"
    BY <1>10, <1>f, <2>2 DEF StoreDeactivate, Serving
  <2>4. \A d \in Calls : LetChecked(call[d])'
    BY <2>3 DEF LetChecked, Watched
  <2> QED BY <2>1, <2>4 DEF LetInv
<1>11. ASSUME NEW e \in Estates, StoreOffMarket(c, e) PROVE LetInv'
  <2> DEFINE row == [status |-> "offline", pub |-> "init"]
  <2>r. row.pub = "init" /\ row.status = "offline"
    OBVIOUS
  <2>s. /\ call[c] # Idle /\ call[c].op \in Watched \ {"request"} /\ e \in call[c].units
        /\ estate' = [estate EXCEPT ![e] = Saved(c, e, row)] /\ UNCHANGED let
    BY <1>11 DEF StoreOffMarket, Serving, Watched
  <2> HIDE DEF row
  <2>1. LetRows'
    BY <1>s, <2>r, <2>s
  <2> QED BY <1>11, <1>e, <2>1 DEF StoreOffMarket
<1>12. ASSUME NEW e \in Estates, StoreRemove(c, e) PROVE LetInv'
  <2>1. \A d \in Estates : estate'[d].pub = estate[d].pub /\ estate'[d].status \in {estate[d].status, "deleted"}
    BY <1>12, <1>t DEF StoreRemove, EstateRow
  <2>2. LetRows'
    BY <1>12, <1>t, <2>1 DEF StoreRemove, LetRows
  <2> QED BY <1>12, <1>e, <2>2 DEF StoreRemove
<1>13. ASSUME NEW e \in Estates, StoreRent(c, e) PROVE LetInv'
  <2>1. \A d \in Estates : IF d = e THEN estate'[d] = Draft ELSE estate'[d] = estate[d]
    BY <1>13 DEF StoreRent, WithEstates
  <2>2. LetRows'
    BY <1>13, <1>t, <2>1 DEF StoreRent, LetRows, Draft
  <2> QED BY <1>13, <1>e, <2>2 DEF StoreRent
<1>14. ASSUME NEW b \in Buildings, StorePublishBuilding(c, b) PROVE LetInv'
  <2>1. call[c].units \cap let = {}
    BY <1>14, <1>t DEF StorePublishBuilding, Serving, LetChecked
  <2>2. \A e \in let : estate'[e] = estate[e]
    BY <1>14, <1>t, <2>1 DEF StorePublishBuilding
  <2>3. LetRows'
    BY <1>14, <1>t, <2>2 DEF StorePublishBuilding, LetRows
  <2> QED BY <1>14, <1>e, <2>3 DEF StorePublishBuilding
<1>15. ASSUME NEW b \in Buildings, StoreDeactivateBuilding(c, b) PROVE LetInv'
  <2>1. LetRows'
    BY <1>15, <1>w DEF StoreDeactivateBuilding, StoreLeave, Draft
  <2> QED BY <1>15, <1>e, <2>1 DEF StoreDeactivateBuilding, StoreLeave
<1> QED
  BY <1>1, <1>2, <1>3, <1>4, <1>5, <1>6, <1>7, <1>8, <1>9, <1>10, <1>11, <1>12, <1>13, <1>14, <1>15, <1>t
     DEF StoreUnpublishBuilding, Serving, LetChecked

\* With one call in flight at a time, and without unpublishBuilding (which gives
\* every unit of the building a status, the let ones too), no estate that is let is
\* on the market, for any estates and buildings.
THEOREM LetStaysOffline ==
    ASSUME OneCall, "unpublishBuilding" \notin Endpoints
    PROVE  Spec => []LetIsOffline
<1>1. Init => LetInv
  BY DEF Init, LetInv, LetRows
<1>2. ASSUME TypeOK, LetInv, [Next]_marketVars PROVE LetInv'
  <2>1. CASE UNCHANGED marketVars
    BY <1>2, <2>1, LetKept DEF marketVars, marketTables
  <2>2. CASE PublicationNext
    BY <1>2, <2>2, LetBegins, LetServed, LetStores DEF PublicationNext
  <2>3. CASE ListingsNext
    BY <1>2, <2>3, LetListings
  <2> QED BY <1>2, <2>1, <2>2, <2>3 DEF Next
<1>3. LetInv => LetIsOffline
  BY DEF LetInv, LetRows, LetIsOffline
<1> QED BY <1>1, <1>2, <1>3, MarketTypes, PTL DEF Spec

-----------------------------------------------------------------------------
\* A row names nothing but its own listing, with one call in flight at a time.

\* The worker of a job posts one estate, whose rows are not posted yet; the webhook
\* about a property has read rows of that property.
NameChecked(k) ==
    /\ k.op = "post" =>
          /\ \A d, e \in k.units : d = e
          /\ \A r \in RowsOf(k.units) : listing[r].prop = None \/ listing[r].status = "deleted"
          /\ k.prop # None => \A e \in k.units : property[k.prop].estate = e
    /\ k.op = "process" =>
          /\ k.prop # None
          /\ \A r \in RowsOf(k.units) :
                r[2] \in k.places \/ (\E o \in Offers : <<r[2], o>> \in k.posted) => listing[r].prop = k.prop
          /\ \A x \in k.posted : offer[x[2]].publisher = x[1] /\ offer[x[2]].prop = k.prop

\* The rows of a property are those of its estate.
RowsOfEstates ==
    \A r \in Rows : listing[r].prop # None => property[listing[r].prop].estate = r[1]

RowNames ==
    \A r \in Rows : listing[r].remote # None =>
        /\ listing[r].prop # None
        /\ offer[listing[r].remote].publisher = r[2]
        /\ offer[listing[r].remote].prop = listing[r].prop

NameInv ==
    /\ RowNames /\ RowsOfEstates
    /\ \A c \in Calls : call[c] # Idle => NameChecked(call[c])

\* A row keeps what it names, or forgets the listing or both.
NamesKept ==
    \A r \in Rows : \/ /\ listing'[r].prop = listing[r].prop
                       /\ listing'[r].remote \in {listing[r].remote, None}
                    \/ listing'[r].prop = None /\ listing'[r].remote = None

\* What EstateSync has given stays what it is.
GivenKept ==
    /\ \A p \in Props : property[p].estate # None => property'[p].estate = property[p].estate
    /\ \A o \in Offers : offer[o].prop # None =>
          offer'[o].prop = offer[o].prop /\ offer'[o].publisher = offer[o].publisher

LEMMA SameKept == (UNCHANGED listing => NamesKept) /\ (UNCHANGED <<property, offer>> => GivenKept)
BY DEF NamesKept, GivenKept

LEMMA NamesStay ==
    ASSUME TypeOK, RowNames, RowsOfEstates, NamesKept, GivenKept
    PROVE  RowNames' /\ RowsOfEstates'
<1>t. listing \in [Rows -> Listing] /\ \A r \in Rows : r[1] \in Estates
  BY DEF TypeOK, Rows
<1>f. \A r \in Rows : listing[r].prop \in Props \cup {None} /\ listing[r].remote \in Offers \cup {None}
  BY <1>t DEF Listing
<1>n. \A e \in Estates : e # None
  BY MarketAssumption
<1>1. RowNames'
  <2>1. ASSUME NEW r \in Rows, listing'[r].remote # None
        PROVE  /\ listing'[r].prop # None
               /\ offer'[listing'[r].remote].publisher = r[2]
               /\ offer'[listing'[r].remote].prop = listing'[r].prop
    <3>1. listing'[r].prop = listing[r].prop /\ listing'[r].remote = listing[r].remote
      BY <2>1 DEF NamesKept
    <3>2. listing[r].remote \in Offers /\ listing[r].prop # None /\ offer[listing[r].remote].publisher = r[2]
          /\ offer[listing[r].remote].prop = listing[r].prop
      BY <1>f, <2>1, <3>1 DEF RowNames
    <3> QED BY <3>1, <3>2 DEF GivenKept
  <2> QED BY <2>1 DEF RowNames
<1>2. RowsOfEstates'
  <2>1. ASSUME NEW r \in Rows, listing'[r].prop # None
        PROVE  property'[listing'[r].prop].estate = r[1]
    <3>1. listing'[r].prop = listing[r].prop
      BY <2>1 DEF NamesKept
    <3>2. listing[r].prop \in Props /\ property[listing[r].prop].estate = r[1]
      BY <1>f, <2>1, <3>1 DEF RowsOfEstates
    <3> QED BY <1>n, <1>t, <3>1, <3>2 DEF GivenKept
  <2> QED BY <2>1 DEF RowsOfEstates
<1> QED BY <1>1, <1>2

LEMMA WithListingsKeep ==
    ASSUME TypeOK, NEW rows, NEW s, listing' = WithListings(rows, s)
    PROVE  NamesKept
<1>1. \A row \in Listing : [row EXCEPT !.status = s].prop = row.prop /\ [row EXCEPT !.status = s].remote = row.remote
  BY DEF Listing
<1>2. \A r \in Rows : listing[r] \in Listing
  BY DEF TypeOK
<1> QED BY <1>1, <1>2 DEF WithListings, NamesKept

LEMMA ClosedNames ==
    ASSUME NEW row \in Listing
    PROVE  \/ Closed(row).prop = row.prop /\ Closed(row).remote = row.remote
           \/ Closed(row).prop = None /\ Closed(row).remote = None
BY DEF Closed, Listing

LEMMA MarketPlacesKeep ==
    ASSUME TypeOK, NEW units, NEW places, listing' = WithMarketPlaces(units, places)
    PROVE  NamesKept
<1>1. LET new == [NoListing EXCEPT !.status = "initialized"] IN new.prop = None /\ new.remote = None
  BY DEF NoListing
<1>2. \A r \in Rows : listing[r] \in Listing
  BY DEF TypeOK
<1>3. \A r \in Rows : \/ listing'[r] = listing[r] \/ listing'[r] = Closed(listing[r])
                      \/ listing'[r] = [NoListing EXCEPT !.status = "initialized"]
  BY DEF WithMarketPlaces
<1> QED BY <1>1, <1>2, <1>3, ClosedNames DEF NamesKept

\* The kinds of calls of the publication.
LEMMA PublicationKinds ==
    ASSUME TypeOK, OneCall, PublicationNext
    PROVE  \A d \in Calls : call'[d] = Idle \/ call'[d].op \notin {"post", "process", "exhaust", "withdraw"}
<1> DEFINE Others == {"post", "process", "exhaust", "withdraw"}
           Done == \A d \in Calls : call'[d] = Idle \/ call'[d].op \notin Others
<1>g. ASSUME NEW c \in Calls, NEW next, next.op \notin Others, Goes(c, next) PROVE Done
  BY <1>g, OneGoes
<1>b. ASSUME NEW c \in Calls, NEW next, next.op \notin Others, Begin(c, next) PROVE Done
  BY <1>b, <1>g DEF Begin
<1>s. ASSUME NEW op, Served(op) PROVE Done
  BY <1>s DEF Served, OneCall
<1>e. ASSUME NEW c \in Calls, Ends(c) PROVE Done
  BY <1>e, OneEnds
<1>n. ASSUME NEW op, NEW units
      PROVE  /\ NewCall(op, units).op = op /\ Reading(op, units).op = op
             /\ \A v : [NewCall(op, units) EXCEPT !.places = v].op = op
             /\ \A v : [NewCall(op, units) EXCEPT !.todo = v].op = op
             /\ \A v : [Reading(op, units) EXCEPT !.places = v].op = op
             /\ \A v, w : [Reading(op, units) EXCEPT !.todo = v, !.places = w].op = op
  BY DEF NewCall, Reading
<1>1. CASE \/ DeactivateLandlord
           \/ \E e \in Estates : Extend(e) \/ UpdateEstate(e) \/ DeleteEstates(e) \/ NotAvailable(e)
           \/ \E b \in Buildings : UpdateBuilding(b)
  BY <1>1, <1>s DEF DeactivateLandlord, Extend, UpdateEstate, DeleteEstates, NotAvailable, UpdateBuilding
<1>2. ASSUME NEW c \in Calls,
             \/ StoreRequest(c) \/ StorePublish(c) \/ HandleOffline(c) \/ HandleToExpire(c)
             \/ \E e \in Estates : \/ StoreApprove(c, e) \/ StoreDecline(c, e) \/ StoreUnpublish(c, e)
                                   \/ StoreOffMarket(c, e) \/ StoreRemove(c, e) \/ StoreRent(c, e)
             \/ \E b \in Buildings : \/ StorePublishBuilding(c, b)
                                     \/ StoreUnpublishBuilding(c, b) \/ StoreDeactivateBuilding(c, b)
      PROVE  Done
  BY <1>2, <1>e DEF StoreRequest, StorePublish, HandleOffline, HandleToExpire, StoreApprove, StoreDecline,
     StoreUnpublish, StoreOffMarket, StoreRemove, StoreRent, StorePublishBuilding, StoreUnpublishBuilding,
     StoreDeactivateBuilding, StoreLeave
<1>3. ASSUME NEW c \in Calls, NEW op \in {"commitPublish", "commitUnpublish", "goneOffline"},
             call[c] # Idle, Goes(c, [call[c] EXCEPT !.op = op])
      PROVE  Done
  <2>1. call[c] \in Call
    BY <1>3, CallFields
  <2>2. [call[c] EXCEPT !.op = op].op = op
    BY <2>1 DEF Call
  <2> QED BY <1>3, <1>g, <2>2
<1>4. ASSUME NEW c \in Calls, QueuePost(c) \/ QueueUnpublish(c) \/ (\E e \in Estates : StoreDeactivate(c, e))
      PROVE  Done
  BY <1>3, <1>4 DEF QueuePost, QueueUnpublish, StoreDeactivate, Serving
<1>5. ASSUME NEW c \in Calls, NEW e,
             \/ \E places : Request(c, e, places) \/ Publish(c, e, places)
      PROVE  Done
  <2>1. ASSUME NEW v PROVE [Reading("request", {e}) EXCEPT !.places = v].op \notin Others
    BY <1>n
  <2>2. ASSUME NEW v PROVE [NewCall("publish", {e}) EXCEPT !.places = v].op \notin Others
    BY <1>n
  <2>3. \/ \E v : Begin(c, [Reading("request", {e}) EXCEPT !.places = v])
        \/ \E v : Begin(c, [NewCall("publish", {e}) EXCEPT !.places = v])
    BY <1>5 DEF Request, Publish
  <2> QED BY <1>b, <2>1, <2>2, <2>3
<1>6. ASSUME NEW c \in Calls, NEW e, NEW answer,
             \/ Review(c, answer, e) \/ Unpublish(c, e) \/ Deactivate(c, e) \/ OffMarketPublish(c, e)
             \/ Rent(c, e) \/ FindExpired(c, e)
      PROVE  Done
  <2>1. \A units : \A op \in {"approve", "decline", "rent", "expire"} : NewCall(op, units).op \notin Others
    BY <1>n
  <2>2. \A units : \A op \in {"unpublish", "deactivate", "offMarket"} : Reading(op, units).op \notin Others
    BY <1>n
  <2> QED BY <1>6, <1>b, <2>1, <2>2 DEF Review, Unpublish, Deactivate, OffMarketPublish, Rent, FindExpired
<1>7. ASSUME NEW c \in Calls, NEW e, RemoveEstate(c, e) PROVE Done
  <2>1. [NewCall("remove", {e}) EXCEPT !.todo = {e}].op \notin Others
    BY <1>n
  <2> QED BY <1>7, <1>b, <2>1 DEF RemoveEstate
<1>8. ASSUME NEW c \in Calls, NEW b, NEW reps, NEW places, PublishBuilding(c, b, reps, places) PROVE Done
  <2>1. PICK units : Begin(c, [Reading("publishBuilding", units) EXCEPT !.todo = reps, !.places = places])
    BY <1>8 DEF PublishBuilding
  <2>2. [Reading("publishBuilding", units) EXCEPT !.todo = reps, !.places = places].op \notin Others
    BY <1>n
  <2> QED BY <1>b, <2>1, <2>2
<1>9. ASSUME NEW c \in Calls, NEW b, NEW op \in {"unpublishBuilding", "deactivateBuilding"}, LeaveMarket(c, op, b)
      PROVE  Done
  <2>1. \A units : NewCall(op, units).op \notin Others
    BY <1>n
  <2> QED BY <1>9, <1>b, <2>1 DEF LeaveMarket
<1> QED BY <1>1, <1>2, <1>4, <1>5, <1>6, <1>7, <1>8, <1>9 DEF PublicationNext

\* The publication forgets names, but gives none.
LEMMA PublicationNames ==
    ASSUME TypeOK, PublicationNext
    PROVE  NamesKept /\ UNCHANGED remoteVars
<1>m. (\E units, places : listing' = WithMarketPlaces(units, places)) => NamesKept
  BY MarketPlacesKeep
<1>l. (\E rows, s : listing' = WithListings(rows, s)) => NamesKept
  BY WithListingsKeep
<1>1. CASE \/ DeactivateLandlord
           \/ \E e \in Estates : Extend(e) \/ UpdateEstate(e) \/ DeleteEstates(e) \/ NotAvailable(e)
           \/ \E b \in Buildings : UpdateBuilding(b)
  BY <1>1, SameKept DEF DeactivateLandlord, Extend, UpdateEstate, DeleteEstates, NotAvailable, UpdateBuilding
<1>2. ASSUME NEW c \in Calls, StoreRequest(c) \/ StorePublish(c) \/ (\E b \in Buildings : StorePublishBuilding(c, b))
      PROVE  NamesKept /\ UNCHANGED remoteVars
  BY <1>2, <1>m DEF StoreRequest, StorePublish, StorePublishBuilding
<1>3. ASSUME NEW c \in Calls,
             \/ HandleOffline(c) \/ (\E e \in Estates : StoreDecline(c, e) \/ StoreUnpublish(c, e))
             \/ \E b \in Buildings : StoreUnpublishBuilding(c, b) \/ StoreDeactivateBuilding(c, b)
      PROVE  NamesKept /\ UNCHANGED remoteVars
  BY <1>3, <1>l DEF HandleOffline, StoreDecline, StoreUnpublish, StoreUnpublishBuilding,
     StoreDeactivateBuilding, StoreLeave
<1>4. ASSUME NEW c \in Calls,
             \/ QueuePost(c) \/ QueueUnpublish(c) \/ HandleToExpire(c)
             \/ \E e \in Estates : \/ StoreApprove(c, e) \/ StoreDeactivate(c, e) \/ StoreOffMarket(c, e)
                                   \/ StoreRemove(c, e) \/ StoreRent(c, e)
      PROVE  NamesKept /\ UNCHANGED remoteVars
  BY <1>4, SameKept DEF QueuePost, QueueUnpublish, HandleToExpire, StoreApprove, StoreDeactivate,
     StoreOffMarket, StoreRemove, StoreRent
<1>5. ASSUME NEW c, NEW next, Begin(c, next) PROVE NamesKept /\ UNCHANGED remoteVars
  BY <1>5, SameKept DEF Begin, marketTables
<1>6. ASSUME NEW c \in Calls,
             \/ \E due \in SUBSET Estates : FindExpired(c, due)
             \/ \E e \in Estates :
                   \/ \E places \in SUBSET Publishers : Request(c, e, places) \/ Publish(c, e, places)
                   \/ \E answer \in {"approve", "decline"} : Review(c, answer, e)
                   \/ Unpublish(c, e) \/ Deactivate(c, e) \/ OffMarketPublish(c, e)
                   \/ RemoveEstate(c, e) \/ Rent(c, e)
             \/ \E b \in Buildings :
                   \/ \E reps \in SUBSET Estates, places \in SUBSET Publishers :
                         PublishBuilding(c, b, reps, places)
                   \/ \E op \in {"unpublishBuilding", "deactivateBuilding"} : LeaveMarket(c, op, b)
      PROVE  NamesKept /\ UNCHANGED remoteVars
  BY <1>5, <1>6 DEF FindExpired, Request, Publish, Review, Unpublish, Deactivate, OffMarketPublish,
     RemoveEstate, Rent, PublishBuilding, LeaveMarket
<1> QED BY <1>1, <1>2, <1>3, <1>4, <1>6 DEF PublicationNext

LEMMA DeleteOffersKeep ==
    ASSUME TypeOK, NEW gone, NEW others, DeleteOffers(gone, others)
    PROVE  \A o \in Offers : offer'[o].prop = offer[o].prop /\ offer'[o].publisher = offer[o].publisher
<1> DEFINE live == {o \in gone : offer[o].live}
<1>1. PICK reports \in [live -> Outcome] :
           offer' = [o \in Offers |->
               IF o \notin live THEN offer[o]
               ELSE IF reports[o] = "withdrawn" THEN [offer[o] EXCEPT !.live = FALSE]
               ELSE [offer[o] EXCEPT !.kept = TRUE]]
  BY DEF DeleteOffers
<1>2. \A row \in Offer : /\ [row EXCEPT !.live = FALSE].prop = row.prop
                         /\ [row EXCEPT !.live = FALSE].publisher = row.publisher
                         /\ [row EXCEPT !.kept = TRUE].prop = row.prop
                         /\ [row EXCEPT !.kept = TRUE].publisher = row.publisher
  BY DEF Offer
<1>3. \A o \in Offers : offer[o] \in Offer
  BY DEF TypeOK
<1> HIDE DEF live
<1> QED BY <1>1, <1>2, <1>3

LEMMA WithoutRemoteKeeps ==
    ASSUME TypeOK, NEW rows, listing' = WithoutRemote(rows)
    PROVE  NamesKept
<1>1. \A row \in Listing : [row EXCEPT !.remote = None].prop = row.prop /\ [row EXCEPT !.remote = None].remote = None
  BY DEF Listing
<1>2. \A r \in Rows : listing[r] \in Listing
  BY DEF TypeOK
<1> QED BY <1>1, <1>2 DEF WithoutRemote, NamesKept

LEMMA DeletePropertyKeeps ==
    ASSUME TypeOK, NEW p, DeleteProperty(p)
    PROVE  \A q \in Props : property'[q].estate = property[q].estate
<1>1. \A row \in Property : [row EXCEPT !.live = FALSE].estate = row.estate
  BY DEF Property
<1>2. \A q \in Props : property[q] \in Property
  BY DEF TypeOK
<1> QED BY <1>1, <1>2 DEF DeleteProperty

LEMMA OneGoesOn ==
    ASSUME TypeOK, OneCall, NEW c \in Calls, NEW next, GoesOn(c, next)
    PROVE  \A d \in Calls : call'[d] = Idle \/ call'[d] = next
BY OneGoes DEF GoesOn

LEMMA WithdrawnKinds ==
    ASSUME TypeOK, OneCall, NEW c \in Calls, NEW e, Withdrawing(c, e), Withdrawn(c, e)
    PROVE  \A d \in Calls : call'[d] = Idle \/ call'[d].op \in {"withdraw", "remove"}
<1> DEFINE next == [call[c] EXCEPT !.todo = @ \ {e}]
<1>1. call[c] \in Call /\ call[c].op \in {"withdraw", "remove"}
  BY CallFields DEF Withdrawing, Serving
<1>2. next.op = call[c].op
  BY <1>1 DEF Call
<1>3. \A d \in Calls : call'[d] = Idle \/ call'[d] = next
  <2>1. Goes(c, next) \/ GoesOn(c, next)
    BY DEF Withdrawn
  <2> HIDE DEF next
  <2> QED BY <2>1, OneGoes, OneGoesOn
<1> QED BY <1>1, <1>2, <1>3

LEMMA ListingsNames ==
    ASSUME TypeOK, OneCall, NameInv, ListingsNext
    PROVE  NameInv'
<1> DEFINE Plain == \A d \in Calls : call'[d] = Idle \/ call'[d].op \notin {"post", "process"}
<1>t. /\ listing \in [Rows -> Listing] /\ \A r \in Rows : listing[r] \in Listing
      /\ property \in [Props -> Property] /\ offer \in [Offers -> Offer]
      /\ hooks \subseteq PropertyHooks \cup OfferHooks
  BY DEF TypeOK
<1>i. /\ RowNames /\ RowsOfEstates
      /\ \A c \in Calls : call[c] # Idle => NameChecked(call[c])
  BY DEF NameInv
<1>k. ASSUME NamesKept, GivenKept, Plain PROVE NameInv'
  <2>1. RowNames' /\ RowsOfEstates'
    BY <1>i, <1>k, NamesStay
  <2>2. \A d \in Calls : call'[d] # Idle => NameChecked(call[d])'
    BY <1>k DEF NameChecked
  <2> QED BY <2>1, <2>2 DEF NameInv
<1>p. ASSUME \A o \in Offers : offer'[o].prop = offer[o].prop /\ offer'[o].publisher = offer[o].publisher,
             \A q \in Props : property'[q].estate = property[q].estate
      PROVE  GivenKept
  BY <1>p DEF GivenKept
<1>n. ASSUME NEW op, NEW units
      PROVE  /\ \A v : [NewCall(op, units) EXCEPT !.todo = v].op = op
             /\ \A v : [NewCall(op, units) EXCEPT !.prop = v].op = op
  BY DEF NewCall
<1>1. ASSUME NEW c \in Calls, StorePosted(c) PROVE NameInv'
  <2>1. /\ call[c].op = "post" /\ call[c].prop # None /\ NameChecked(call[c])
        /\ call[c].units \in SUBSET Estates /\ call[c].prop \in Props
    BY <1>1, <1>i, CallFields DEF StorePosted, Serving
  <2>2. PICK p \in Props : p = call[c].prop
    BY <2>1
  <2>3. \A r \in ToDelete(call[c].units) : r \in Rows /\ listing[r].prop = None /\ listing[r].remote = None
                                           /\ property[p].estate = r[1]
    <3>1. ASSUME NEW r \in ToDelete(call[c].units)
          PROVE  r \in RowsOf(call[c].units) /\ listing[r].status # "deleted" /\ r[1] \in call[c].units
      BY DEF ToDelete, RowsOf
    <3>2. ASSUME NEW r \in ToDelete(call[c].units) PROVE r \in Rows
      BY <2>1 DEF ToDelete, RowsOf, Rows
    <3>3. ASSUME NEW r \in ToDelete(call[c].units)
          PROVE  listing[r].prop = None /\ property[p].estate = r[1]
      BY <2>1, <2>2, <3>1 DEF NameChecked
    <3> QED BY <1>i, <3>2, <3>3 DEF RowNames
  <2>4. \A row \in Listing :
           LET new == [row EXCEPT !.status = "posted", !.prop = p, !.failed = FALSE]
           IN  new.prop = p /\ new.remote = row.remote
    BY DEF Listing
  <2>5. \A r \in Rows : IF r \in ToDelete(call[c].units)
                        THEN listing'[r].prop = p /\ listing'[r].remote = listing[r].remote
                        ELSE listing'[r] = listing[r]
    BY <1>1, <1>t, <2>2, <2>4 DEF StorePosted
  <2>6. UNCHANGED <<property, offer>>
    BY <1>1 DEF StorePosted, remoteVars
  <2>7. RowNames' /\ RowsOfEstates'
    BY <1>i, <2>3, <2>5, <2>6 DEF RowNames, RowsOfEstates
  <2>8. \A d \in Calls : call'[d] = Idle
    BY <1>1, OneEnds DEF StorePosted
  <2> QED BY <2>7, <2>8 DEF NameInv
<1>2. ASSUME NEW c \in Calls, PropertyRefused(c) PROVE NameInv'
  <2>1. \A row \in Listing : [row EXCEPT !.failed = TRUE].prop = row.prop /\ [row EXCEPT !.failed = TRUE].remote = row.remote
    BY DEF Listing
  <2>2. NamesKept
    BY <1>2, <1>t, <2>1 DEF PropertyRefused, NamesKept
  <2> QED BY <1>2, <1>k, <2>2, OneEnds, SameKept DEF PropertyRefused, remoteVars
<1>3. ASSUME NEW c \in Calls, DeleteExhausted(c) PROVE NameInv'
  <2>1. NamesKept
    BY <1>3, WithListingsKeep, SameKept DEF DeleteExhausted
  <2>2. GivenKept
    BY <1>3, <1>p, DeletePropertyKeeps DEF DeleteExhausted
  <2> QED BY <1>3, <1>k, <2>1, <2>2, OneEnds DEF DeleteExhausted
<1>4. ASSUME NEW c \in Calls, NEW job \in jobs, UnpublishMultiple(c, job) PROVE NameInv'
  <2>1. NamesKept
    BY <1>4, WithListingsKeep, SameKept DEF UnpublishMultiple
  <2>2. PICK units : GoesOn(c, [NewCall("withdraw", units) EXCEPT !.todo = units])
    BY <1>4 DEF UnpublishMultiple
  <2>3. [NewCall("withdraw", units) EXCEPT !.todo = units].op = "withdraw"
    BY <1>n
  <2>4. Plain
    BY <2>2, <2>3, OneGoesOn
  <2> QED BY <1>4, <1>k, <2>1, <2>4, SameKept DEF UnpublishMultiple, remoteVars
<1>5. ASSUME NEW c \in Calls, NEW job \in jobs, NEW e \in Estates, PostEstate(c, job, e) PROVE NameInv'
  <2>1. UNCHANGED <<listing, property, offer>>
    BY <1>5 DEF PostEstate, remoteVars
  <2>2. RowNames' /\ RowsOfEstates'
    BY <1>i, <2>1, SameKept, NamesStay
  <2>3. NewCall("post", {e}).op = "post" /\ NewCall("post", {e}).units = {e} /\ NewCall("post", {e}).prop = None
    BY DEF NewCall
  <2>4. ~AlreadyPosted(e) => NameChecked(NewCall("post", {e}))
    BY <2>3 DEF NameChecked, AlreadyPosted
  <2>5. \A d \in Calls : call'[d] = Idle \/ (~AlreadyPosted(e) /\ call'[d] = NewCall("post", {e}))
    BY <1>5, OneGoes DEF PostEstate
  <2>6. \A d \in Calls : call'[d] # Idle => NameChecked(call'[d])
    BY <2>4, <2>5
  <2>7. \A d \in Calls : call'[d] # Idle => NameChecked(call[d])'
    BY <2>1, <2>6 DEF NameChecked
  <2> QED BY <2>2, <2>7 DEF NameInv
<1>6. ASSUME NEW c \in Calls, NEW p \in Props, PropertyPosted(c, p) PROVE NameInv'
  <2>1. PICK k \in Call : k = call[c] /\ k.op = "post" /\ NameChecked(k) /\ k.units \in SUBSET Estates
    BY <1>6, <1>i, CallFields DEF PropertyPosted, Serving
  <2>2. PICK e \in k.units : NewProperty(p, e)
    BY <1>6, <2>1 DEF PropertyPosted
  <2>3. property[p].estate = None /\ property'[p].estate = e /\ \A q \in Props : q # p => property'[q] = property[q]
    BY <1>t, <2>2 DEF NewProperty
  <2>4. UNCHANGED <<listing, offer>>
    BY <1>6 DEF PropertyPosted
  <2>5. GivenKept
    BY <2>3, <2>4 DEF GivenKept
  <2>6. RowNames' /\ RowsOfEstates'
    BY <1>i, <2>4, <2>5, SameKept, NamesStay
  <2>7. [k EXCEPT !.prop = p].op = "post" /\ [k EXCEPT !.prop = p].units = k.units /\ [k EXCEPT !.prop = p].prop = p
    BY <2>1 DEF Call
  <2>8. \A d \in Calls : call'[d] = [k EXCEPT !.prop = p]
    BY <1>6, <2>1, OneGoes DEF PropertyPosted
  <2>9. \A d \in Calls : call'[d].op = "post" /\ call'[d].units = k.units /\ call'[d].prop = p
    BY <2>7, <2>8
  <2>10. \A d, f \in k.units : d = f
    BY <2>1 DEF NameChecked
  <2>11. \A r \in RowsOf(k.units) : listing[r].prop = None \/ listing[r].status = "deleted"
    BY <2>1 DEF NameChecked
  <2>12. \A d \in Calls : NameChecked(call[d])'
    BY <2>3, <2>4, <2>9, <2>10, <2>11 DEF NameChecked
  <2> QED BY <2>6, <2>12 DEF NameInv
<1>r. ASSUME NEW k, k.op = "process", NameChecked(k), GivenKept,
             k.posted \subseteq Publishers \X Offers,
             \A r \in Rows : listing'[r].prop = listing[r].prop,
             NEW next, next.op = "process", next.units = k.units, next.prop = k.prop,
             k.units \subseteq Estates,
             next.places \subseteq k.places, next.posted \subseteq k.posted,
             \A d \in Calls : call'[d] = Idle \/ call'[d] = next
      PROVE  \A d \in Calls : call'[d] # Idle => NameChecked(call[d])'
  <2>1. k.prop # None
    BY <1>r DEF NameChecked
  <2>2. \A r \in RowsOf(k.units) :
           r[2] \in k.places \/ (\E o \in Offers : <<r[2], o>> \in k.posted) => listing'[r].prop = k.prop
    BY <1>r DEF NameChecked, RowsOf, Rows
  <2>3. \A x \in k.posted : offer'[x[2]].publisher = x[1] /\ offer'[x[2]].prop = k.prop
    BY <1>r, <2>1 DEF NameChecked, GivenKept
  <2>4. ASSUME NEW d \in Calls, call'[d] = next PROVE NameChecked(call[d])'
    BY <1>r, <2>1, <2>2, <2>3, <2>4 DEF NameChecked
  <2> QED BY <1>r, <2>4
<1>7. ASSUME NEW c \in Calls, NEW publisher \in Publishers, NEW told \in BOOLEAN,
             ListingRefused(c, publisher, told)
      PROVE  NameInv'
  <2>1. PICK k \in Call : k = call[c] /\ k.op = "process" /\ NameChecked(k)
    BY <1>7, <1>i, CallFields DEF ListingRefused, Serving
  <2>2. NamesKept
    BY <1>7, WithListingsKeep, SameKept DEF ListingRefused
  <2>3. GivenKept
    BY <1>7, SameKept DEF ListingRefused, remoteVars
  <2>4. \A r \in Rows : listing'[r].prop = listing[r].prop
    <3>1. \A row \in Listing : [row EXCEPT !.status = "error"].prop = row.prop
      BY DEF Listing
    <3> QED BY <1>7, <1>t, <3>1 DEF ListingRefused, WithListings
  <2> DEFINE next == [k EXCEPT !.places = @ \ {publisher}]
  <2>5. \A d \in Calls : call'[d] = Idle \/ call'[d] = next
    BY <1>7, <2>1, OneGoesOn DEF ListingRefused
  <2>6. /\ next.op = "process" /\ next.units = k.units /\ next.prop = k.prop
        /\ next.places \subseteq k.places /\ next.posted = k.posted
        /\ k.units \subseteq Estates /\ k.posted \subseteq Publishers \X Offers
    BY <2>1 DEF Call
  <2> HIDE DEF next
  <2>7. \A d \in Calls : call'[d] # Idle => NameChecked(call[d])'
    BY <1>r, <2>1, <2>3, <2>4, <2>5, <2>6
  <2>8. RowNames' /\ RowsOfEstates'
    BY <1>i, <2>2, <2>3, NamesStay
  <2> QED BY <2>7, <2>8 DEF NameInv
<1>8. ASSUME NEW c \in Calls, NEW publisher \in Publishers, NEW o \in Offers, PostListing(c, publisher, o)
      PROVE  NameInv'
  <2>1. PICK k \in Call : k = call[c] /\ k.op = "process" /\ NameChecked(k) /\ publisher \in k.places
    BY <1>8, <1>i, CallFields DEF PostListing, Serving
  <2>2. UNCHANGED <<listing, property>>
    BY <1>8 DEF PostListing
  <2>3. /\ offer[o].prop = None /\ offer'[o].prop = k.prop /\ offer'[o].publisher = publisher
        /\ \A q \in Offers : q # o => offer'[q] = offer[q]
    <3>1. LET new == [NoOffer EXCEPT !.prop = k.prop, !.publisher = publisher, !.live = TRUE]
          IN  new.prop = k.prop /\ new.publisher = publisher
      BY DEF NoOffer
    <3> QED BY <1>8, <1>t, <2>1, <3>1 DEF PostListing, NewOffer
  <2>4. GivenKept
    BY <2>2, <2>3 DEF GivenKept
  <2>5. RowNames' /\ RowsOfEstates'
    BY <1>i, <2>2, <2>4, SameKept, NamesStay
  <2> DEFINE next == [k EXCEPT !.places = @ \ {publisher}, !.posted = @ \cup {<<publisher, o>>}]
  <2>6. \A d \in Calls : call'[d] = next
    BY <1>8, <2>1, OneGoes DEF PostListing
  <2>7. /\ next.op = "process" /\ next.units = k.units /\ next.prop = k.prop
        /\ next.places \subseteq k.places /\ next.posted = k.posted \cup {<<publisher, o>>}
        /\ k.posted \subseteq Publishers \X Offers
    BY <2>1 DEF Call
  <2> HIDE DEF next
  <2>8. k.prop # None
    BY <2>1 DEF NameChecked
  <2>9. \A r \in RowsOf(k.units) :
           r[2] \in k.places \/ (\E q \in Offers : <<r[2], q>> \in k.posted) => listing[r].prop = k.prop
    BY <2>1 DEF NameChecked
  <2>10. \A r \in RowsOf(k.units) :
            r[2] \in next.places \/ (\E q \in Offers : <<r[2], q>> \in next.posted) => listing[r].prop = k.prop
    <3>1. ASSUME NEW r \in RowsOf(k.units), NEW q \in Offers, <<r[2], q>> \in next.posted
          PROVE  r[2] \in k.places \/ <<r[2], q>> \in k.posted
      BY <2>1, <2>7, <3>1
    <3> QED BY <2>7, <2>9, <3>1
  <2>11. \A x \in next.posted : offer'[x[2]].publisher = x[1] /\ offer'[x[2]].prop = k.prop
    <3>1. \A x \in k.posted : offer[x[2]].publisher = x[1] /\ offer[x[2]].prop = k.prop /\ x[2] \in Offers
      BY <2>1, <2>7 DEF NameChecked
    <3>2. \A x \in k.posted : offer'[x[2]].publisher = x[1] /\ offer'[x[2]].prop = k.prop
      BY <2>3, <2>8, <3>1
    <3> QED BY <2>3, <2>7, <3>2
  <2>12. \A d \in Calls : NameChecked(call[d])'
    BY <2>2, <2>6, <2>7, <2>8, <2>10, <2>11 DEF NameChecked
  <2> QED BY <2>5, <2>12 DEF NameInv
<1>9. ASSUME NEW c \in Calls, NEW publisher \in Publishers, NEW o \in Offers, StoreListing(c, publisher, o)
      PROVE  NameInv'
  <2>1. PICK k \in Call : k = call[c] /\ k.op = "process" /\ NameChecked(k) /\ <<publisher, o>> \in k.posted
    BY <1>9, <1>i, CallFields DEF StoreListing, Serving
  <2>2. UNCHANGED <<property, offer>>
    BY <1>9 DEF StoreListing, remoteVars
  <2>3. \A row \in Listing : [row EXCEPT !.remote = o].prop = row.prop /\ [row EXCEPT !.remote = o].remote = o
    BY DEF Listing
  <2>4. \A r \in Rows : IF r \in RowOf(c, publisher) THEN listing'[r].prop = listing[r].prop /\ listing'[r].remote = o
                        ELSE listing'[r] = listing[r]
    BY <1>9, <1>t, <2>3 DEF StoreListing
  <2>5. \A r \in RowOf(c, publisher) : /\ r \in Rows /\ r[2] = publisher /\ listing[r].prop = k.prop
                                       /\ k.prop # None
                                       /\ offer[o].publisher = publisher /\ offer[o].prop = k.prop
    <3>1. ASSUME NEW r \in RowOf(c, publisher) PROVE r \in Rows /\ r[2] = publisher /\ r \in RowsOf(k.units)
      BY <2>1 DEF RowOf, RowsOf, Rows
    <3> QED BY <2>1, <3>1 DEF NameChecked
  <2>6. RowNames' /\ RowsOfEstates'
    BY <1>i, <2>2, <2>4, <2>5 DEF RowNames, RowsOfEstates
  <2> DEFINE next == [k EXCEPT !.posted = @ \ {<<publisher, o>>}]
  <2>7. \A d \in Calls : call'[d] = Idle \/ call'[d] = next
    BY <1>9, <2>1, OneGoesOn DEF StoreListing
  <2>8. /\ next.op = "process" /\ next.units = k.units /\ next.prop = k.prop
        /\ next.places = k.places /\ next.posted \subseteq k.posted
        /\ k.units \subseteq Estates /\ k.posted \subseteq Publishers \X Offers
    BY <2>1 DEF Call
  <2> HIDE DEF next
  <2>9. GivenKept /\ \A r \in Rows : listing'[r].prop = listing[r].prop
    BY <2>2, <2>4, SameKept
  <2>10. \A d \in Calls : call'[d] # Idle => NameChecked(call[d])'
    BY <1>r, <2>1, <2>7, <2>8, <2>9
  <2> QED BY <2>6, <2>10 DEF NameInv
<1>10. ASSUME NEW c \in Calls, NEW h \in hooks, PropertyProcessingSucceeded(c, h) PROVE NameInv'
  <2>1. PICK p \in Props : p = h.id
    BY <1>10, HookFields DEF PropertyProcessingSucceeded
  <2>2. UNCHANGED <<listing, property, offer>>
    BY <1>10 DEF PropertyProcessingSucceeded
  <2>3. RowNames' /\ RowsOfEstates'
    BY <1>i, <2>2, SameKept, NamesStay
  <2> DEFINE rows == Waiting(p)
             units == {r[1] : r \in rows}
             places == {r[2] : r \in rows}
             next == [NewCall("process", units) EXCEPT !.places = places, !.prop = p]
  <2>4. \A d \in Calls : call'[d] = Idle \/ call'[d] = next
    BY <1>10, <2>1, OneGoesOn DEF PropertyProcessingSucceeded
  <2>5. \A r \in rows : r \in Rows /\ listing[r].prop = p /\ property[p].estate = r[1]
    <3>1. p # None
      BY MarketAssumption
    <3> QED BY <1>i, <3>1 DEF Waiting, RowsOfEstates
  <2>6. ASSUME NEW r \in RowsOf(units), r[2] \in places PROVE listing[r].prop = p
    <3>1. PICK a \in rows : r[1] = a[1]
      BY <2>6 DEF RowsOf
    <3>2. PICK b \in rows : r[2] = b[2]
      BY <2>6
    <3>3. b[1] = a[1] /\ b \in Rows
      BY <2>5
    <3>4. r = b
      BY <2>6, <3>1, <3>2, <3>3 DEF Rows, RowsOf
    <3> QED BY <2>5, <3>4
  <2> HIDE DEF units, places
  <2>7. next.op = "process" /\ next.units = units /\ next.places = places /\ next.prop = p /\ next.posted = {}
    BY DEF NewCall
  <2> HIDE DEF next
  <2>8. p # None
    BY MarketAssumption
  <2>9. \A d \in Calls : call'[d] # Idle => NameChecked(call[d])'
    BY <2>2, <2>4, <2>6, <2>7, <2>8 DEF NameChecked
  <2> QED BY <2>3, <2>9 DEF NameInv
<1>q. ASSUME NEW c \in Calls, call[c] = Idle, UNCHANGED call PROVE Plain
  BY <1>q DEF OneCall
<1>11. ASSUME NEW c \in Calls, NEW h \in hooks, PropertyProcessingFailed(c, h) PROVE NameInv'
  <2>1. \A row \in Listing : LET new == [row EXCEPT !.failed = TRUE, !.status = "error"]
                             IN  new.prop = row.prop /\ new.remote = row.remote
    BY DEF Listing
  <2>2. NamesKept
    BY <1>11, <1>t, <2>1 DEF PropertyProcessingFailed, NamesKept
  <2>3. Plain
    BY <1>11, <1>q DEF PropertyProcessingFailed, Arrives
  <2> QED BY <1>11, <1>k, <2>2, <2>3, SameKept DEF PropertyProcessingFailed
<1>12. ASSUME NEW c \in Calls, NEW h \in hooks, PublicationSucceeded(c, h) PROVE NameInv'
  <2>1. NamesKept
    BY <1>12, WithListingsKeep DEF PublicationSucceeded
  <2>2. Plain
    BY <1>12, <1>q DEF PublicationSucceeded, Arrives
  <2> QED BY <1>12, <1>k, <2>1, <2>2, SameKept DEF PublicationSucceeded
<1>13. ASSUME NEW c \in Calls, NEW h \in hooks, PublicationFailed(c, h) PROVE NameInv'
  <2>1. NamesKept
    BY <1>13, WithListingsKeep DEF PublicationFailed
  <2>2. Plain
    BY <1>13, <1>q DEF PublicationFailed
  <2>3. \E gone, others : DeleteOffers(gone, others)
    BY <1>13 DEF PublicationFailed
  <2>4. GivenKept
    BY <1>13, <1>p, <2>3, DeleteOffersKeep DEF PublicationFailed
  <2> QED BY <1>k, <2>1, <2>2, <2>4
<1>14. ASSUME NEW c \in Calls, NEW h \in hooks, PublicationDeleted(c, h) PROVE NameInv'
  <2>1. NamesKept
    BY <1>14, WithoutRemoteKeeps DEF PublicationDeleted
  <2>2. \/ Goes(c, Idle)
        \/ \E units, prop : Goes(c, [NewCall("exhaust", units) EXCEPT !.prop = prop])
    BY <1>14 DEF PublicationDeleted
  <2>3. \A units, prop : [NewCall("exhaust", units) EXCEPT !.prop = prop].op = "exhaust"
    BY <1>n
  <2>g. PICK next : Goes(c, next) /\ (next = Idle \/ next.op = "exhaust")
    BY <2>2, <2>3
  <2>4. Plain
    BY <2>g, OneGoes
  <2>5. UNCHANGED <<property, offer>>
    BY <1>14 DEF PublicationDeleted
  <2> QED BY <1>k, <2>1, <2>4, <2>5, SameKept
<1>15. ASSUME NEW c \in Calls, NEW h \in hooks, DeletionFailed(c, h) PROVE NameInv'
  <2>1. NamesKept
    BY <1>15, WithoutRemoteKeeps DEF DeletionFailed
  <2>2. PICK units : GoesOn(c, [NewCall("withdraw", units) EXCEPT !.todo = units])
    BY <1>15 DEF DeletionFailed
  <2>3. [NewCall("withdraw", units) EXCEPT !.todo = units].op = "withdraw"
    BY <1>n
  <2>4. Plain
    BY <2>2, <2>3, OneGoesOn
  <2> QED BY <1>15, <1>k, <2>1, <2>4, SameKept DEF DeletionFailed
<1>16. ASSUME NEW c \in Calls, NEW e \in Estates, WithdrawListings(c, e) PROVE NameInv'
  <2>1. Plain
    BY <1>16, WithdrawnKinds DEF WithdrawListings
  <2>2. \E gone, others : DeleteOffers(gone, others)
    BY <1>16 DEF WithdrawListings
  <2>3. GivenKept
    BY <1>16, <1>p, <2>2, DeleteOffersKeep DEF WithdrawListings
  <2> QED BY <1>16, <1>k, <2>1, <2>3, SameKept DEF WithdrawListings
<1>17. ASSUME NEW c \in Calls, NEW e \in Estates, NEW r \in Rows, WithdrawProperty(c, e, r) PROVE NameInv'
  <2>1. Plain
    BY <1>17, WithdrawnKinds DEF WithdrawProperty
  <2>2. GivenKept
    BY <1>17, <1>p, DeletePropertyKeeps DEF WithdrawProperty
  <2>3. \A q \in Rows : listing'[q] = listing[q] \/ listing'[q] = Closed(listing[q])
    BY <1>17 DEF WithdrawProperty
  <2>4. NamesKept
    BY <1>t, <2>3, ClosedNames DEF NamesKept
  <2> QED BY <1>k, <2>1, <2>2, <2>4
<1>18. ASSUME NEW c \in Calls, NEW e \in Estates, NothingToWithdraw(c, e) PROVE NameInv'
  <2>1. Plain
    BY <1>18, WithdrawnKinds DEF NothingToWithdraw
  <2> QED BY <1>18, <1>k, <2>1, SameKept DEF NothingToWithdraw, marketTables, remoteVars
<1> QED
  BY <1>1, <1>2, <1>3, <1>4, <1>5, <1>6, <1>7, <1>8, <1>9, <1>10, <1>11, <1>12, <1>13, <1>14, <1>15, <1>16,
     <1>17, <1>18 DEF ListingsNext

LEMMA NameStep ==
    ASSUME TypeOK, OneCall, NameInv, [Next]_marketVars
    PROVE  NameInv'
<1>1. CASE UNCHANGED marketVars
  BY <1>1 DEF marketVars, marketTables, remoteVars, NameInv, RowNames, RowsOfEstates, NameChecked
<1>2. CASE PublicationNext
  <2>1. RowNames' /\ RowsOfEstates'
    BY <1>2, PublicationNames, SameKept, NamesStay DEF NameInv, remoteVars
  <2>2. \A d \in Calls : call'[d] # Idle => NameChecked(call[d])'
    BY <1>2, PublicationKinds DEF NameChecked
  <2> QED BY <2>1, <2>2 DEF NameInv
<1>3. CASE ListingsNext
  BY <1>3, ListingsNames
<1> QED BY <1>1, <1>2, <1>3 DEF Next

\* With one call in flight at a time, what a row names is its own listing: of its
\* market place, and of the property it was posted as.
THEOREM NamesAreOwn ==
    ASSUME OneCall
    PROVE  Spec => []RowNamesItsListing
<1>1. Init => NameInv
  BY DEF Init, NameInv, RowNames, RowsOfEstates, NoListing
<1>2. TypeOK /\ NameInv /\ [Next]_marketVars => NameInv'
  BY NameStep
<1>3. NameInv => RowNamesItsListing
  BY DEF NameInv, RowNames, RowNamesItsListing
<1> QED BY <1>1, <1>2, <1>3, MarketTypes, PTL DEF Spec

-----------------------------------------------------------------------------
\* What is on a market place can be withdrawn, with one call in flight at a time
\* and without the operations that start rows again, or schedule them, without
\* looking at what is out there.
Losing == {"request", "publishBuilding", "unpublish", "decline", "deactivate", "unpublishBuilding",
           "deactivateBuilding", "refuseDelete"}

Hook(event, id) == [event |-> event, id |-> id]

\* Nothing of an estate is on a market place; it is going to be withdrawn; an id is
\* going to be stored.
Quiet(e) == \A o \in Offers : offer[o].live => property[offer[o].prop].estate # e
Ending(e) == \E c \in Calls : Serving(c, "withdraw") /\ e \in call[c].todo
Storing(o) == \E c \in Calls : Serving(c, "process") /\ \E p \in Publishers : <<p, o>> \in call[c].posted

OfferKnown ==
    \A o \in Offers :
        /\ ~offer[o].kept
        /\ offer[o].prop # None => property[offer[o].prop].estate # None
        /\ offer[o].live => offer[o].prop # None /\ ((\E r \in Rows : listing[r].remote = o) \/ Storing(o))

BlankRows == \A r \in Rows : listing[r].status = "none" => listing[r].prop = None /\ listing[r].remote = None

\* The status of a row that names a listing that is out there.
LiveOnMarket ==
    \A r \in Rows : listing[r].remote # None /\ offer[listing[r].remote].live =>
        listing[r].status \in {"posted", "published", "scheduled"}

ScheduledEnds == \A r \in Rows : listing[r].status = "scheduled" => Quiet(r[1]) \/ Ending(r[1])

\* The rows of an estate start together, are posted together and are scheduled
\* together.
RowsAgree ==
    \A r, q \in Rows : r[1] = q[1] =>
        /\ listing[r].status = "posted" => listing[q].status # "scheduled"
        /\ listing[r].status = "posted" /\ listing[q].status = "posted" => listing[r].prop = listing[q].prop
        /\ listing[r].status = "initialized" =>
              /\ listing[q].status \in {"none", "initialized", "deleted"}
              /\ listing[q].prop = None /\ listing[q].remote = None

\* The report that a listing is gone finds an error, or an estate without listings.
WithdrawnEnds ==
    \A r \in Rows : listing[r].remote # None /\ Hook("withdrawn", listing[r].remote) \in hooks =>
        \/ listing[r].status = "error" /\ Hook("published", listing[r].remote) \notin hooks
        \/ Quiet(r[1]) \/ Ending(r[1])

\* No listing is named before the property has been processed.
ProcessedFirst ==
    \A r, q \in Rows :
        r[1] = q[1] /\ listing[r].status = "posted" /\ Hook("processed", listing[r].prop) \in hooks
        => listing[q].remote = None

PropertyHooksTrue ==
    \A p \in Props :
        /\ Hook("processed", p) \in hooks \/ Hook("rejected", p) \in hooks => property[p].estate # None
        /\ Hook("rejected", p) \in hooks => ~property[p].live /\ \A o \in Offers : offer[o].prop # p

OfferHooksTrue ==
    \A o \in Offers :
        /\ Hook("notWithdrawn", o) \notin hooks
        /\ Hook("published", o) \in hooks \/ Hook("notPublished", o) \in hooks \/ Hook("withdrawn", o) \in hooks
           => offer[o].prop # None
        /\ Hook("published", o) \notin hooks \/ Hook("notPublished", o) \notin hooks
        /\ Hook("withdrawn", o) \in hooks => ~offer[o].live

JobsMark == \A job \in jobs : job.op = "withdraw" => job.mark

PostChecked(k) ==
    \A r \in RowsOf(k.units) : /\ listing[r].prop = None /\ listing[r].remote = None
                               /\ listing[r].status \in {"none", "initialized", "deleted"}

ProcessChecked(k) ==
    /\ Hook("processed", k.prop) \notin hooks
    /\ k.places # {} \/ k.posted # {} => k.units # {}
    /\ \A e \in k.units : property[k.prop].estate = e
    /\ \A x \in k.posted : /\ offer[x[2]].live /\ x[1] \notin k.places
                           /\ \A y \in k.posted : y[1] = x[1] => y = x
    /\ \A r \in RowsOf(k.units) :
          /\ listing[r].status \notin {"scheduled", "initialized"}
          /\ listing[r].remote # None => Hook("withdrawn", listing[r].remote) \notin hooks
          /\ r[2] \in k.places \/ (\E x \in k.posted : x[1] = r[2]) =>
                listing[r].status = "posted" /\ listing[r].remote = None /\ listing[r].prop = k.prop

ExhaustChecked(k) ==
    /\ k.prop # None
    /\ \A e \in k.units : Quiet(e)
    /\ \A r \in Rows : listing[r].prop = k.prop => r[1] \in k.units

WithdrawChecked(k) ==
    \A r \in RowsOf(k.todo) :
        listing[r].remote # None /\ offer[listing[r].remote].live => listing[r].status = "scheduled"

LiveChecked(k) ==
    /\ k.op \notin Losing \cup {"commitUnpublish", "goneOffline"}
    /\ k.op \in {"publish", "commitPublish"} => k.places = {} \/ \A e \in k.units : Quiet(e)
    /\ k.op = "post" => PostChecked(k)
    /\ k.op = "process" => ProcessChecked(k)
    /\ k.op = "exhaust" => ExhaustChecked(k)
    /\ k.op = "withdraw" => WithdrawChecked(k)

LiveRows ==
    OfferKnown /\ BlankRows /\ LiveOnMarket /\ ScheduledEnds /\ RowsAgree /\ WithdrawnEnds /\ ProcessedFirst
LiveHooks == PropertyHooksTrue /\ OfferHooksTrue /\ JobsMark
LiveCalls == \A c \in Calls : call[c] # Idle => LiveChecked(call[c])

LiveInv == LiveRows /\ LiveHooks /\ LiveCalls

\* The calls of the publication that such an instance has.
Harmless == {"approve", "offMarket", "remove", "rent", "expire"}
PublicationCall(k) ==
    \/ k.op \in Harmless
    \/ k.op = "publish" /\ (k.places = {} \/ \A e \in k.units : e \in Estates /\ ~OnMarketPlace(e))
    \/ /\ k.op = "commitPublish"
       /\ \E c \in Calls : Serving(c, "publish") /\ k.units = call[c].units /\ k.places = call[c].places

LEMMA PublicationLive ==
    ASSUME TypeOK, OneCall, LiveCalls, Endpoints \cap Losing = {}, PublicationNext
    PROVE  /\ JobsMark => JobsMark'
           /\ UNCHANGED remoteVars
           /\ UNCHANGED listing \/ \E c \in Calls : StorePublish(c)
           /\ \/ UNCHANGED call
              \/ \A d \in Calls : call'[d] = Idle \/ PublicationCall(call'[d])
           /\ (\E c \in Calls : call[c] # Idle /\ call[c].op \in Removes \ {"remove"}) => UNCHANGED call
<1> DEFINE Jobs == JobsMark => JobsMark'
           Done == \A d \in Calls : call'[d] = Idle \/ PublicationCall(call'[d])
           Busy == \E c \in Calls : call[c] # Idle /\ call[c].op \in Removes \ {"remove"}
<1>w. Jobs <=> (JobsMark => \A job \in jobs' : job.op = "withdraw" => job.mark)
  BY DEF JobsMark
<1>j. /\ UNCHANGED jobs => Jobs
      /\ \A e : jobs' = Queued({Post(e)}) => Jobs
      /\ \A S : jobs' = Queued({Post(e) : e \in S}) => Jobs
      /\ \A S : jobs' = Queued({Withdraw(S, TRUE)}) => Jobs
  <2>1. \A e : Post(e).op = "post"
    BY DEF Post
  <2>2. \A S : Withdraw(S, TRUE).mark = TRUE
    BY DEF Withdraw
  <2> QED BY <2>1, <2>2 DEF JobsMark, Queued
<1>s. ASSUME NEW op, Served(op) PROVE UNCHANGED call
  BY <1>s DEF Served
<1>l. \A c \in Calls : call[c] # Idle => call[c].op \notin Losing \cup {"commitUnpublish", "goneOffline"}
  BY DEF LiveCalls, LiveChecked
<1>b. ASSUME NEW c \in Calls, NEW next, PublicationCall(next), Goes(c, next) PROVE Done
  BY <1>b, OneGoes
<1>e. ASSUME NEW c \in Calls, Ends(c) PROVE Done
  BY <1>e, OneEnds
<1>q. ASSUME NEW c \in Calls, call[c] = Idle PROVE ~Busy
  BY <1>q DEF OneCall
<1>a. ASSUME NEW c \in Calls, call[c] # Idle, call[c].op \notin Removes \ {"remove"} PROVE ~Busy
  BY <1>a DEF OneCall
<1> HIDE DEF Jobs, Done, Busy
<1>1. CASE \/ DeactivateLandlord
           \/ \E e \in Estates : Extend(e) \/ UpdateEstate(e) \/ DeleteEstates(e) \/ NotAvailable(e)
           \/ \E b \in Buildings : UpdateBuilding(b)
  BY <1>1, <1>s, <1>j DEF DeactivateLandlord, Extend, UpdateEstate, DeleteEstates, NotAvailable, UpdateBuilding,
     remoteVars, Jobs
<1> DEFINE Good == Jobs /\ UNCHANGED <<remoteVars, listing>> /\ Done /\ ~Busy
<1>2. ASSUME NEW c \in Calls, StorePublish(c)
      PROVE  Jobs /\ UNCHANGED remoteVars /\ Done /\ ~Busy
  BY <1>2, <1>a, <1>e, <1>j DEF StorePublish, Serving, Removes
<1>3. ASSUME NEW c \in Calls,
             \/ HandleToExpire(c)
             \/ \E e \in Estates : StoreApprove(c, e) \/ StoreOffMarket(c, e) \/ StoreRent(c, e)
      PROVE  Good
  BY <1>3, <1>a, <1>e, <1>j DEF HandleToExpire, StoreApprove, StoreOffMarket, StoreRent, Serving, Removes
<1>4. ASSUME NEW c \in Calls, NEW e, StoreRemove(c, e) PROVE Good
  BY <1>4, <1>a, <1>e, <1>j DEF StoreRemove, Serving, Removes
<1>5. ASSUME NEW c \in Calls,
             \/ StoreRequest(c) \/ HandleOffline(c) \/ QueueUnpublish(c)
             \/ \E e \in Estates : \/ StoreDecline(c, e) \/ StoreUnpublish(c, e) \/ StoreDeactivate(c, e)
             \/ \E b \in Buildings : \/ StorePublishBuilding(c, b)
                                     \/ StoreUnpublishBuilding(c, b) \/ StoreDeactivateBuilding(c, b)
      PROVE  FALSE
  BY <1>5, <1>l DEF StoreRequest, HandleOffline, QueueUnpublish, StoreDecline, StoreUnpublish, StoreDeactivate,
     StorePublishBuilding, StoreUnpublishBuilding, StoreDeactivateBuilding, Serving, Losing
<1>6. ASSUME NEW c \in Calls, QueuePost(c) PROVE Good
  <2>1. PICK k \in Call : k = call[c] /\ k.op = "publish" /\ call[c] # Idle
    BY <1>6, CallFields DEF QueuePost, Serving
  <2> DEFINE next == [k EXCEPT !.op = "commitPublish"]
  <2>2. next.op = "commitPublish" /\ next.units = k.units /\ next.places = k.places
    BY <2>1 DEF Call
  <2>3. Goes(c, next)
    BY <1>6, <2>1 DEF QueuePost
  <2> HIDE DEF next
  <2>4. PublicationCall(next)
    BY <2>1, <2>2 DEF PublicationCall, Serving
  <2>5. Jobs /\ UNCHANGED <<remoteVars, listing>>
    BY <1>6, <1>j DEF QueuePost
  <2> QED BY <1>a, <1>b, <2>1, <2>3, <2>4, <2>5 DEF Removes
<1>n. ASSUME NEW op \in Harmless, NEW units
      PROVE  /\ PublicationCall(NewCall(op, units)) /\ PublicationCall(Reading(op, units))
             /\ \A v : PublicationCall([NewCall(op, units) EXCEPT !.todo = v])
  <2>1. NewCall(op, units).op = op /\ Reading(op, units).op = op /\ \A v : [NewCall(op, units) EXCEPT !.todo = v].op = op
    BY DEF NewCall, Reading
  <2> QED BY <2>1 DEF PublicationCall
<1>7. ASSUME NEW c \in Calls, NEW next, NEW op, Accepts(c, op), PublicationCall(next), Begin(c, next)
      PROVE  Good
  BY <1>7, <1>b, <1>j, <1>q DEF Begin, Accepts, marketTables
<1>8. ASSUME NEW c \in Calls, NEW e, NEW answer,
             Review(c, answer, e) \/ OffMarketPublish(c, e) \/ Rent(c, e) \/ FindExpired(c, e) \/ RemoveEstate(c, e)
      PROVE  Good
  <2>1. \A units : \A op \in {"approve", "rent", "expire"} : PublicationCall(NewCall(op, units))
    BY <1>n DEF Harmless
  <2>2. \A units : PublicationCall(Reading("offMarket", units))
    BY <1>n DEF Harmless
  <2>3. \A units, v : PublicationCall([NewCall("remove", units) EXCEPT !.todo = v])
    BY <1>n DEF Harmless
  <2>4. Review(c, answer, e) => answer = "approve"
    BY DEF Review, Accepts, Losing
  <2>5. PICK next, op : Accepts(c, op) /\ Begin(c, next) /\ PublicationCall(next)
    BY <1>8, <2>1, <2>2, <2>3, <2>4 DEF Review, OffMarketPublish, Rent, FindExpired, RemoveEstate
  <2> QED BY <1>7, <2>5
<1>9. ASSUME NEW c \in Calls, NEW e \in Estates, NEW places, Publish(c, e, places) PROVE Good
  <2>1. PICK v : Begin(c, [NewCall("publish", {e}) EXCEPT !.places = v])
    BY <1>9 DEF Publish
  <2> DEFINE next == [NewCall("publish", {e}) EXCEPT !.places = v]
  <2>2. next.op = "publish" /\ next.units = {e}
    BY DEF NewCall
  <2> HIDE DEF next
  <2>3. PublicationCall(next)
    BY <1>9, <2>2 DEF Publish, PublicationCall
  <2> QED BY <1>7, <1>9, <2>1, <2>3 DEF Publish, next
<1>10. ASSUME NEW c \in Calls,
              \/ \E e \in Estates : \/ \E places \in SUBSET Publishers : Request(c, e, places)
                                    \/ Unpublish(c, e) \/ Deactivate(c, e)
              \/ \E b \in Buildings :
                   \/ \E reps \in SUBSET Estates, places \in SUBSET Publishers :
                         PublishBuilding(c, b, reps, places)
                   \/ \E op \in {"unpublishBuilding", "deactivateBuilding"} : LeaveMarket(c, op, b)
       PROVE  FALSE
  BY <1>10 DEF Request, Unpublish, Deactivate, PublishBuilding, LeaveMarket, Accepts, Losing
<1> QED
  BY <1>1, <1>2, <1>3, <1>4, <1>5, <1>6, <1>8, <1>9, <1>10 DEF PublicationNext, Jobs, Done, Busy

-----------------------------------------------------------------------------
\* What rows tell about listings.

\* With one call in flight, one that is not about webhooks has nothing to store.
LEMMA NothingStored ==
    ASSUME OneCall, NEW c \in Calls, call[c] = Idle \/ call[c].op # "process"
    PROVE  \A o \in Offers : ~Storing(o)
BY DEF OneCall, Storing, Serving

LEMMA NothingEnding ==
    ASSUME OneCall, NEW c \in Calls, call[c] = Idle \/ call[c].op # "withdraw"
    PROVE  \A e \in Estates : ~Ending(e)
BY DEF OneCall, Ending, Serving

\* What a row names is a listing of its estate, which no other row names.
LEMMA NamedListing ==
    ASSUME TypeOK, RowNames, RowsOfEstates, NEW r \in Rows, listing[r].remote # None
    PROVE  /\ listing[r].remote \in Offers /\ listing[r].prop \in Props
           /\ offer[listing[r].remote].prop = listing[r].prop
           /\ property[offer[listing[r].remote].prop].estate = r[1]
           /\ \A q \in Rows : listing[q].remote = listing[r].remote => q = r
<1>1. \A q \in Rows : /\ listing[q].remote \in Offers \cup {None} /\ listing[q].prop \in Props \cup {None}
                      /\ q = <<q[1], q[2]>>
  BY DEF TypeOK, Listing, Rows
<1>2. /\ listing[r].prop # None
      /\ offer[listing[r].remote].publisher = r[2]
      /\ offer[listing[r].remote].prop = listing[r].prop
      /\ property[listing[r].prop].estate = r[1]
  BY DEF RowNames, RowsOfEstates
<1>3. ASSUME NEW q \in Rows, listing[q].remote = listing[r].remote PROVE q = r
  <2>1. /\ listing[q].prop # None
        /\ offer[listing[q].remote].publisher = q[2]
        /\ offer[listing[q].remote].prop = listing[q].prop
        /\ property[listing[q].prop].estate = q[1]
    BY <1>3 DEF RowNames, RowsOfEstates
  <2>2. q[1] = r[1] /\ q[2] = r[2]
    BY <1>2, <1>3, <2>1
  <2>3. q = <<q[1], q[2]>> /\ r = <<r[1], r[2]>>
    BY <1>1
  <2> QED BY <2>2, <2>3
<1> QED BY <1>1, <1>2, <1>3

\* A live listing that nobody is about to store is named by a row of its estate.
LEMMA LiveHasRow ==
    ASSUME TypeOK, RowNames, RowsOfEstates, OfferKnown, NEW o \in Offers, offer[o].live, ~Storing(o)
    PROVE  \E r \in Rows : /\ listing[r].remote = o /\ property[offer[o].prop].estate = r[1]
                           /\ r = <<r[1], r[2]>> /\ r[1] \in Estates /\ r[2] \in Publishers
<1>1. PICK r \in Rows : listing[r].remote = o
  BY DEF OfferKnown
<1>2. o # None
  BY MarketAssumption
<1>3. property[offer[o].prop].estate = r[1]
  BY <1>1, <1>2, NamedListing
<1> QED BY <1>1, <1>3 DEF Rows

\* An estate none of whose rows names a live listing is quiet.
LEMMA RowsQuiet ==
    ASSUME TypeOK, RowNames, RowsOfEstates, OfferKnown, NEW e,
           \A o \in Offers : ~Storing(o),
           \A r \in RowsOf({e}) : listing[r].remote # None => ~offer[listing[r].remote].live
    PROVE  Quiet(e)
<1>1. ASSUME NEW o \in Offers, offer[o].live, property[offer[o].prop].estate = e PROVE FALSE
  <2>1. PICK r \in Rows : listing[r].remote = o /\ e = r[1] /\ r = <<r[1], r[2]>> /\ r[2] \in Publishers
    BY <1>1, LiveHasRow
  <2>2. r \in RowsOf({e}) /\ o # None
    BY <2>1, MarketAssumption DEF RowsOf
  <2> QED BY <1>1, <2>1, <2>2
<1> QED BY <1>1 DEF Quiet

LEMMA OffMarketQuiet ==
    ASSUME TypeOK, RowNames, RowsOfEstates, OfferKnown, LiveOnMarket,
           \A o \in Offers : ~Storing(o), NEW e \in Estates, ~OnMarketPlace(e)
    PROVE  Quiet(e)
<1>1. ASSUME NEW r \in RowsOf({e}), listing[r].remote # None, offer[listing[r].remote].live PROVE FALSE
  <2>1. r \in Rows
    BY <1>1 DEF RowsOf, Rows
  <2> QED BY <1>1, <2>1 DEF LiveOnMarket, OnMarketPlace
<1> QED BY <1>1, RowsQuiet

\* Listings go, and properties keep their estates.
OffersGo ==
    /\ \A o \in Offers : /\ offer'[o].prop = offer[o].prop /\ offer'[o].kept = offer[o].kept
                         /\ offer'[o].live => offer[o].live
    /\ \A p \in Props : property'[p].estate = property[p].estate

LEMMA SameOffers == UNCHANGED <<property, offer>> => OffersGo
BY DEF OffersGo

LEMMA QuietStays ==
    ASSUME TypeOK, OfferKnown, OffersGo, NEW e, Quiet(e)
    PROVE  Quiet(e)'
<1>1. \A o \in Offers : offer[o].live => offer[o].prop \in Props
  BY DEF TypeOK, Offer, OfferKnown
<1> QED BY <1>1 DEF Quiet, OffersGo

\* The rows keep what the invariant tells about them.
RowsSame ==
    \A r \in Rows : /\ listing'[r].status = listing[r].status /\ listing'[r].prop = listing[r].prop
                    /\ listing'[r].remote = listing[r].remote

LEMMA LiveRowsStay ==
    ASSUME TypeOK, LiveRows, RowsSame, UNCHANGED <<property, offer>>, hooks' \subseteq hooks,
           \A o \in Offers : Storing(o) => Storing(o)',
           \A e \in Estates : Ending(e) => Ending(e)' \/ Quiet(e)
    PROVE  LiveRows'
<1>t. \A r \in Rows : r[1] \in Estates
  BY DEF Rows
<1>q. \A e : Quiet(e) => Quiet(e)'
  BY QuietStays, SameOffers DEF LiveRows
<1>r. \A r \in Rows : /\ listing'[r].status = listing[r].status /\ listing'[r].prop = listing[r].prop
                      /\ listing'[r].remote = listing[r].remote
  BY DEF RowsSame
<1>1. OfferKnown'
  BY <1>r DEF LiveRows, OfferKnown
<1>b. BlankRows'
  BY <1>r DEF LiveRows, BlankRows
<1>2. LiveOnMarket'
  BY <1>r DEF LiveRows, LiveOnMarket
<1>3. ScheduledEnds'
  BY <1>r, <1>t, <1>q DEF LiveRows, ScheduledEnds
<1>4. RowsAgree'
  BY <1>r DEF LiveRows, RowsAgree
<1>h. \A event, id : Hook(event, id) \in hooks' => Hook(event, id) \in hooks
  OBVIOUS
<1>5. WithdrawnEnds'
  <2> SUFFICES ASSUME NEW r \in Rows, listing'[r].remote # None, Hook("withdrawn", listing'[r].remote) \in hooks'
               PROVE  \/ listing'[r].status = "error" /\ Hook("published", listing'[r].remote) \notin hooks'
                      \/ Quiet(r[1])' \/ Ending(r[1])'
    BY DEF WithdrawnEnds, Hook
  <2>1. \/ listing[r].status = "error" /\ Hook("published", listing[r].remote) \notin hooks
        \/ Quiet(r[1]) \/ Ending(r[1])
    BY <1>r, <1>h DEF LiveRows, WithdrawnEnds
  <2> QED BY <1>r, <1>h, <1>t, <1>q, <2>1
<1>6. ProcessedFirst'
  <2> SUFFICES ASSUME NEW r \in Rows, NEW q \in Rows, r[1] = q[1], listing'[r].status = "posted",
                      Hook("processed", listing'[r].prop) \in hooks'
               PROVE  listing'[q].remote = None
    BY DEF ProcessedFirst, Hook
  <2> QED BY <1>r, <1>h DEF LiveRows, ProcessedFirst
<1> QED BY <1>1, <1>b, <1>2, <1>3, <1>4, <1>5, <1>6 DEF LiveRows

LEMMA LiveHooksStay ==
    ASSUME LiveHooks, UNCHANGED <<property, offer>>, hooks' \subseteq hooks, JobsMark'
    PROVE  LiveHooks'
<1>h. \A event, id : Hook(event, id) \in hooks' => Hook(event, id) \in hooks
  OBVIOUS
<1>1. PropertyHooksTrue'
  <2> SUFFICES ASSUME NEW p \in Props
               PROVE  /\ Hook("processed", p) \in hooks' \/ Hook("rejected", p) \in hooks' => property'[p].estate # None
                      /\ Hook("rejected", p) \in hooks' => ~property'[p].live /\ \A o \in Offers : offer'[o].prop # p
    BY DEF PropertyHooksTrue, Hook
  <2> QED BY <1>h DEF LiveHooks, PropertyHooksTrue
<1>2. OfferHooksTrue'
  <2> SUFFICES ASSUME NEW o \in Offers
               PROVE  /\ Hook("notWithdrawn", o) \notin hooks'
                      /\ Hook("published", o) \in hooks' \/ Hook("notPublished", o) \in hooks' \/ Hook("withdrawn", o) \in hooks'
                         => offer'[o].prop # None
                      /\ Hook("published", o) \notin hooks' \/ Hook("notPublished", o) \notin hooks'
                      /\ Hook("withdrawn", o) \in hooks' => ~offer'[o].live
    BY DEF OfferHooksTrue, Hook
  <2> QED BY <1>h DEF LiveHooks, OfferHooksTrue
<1> QED BY <1>1, <1>2 DEF LiveHooks

\* Some estates start again with no listings, or are closed.
LEMMA RowsRestart ==
    ASSUME TypeOK, RowNames, RowsOfEstates, LiveRows, OffersGo, UNCHANGED <<offer, hooks>>,
           \A o \in Offers : ~Storing(o),
           NEW units, \A e \in units : Quiet(e),
           \A e \in Estates \ units : Ending(e) => Ending(e)',
           \A r \in Rows :
              IF r[1] \in units
              THEN /\ listing'[r].status \in {"none", "initialized", "deleted"}
                   /\ listing'[r].prop = None /\ listing'[r].remote = None
              ELSE listing'[r] = listing[r]
    PROVE  LiveRows'
<1>t. \A r \in Rows : r[1] \in Estates
  BY DEF Rows
<1>q. \A e : Quiet(e) => Quiet(e)'
  BY QuietStays DEF LiveRows
<1>e. \A e \in Estates \ units : Quiet(e) \/ Ending(e) => Quiet(e)' \/ Ending(e)'
  BY <1>q
<1>r. \A r \in Rows : listing'[r].remote # None => r[1] \notin units /\ listing'[r] = listing[r]
  OBVIOUS
<1>s. \A r \in Rows : listing'[r].status \notin {"none", "initialized", "deleted"} =>
          r[1] \notin units /\ listing'[r] = listing[r]
  OBVIOUS
<1>1. OfferKnown'
  <2>1. ASSUME NEW o \in Offers, offer[o].live PROVE \E r \in Rows : listing'[r].remote = o
    <3>1. PICK r \in Rows : listing[r].remote = o /\ property[offer[o].prop].estate = r[1]
      BY <2>1, LiveHasRow DEF LiveRows
    <3>2. r[1] \notin units
      BY <2>1, <3>1 DEF Quiet
    <3> QED BY <3>1, <3>2
  <2>2. \A o \in Offers : offer[o].prop # None => property'[offer[o].prop].estate = property[offer[o].prop].estate
    BY DEF TypeOK, Offer, OffersGo
  <2> QED BY <2>1, <2>2 DEF LiveRows, OfferKnown
<1>b. BlankRows'
  BY DEF LiveRows, BlankRows
<1>2. LiveOnMarket'
  BY <1>r DEF LiveRows, LiveOnMarket
<1>3. ScheduledEnds'
  <2>1. ASSUME NEW r \in Rows, listing'[r].status = "scheduled" PROVE Quiet(r[1])' \/ Ending(r[1])'
    BY <1>s, <1>t, <1>e, <2>1 DEF LiveRows, ScheduledEnds
  <2> QED BY <2>1 DEF ScheduledEnds
<1>4. RowsAgree'
  <2>1. ASSUME NEW r \in Rows, NEW q \in Rows, r[1] = q[1]
        PROVE  /\ listing'[r].status = "posted" => listing'[q].status # "scheduled"
               /\ listing'[r].status = "posted" /\ listing'[q].status = "posted" => listing'[r].prop = listing'[q].prop
               /\ listing'[r].status = "initialized" =>
                    /\ listing'[q].status \in {"none", "initialized", "deleted"}
                    /\ listing'[q].prop = None /\ listing'[q].remote = None
    BY <2>1 DEF LiveRows, RowsAgree
  <2> QED BY <2>1 DEF RowsAgree
<1>5. WithdrawnEnds'
  <2>1. ASSUME NEW r \in Rows, listing'[r].remote # None, Hook("withdrawn", listing'[r].remote) \in hooks
        PROVE  \/ listing'[r].status = "error" /\ Hook("published", listing'[r].remote) \notin hooks
               \/ Quiet(r[1])' \/ Ending(r[1])'
    BY <1>r, <1>t, <1>e, <2>1 DEF LiveRows, WithdrawnEnds
  <2> QED BY <2>1 DEF WithdrawnEnds, Hook
<1>6. ProcessedFirst'
  <2>1. ASSUME NEW r \in Rows, NEW q \in Rows, r[1] = q[1], listing'[r].status = "posted",
               Hook("processed", listing'[r].prop) \in hooks
        PROVE  listing'[q].remote = None
    BY <2>1 DEF LiveRows, ProcessedFirst
  <2> QED BY <2>1 DEF ProcessedFirst, Hook
<1> QED BY <1>1, <1>b, <1>2, <1>3, <1>4, <1>5, <1>6 DEF LiveRows

LEMMA SamePromises ==
    ASSUME LiveCalls, UNCHANGED <<remoteVars, listing, call>>
    PROVE  LiveCalls'
BY DEF LiveCalls, LiveChecked, PostChecked, ProcessChecked, ExhaustChecked, WithdrawChecked, Quiet, remoteVars

\* The publication keeps live listings known.
LEMMA PublicationLiveStep ==
    ASSUME TypeOK, OneCall, NameInv, LiveInv, Endpoints \cap Losing = {}, PublicationNext
    PROVE  LiveInv'
<1>i. LiveRows /\ LiveHooks /\ LiveCalls /\ RowNames /\ RowsOfEstates /\ JobsMark
  BY DEF LiveInv, LiveHooks, NameInv
<1>1. JobsMark' /\ UNCHANGED remoteVars
  BY <1>i, PublicationLive
<1>h. LiveHooks'
  BY <1>1, <1>i, LiveHooksStay DEF remoteVars
<1>p. ASSUME NEW d \in Calls, NEW k, k = call'[d], PublicationCall(k),
             ~\E c \in Calls : call[c] # Idle /\ call[c].op \in Removes \ {"remove"},
             UNCHANGED <<remoteVars, listing>>
      PROVE  LiveChecked(call[d])'
  <2>1. k.op \notin Removes \ {"remove"} /\ k.op \notin Losing \cup {"commitUnpublish", "goneOffline"}
    BY <1>p DEF PublicationCall, Harmless, Removes, Losing
  <2>2. k.op \in {"publish", "commitPublish"} => k.places = {} \/ \A e \in k.units : Quiet(e)
    <3>1. CASE k.op = "publish"
      <4>1. \A o \in Offers : ~Storing(o)
        BY <1>p DEF Storing, Serving, Removes
      <4> QED BY <1>i, <1>p, <3>1, <4>1, OffMarketQuiet DEF PublicationCall, LiveRows, Harmless
    <3>2. CASE k.op = "commitPublish"
      <4>1. PICK c \in Calls : Serving(c, "publish") /\ k.units = call[c].units /\ k.places = call[c].places
        BY <1>p, <3>2 DEF PublicationCall, Harmless
      <4> QED BY <1>i, <4>1 DEF LiveCalls, LiveChecked, Serving
    <3> QED BY <3>1, <3>2
  <2>3. \A e : Quiet(e)' <=> Quiet(e)
    BY <1>p DEF Quiet, remoteVars
  <2>4. k.op \in {"publish", "commitPublish"} => k.places = {} \/ \A e \in k.units : Quiet(e)'
    BY <2>2, <2>3
  <2> QED BY <1>p, <2>1, <2>4 DEF LiveChecked, Removes
<1>2. CASE UNCHANGED listing
  <2>1. RowsSame
    BY <1>2 DEF RowsSame
  <2>2. CASE UNCHANGED call
    <3>1. LiveCalls'
      BY <1>1, <1>2, <1>i, <2>2, SamePromises
    <3>2. (\A o \in Offers : Storing(o) => Storing(o)') /\ \A e \in Estates : Ending(e) => Ending(e)'
      BY <2>2 DEF Storing, Ending, Serving
    <3>3. LiveRows'
      BY <1>1, <1>i, <2>1, <3>2, LiveRowsStay DEF remoteVars
    <3> QED BY <1>h, <3>1, <3>3 DEF LiveInv
  <2>3. CASE ~UNCHANGED call
    <3>1. /\ ~\E c \in Calls : call[c] # Idle /\ call[c].op \in Removes \ {"remove"}
          /\ \A d \in Calls : call'[d] = Idle \/ PublicationCall(call'[d])
      BY <1>i, <2>3, PublicationLive
    <3>2. (\A o \in Offers : ~Storing(o)) /\ \A e \in Estates : ~Ending(e)
      BY <3>1 DEF Storing, Ending, Serving, Removes
    <3>3. LiveRows'
      BY <1>1, <1>i, <2>1, <3>2, LiveRowsStay DEF remoteVars
    <3>4. \A d \in Calls : call'[d] # Idle => LiveChecked(call[d])'
      BY <1>1, <1>2, <1>p, <3>1
    <3>5. LiveCalls'
      BY <3>4 DEF LiveCalls
    <3> QED BY <1>h, <3>3, <3>5 DEF LiveInv
  <2> QED BY <2>2, <2>3
<1>3. ASSUME NEW c \in Calls, StorePublish(c) PROVE LiveInv'
  <2>1. PICK k \in Call : /\ k = call[c] /\ k.op = "commitPublish" /\ call[c] # Idle
                          /\ k.units \in SUBSET Estates /\ LiveChecked(k)
    BY <1>3, <1>i, CallFields DEF StorePublish, Serving, LiveCalls
  <2>2. (\A o \in Offers : ~Storing(o)) /\ \A e \in Estates : ~Ending(e)
    BY <2>1, NothingStored, NothingEnding
  <2>3. LiveCalls'
    BY <1>3, OneEnds DEF StorePublish, LiveCalls
  <2>4. listing' = WithMarketPlaces(k.units, k.places)
    BY <1>3, <2>1 DEF StorePublish
  <2>5. CASE k.places = {}
    <3>1. RowsSame
      BY <2>4, <2>5 DEF WithMarketPlaces, RowsSame
    <3> QED BY <1>1, <1>h, <1>i, <2>2, <2>3, <3>1, LiveRowsStay DEF LiveInv, remoteVars
  <2>6. CASE k.places # {}
    <3>1. \A e \in k.units : Quiet(e)
      BY <2>1, <2>6 DEF LiveChecked
    <3>2. LET new == [NoListing EXCEPT !.status = "initialized"]
          IN  new.status = "initialized" /\ new.prop = None /\ new.remote = None
      BY DEF NoListing
    <3>3. \A r \in Rows : /\ Closed(listing[r]).status \in {"none", "deleted"}
                          /\ Closed(listing[r]).prop = None /\ Closed(listing[r]).remote = None
      <4>1. \A r \in Rows : listing[r] \in Listing
        BY DEF TypeOK
      <4>2. \A r \in Rows : listing[r].status = "none" => listing[r].prop = None /\ listing[r].remote = None
        BY <1>i DEF LiveRows, BlankRows
      <4>3. \A row \in Listing : LET new == [row EXCEPT !.status = "deleted", !.prop = None, !.remote = None]
                                 IN  new.status = "deleted" /\ new.prop = None /\ new.remote = None
        BY DEF Listing
      <4> QED BY <4>1, <4>2, <4>3 DEF Closed
    <3>4. \A r \in Rows :
              IF r[1] \in k.units
              THEN /\ listing'[r].status \in {"none", "initialized", "deleted"}
                   /\ listing'[r].prop = None /\ listing'[r].remote = None
              ELSE listing'[r] = listing[r]
      BY <2>4, <2>6, <3>2, <3>3 DEF WithMarketPlaces
    <3>5. OffersGo /\ UNCHANGED <<offer, hooks>>
      BY <1>1, SameOffers DEF remoteVars
    <3>6. LiveRows'
      BY <1>i, <2>2, <3>1, <3>4, <3>5, RowsRestart
    <3> QED BY <1>h, <2>3, <3>6 DEF LiveInv
  <2> QED BY <2>5, <2>6
<1> QED BY <1>2, <1>3, <1>i, PublicationLive

\* Listings stay known when rows keep the names of those that are out.
LEMMA KnownStays ==
    ASSUME TypeOK, OfferKnown, OffersGo,
           \A o \in Offers : Storing(o) => Storing(o)',
           \A r \in Rows : \/ listing'[r].remote = listing[r].remote
                           \/ listing[r].remote = None \/ ~offer'[listing[r].remote].live
    PROVE  OfferKnown'
<1>1. \A o \in Offers : offer[o].prop # None => offer[o].prop \in Props
  BY DEF TypeOK, Offer
<1>2. ASSUME NEW o \in Offers, offer'[o].live PROVE (\E r \in Rows : listing'[r].remote = o) \/ Storing(o)'
  <2>1. CASE Storing(o)
    BY <2>1
  <2>2. CASE ~Storing(o)
    <3>1. PICK r \in Rows : listing[r].remote = o
      BY <1>2, <2>2 DEF OfferKnown, OffersGo
    <3>2. o # None
      BY MarketAssumption
    <3> QED BY <1>2, <3>1, <3>2
  <2> QED BY <2>1, <2>2
<1> QED BY <1>1, <1>2 DEF OfferKnown, OffersGo

\* Some rows of properties are closed, in error or published.
LEMMA StatusChange ==
    ASSUME LiveRows, NEW rows,
           \A r \in Rows :
              /\ listing'[r].prop = listing[r].prop /\ listing'[r].remote = listing[r].remote
              /\ IF r \in rows
                 THEN listing[r].prop # None /\ listing'[r].status \in {"error", "published", "deleted"}
                 ELSE listing'[r].status = listing[r].status,
           \A p : Hook("processed", p) \in hooks' => Hook("processed", p) \in hooks
    PROVE  BlankRows' /\ RowsAgree' /\ ProcessedFirst'
<1>1. BlankRows'
  BY DEF LiveRows, BlankRows
<1>2. ASSUME NEW r \in Rows, NEW q \in Rows, r[1] = q[1]
      PROVE  /\ listing'[r].status = "posted" => listing'[q].status # "scheduled"
             /\ listing'[r].status = "posted" /\ listing'[q].status = "posted" => listing'[r].prop = listing'[q].prop
             /\ listing'[r].status = "initialized" =>
                  /\ listing'[q].status \in {"none", "initialized", "deleted"}
                  /\ listing'[q].prop = None /\ listing'[q].remote = None
  BY <1>2 DEF LiveRows, RowsAgree
<1>3. RowsAgree'
  BY <1>2 DEF RowsAgree
<1>4. ASSUME NEW r \in Rows, NEW q \in Rows, r[1] = q[1], listing'[r].status = "posted",
             Hook("processed", listing'[r].prop) \in hooks'
      PROVE  listing'[q].remote = None
  <2>1. listing[r].status = "posted" /\ listing'[r].prop = listing[r].prop
    BY <1>4
  <2>2. Hook("processed", listing[r].prop) \in hooks
    BY <1>4, <2>1
  <2> QED BY <1>4, <2>1, <2>2 DEF LiveRows, ProcessedFirst
<1>5. ProcessedFirst'
  BY <1>4 DEF ProcessedFirst, Hook
<1> QED BY <1>1, <1>3, <1>5

\* A worker posts an estate.
LEMMA PostingLive ==
    ASSUME TypeOK, OneCall, NameInv, LiveInv, NEW c \in Calls,
           \/ \E job \in jobs, e \in Estates : PostEstate(c, job, e)
           \/ \E p \in Props : PropertyPosted(c, p)
           \/ StorePosted(c) \/ PropertyRefused(c)
    PROVE  LiveInv'
<1>i. LiveRows /\ LiveHooks /\ LiveCalls /\ RowNames /\ RowsOfEstates /\ JobsMark
  BY DEF LiveInv, LiveHooks, NameInv
<1>t. \A r \in Rows : r[1] \in Estates /\ r[2] \in Publishers /\ r = <<r[1], r[2]>>
  BY DEF Rows
<1>q. (\A o \in Offers : ~Storing(o)) /\ \A e \in Estates : ~Ending(e)
  <2>1. call[c] = Idle \/ call[c].op = "post"
    BY DEF PostEstate, PropertyPosted, StorePosted, PropertyRefused, Accepts, Serving
  <2> QED BY <2>1, NothingStored, NothingEnding
<1>1. ASSUME NEW job \in jobs, NEW e \in Estates, PostEstate(c, job, e) PROVE LiveInv'
  <2>1. UNCHANGED <<listing, property, offer, hooks>> /\ jobs' \subseteq jobs
    BY <1>1 DEF PostEstate, remoteVars
  <2>2. JobsMark'
    BY <1>i, <2>1 DEF JobsMark
  <2>3. RowsSame
    BY <2>1 DEF RowsSame
  <2>4. LiveRows' /\ LiveHooks'
    BY <1>i, <1>q, <2>1, <2>2, <2>3, LiveRowsStay, LiveHooksStay
  <2> DEFINE k == NewCall("post", {e})
  <2>5. k.op = "post" /\ k.units = {e}
    BY DEF NewCall
  <2>6. \A d \in Calls : call'[d] = Idle \/ (ToPost(e) /\ call'[d] = k)
    BY <1>1, OneGoes DEF PostEstate
  <2> HIDE DEF k
  <2>7. ASSUME ToPost(e), NEW r \in RowsOf({e})
        PROVE  /\ listing[r].prop = None /\ listing[r].remote = None
               /\ listing[r].status \in {"none", "initialized", "deleted"}
    <3>1. PICK s \in RowsOf({e}) : listing[s].status = "initialized"
      BY <2>7 DEF ToPost
    <3>2. s \in Rows /\ r \in Rows /\ s[1] = r[1]
      BY <2>7, <3>1 DEF RowsOf, Rows
    <3> QED BY <1>i, <3>1, <3>2 DEF LiveRows, RowsAgree
  <2>8. ToPost(e) => PostChecked(k)'
    BY <2>1, <2>5, <2>7 DEF PostChecked
  <2>9. ASSUME NEW d \in Calls, call'[d] # Idle PROVE LiveChecked(call[d])'
    <3>1. ToPost(e) /\ call'[d] = k
      BY <2>6, <2>9
    <3>2. PostChecked(call[d])'
      BY <2>8, <3>1
    <3> QED BY <2>5, <3>1, <3>2 DEF LiveChecked, Losing
  <2> QED BY <2>4, <2>9 DEF LiveInv, LiveCalls
<1>c. ASSUME call[c] # Idle PROVE \E k \in Call : k = call[c] /\ LiveChecked(k) /\ NameChecked(k) /\ k.units \in SUBSET Estates
  BY <1>c, <1>i, CallFields DEF LiveCalls, NameInv
<1>2. ASSUME NEW p \in Props, PropertyPosted(c, p) PROVE LiveInv'
  <2>1. PICK k \in Call : k = call[c] /\ k.op = "post" /\ LiveChecked(k) /\ k.units \in SUBSET Estates
    BY <1>2, <1>c DEF PropertyPosted, Serving
  <2>2. PICK e \in k.units : NewProperty(p, e)
    BY <1>2, <2>1 DEF PropertyPosted
  <2>3. UNCHANGED <<listing, offer, jobs>> /\ e \in Estates /\ e # None
    BY <1>2, <2>1, MarketAssumption DEF PropertyPosted
  <2>4. PICK accepted \in BOOLEAN :
           /\ property' = [property EXCEPT ![p] = [estate |-> e, live |-> accepted]]
           /\ hooks' = hooks \cup {Hook(IF accepted THEN "processed" ELSE "rejected", p)}
    BY <2>2 DEF NewProperty, Hook
  <2>5. /\ property[p].estate = None /\ property'[p].estate = e /\ property'[p].live = accepted
        /\ \A q \in Props : q # p => property'[q] = property[q]
    BY <2>2, <2>4 DEF NewProperty, TypeOK
  <2>h. \A event, id : Hook(event, id).event = event /\ Hook(event, id).id = id
    BY DEF Hook
  <2> DEFINE answer == IF accepted THEN "processed" ELSE "rejected"
  <2>e. hooks' = hooks \cup {Hook(answer, p)}
    BY <2>4
  <2>a. (accepted => answer = "processed") /\ (~accepted => answer = "rejected")
    OBVIOUS
  <2> HIDE DEF answer
  <2>6. /\ \A event, id : Hook(event, id) \in hooks' => Hook(event, id) \in hooks \/ (id = p /\ event = answer)
        /\ answer = "rejected" => ~accepted
        /\ answer \in {"processed", "rejected"}
    BY <2>a, <2>e, <2>h
  <2>g. \A o \in Offers : offer[o].prop # p /\ (offer[o].prop # None => offer[o].prop \in Props)
    BY <1>i, <2>5, MarketAssumption DEF LiveRows, OfferKnown, TypeOK, Offer
  <2>r. \A r \in Rows : listing[r].prop # p
    BY <1>i, <2>5, <1>t, MarketAssumption DEF RowsOfEstates
  <2>q. \A d : Quiet(d) => Quiet(d)'
    <3>1. \A o \in Offers : offer[o].live => offer[o].prop \in Props /\ offer[o].prop # p
      BY <1>i, <2>g DEF LiveRows, OfferKnown
    <3> QED BY <2>3, <2>5, <3>1 DEF Quiet
  <2>7. OfferKnown'
    <3>1. \A o \in Offers : offer[o].prop # None => property'[offer[o].prop].estate # None
      BY <1>i, <2>5, <2>g DEF LiveRows, OfferKnown
    <3> QED BY <1>i, <1>q, <2>3, <3>1 DEF LiveRows, OfferKnown
  <2>8. BlankRows' /\ LiveOnMarket' /\ RowsAgree'
    BY <1>i, <2>3 DEF LiveRows, BlankRows, LiveOnMarket, RowsAgree
  <2>9. ScheduledEnds'
    BY <1>i, <1>q, <1>t, <2>3, <2>q DEF LiveRows, ScheduledEnds
  <2>10. WithdrawnEnds'
    <3>1. \A id : /\ Hook("withdrawn", id) \in hooks' => Hook("withdrawn", id) \in hooks
                  /\ Hook("published", id) \in hooks' => Hook("published", id) \in hooks
      BY <2>6
    <3>2. ASSUME NEW r \in Rows, listing[r].remote # None, Hook("withdrawn", listing[r].remote) \in hooks'
          PROVE  \/ listing[r].status = "error" /\ Hook("published", listing[r].remote) \notin hooks'
                 \/ Quiet(r[1])'
      BY <1>i, <1>q, <1>t, <2>q, <3>1, <3>2 DEF LiveRows, WithdrawnEnds
    <3> QED BY <2>3, <3>2 DEF WithdrawnEnds, Hook
  <2>11. ProcessedFirst'
    <3>1. ASSUME NEW r \in Rows, NEW q \in Rows, r[1] = q[1], listing[r].status = "posted",
                 Hook("processed", listing[r].prop) \in hooks'
          PROVE  listing[q].remote = None
      BY <1>i, <2>6, <2>r, <3>1 DEF LiveRows, ProcessedFirst
    <3> QED BY <2>3, <3>1 DEF ProcessedFirst, Hook
  <2>12. PropertyHooksTrue'
    <3>1. ASSUME NEW q \in Props
          PROVE  /\ Hook("processed", q) \in hooks' \/ Hook("rejected", q) \in hooks' => property'[q].estate # None
                 /\ Hook("rejected", q) \in hooks' => ~property'[q].live /\ \A o \in Offers : offer[o].prop # q
      <4>1. CASE q = p
        <5>1. Hook("rejected", p) \notin hooks
          BY <1>i, <2>5 DEF LiveHooks, PropertyHooksTrue
        <5> QED BY <2>3, <2>5, <2>6, <2>g, <4>1, <5>1
      <4>2. CASE q # p
        BY <1>i, <2>5, <2>6, <4>2 DEF LiveHooks, PropertyHooksTrue
      <4> QED BY <4>1, <4>2
    <3> QED BY <2>3, <3>1 DEF PropertyHooksTrue, Hook
  <2>13. OfferHooksTrue'
    <3>1. ASSUME NEW o \in Offers
          PROVE  /\ Hook("notWithdrawn", o) \notin hooks'
                 /\ Hook("published", o) \in hooks' \/ Hook("notPublished", o) \in hooks' \/ Hook("withdrawn", o) \in hooks'
                    => offer[o].prop # None
                 /\ Hook("published", o) \notin hooks' \/ Hook("notPublished", o) \notin hooks'
                 /\ Hook("withdrawn", o) \in hooks' => ~offer[o].live
      BY <1>i, <2>6 DEF LiveHooks, OfferHooksTrue
    <3> QED BY <2>3, <3>1 DEF OfferHooksTrue, Hook
  <2>14. JobsMark'
    BY <1>i, <2>3 DEF JobsMark
  <2> DEFINE next == [k EXCEPT !.prop = p]
  <2>15. next.op = "post" /\ next.units = k.units
    BY <2>1 DEF Call
  <2>16. \A d \in Calls : call'[d] = next
    BY <1>2, <2>1, OneGoes DEF PropertyPosted
  <2> HIDE DEF next
  <2>17. PostChecked(k)
    BY <2>1 DEF LiveChecked
  <2>18. \A d \in Calls : LiveChecked(call[d])'
    BY <2>3, <2>15, <2>16, <2>17 DEF LiveChecked, PostChecked, Losing
  <2> QED BY <2>7, <2>8, <2>9, <2>10, <2>11, <2>12, <2>13, <2>14, <2>18 DEF LiveInv, LiveRows, LiveHooks, LiveCalls
<1>3. ASSUME StorePosted(c) PROVE LiveInv'
  <2>1. PICK k \in Call : /\ k = call[c] /\ k.op = "post" /\ LiveChecked(k) /\ NameChecked(k)
                          /\ k.units \in SUBSET Estates /\ k.prop # None
    BY <1>3, <1>c DEF StorePosted, Serving
  <2>2. UNCHANGED <<property, offer, hooks, jobs>> /\ JobsMark'
    BY <1>3, <1>i DEF StorePosted, remoteVars, JobsMark
  <2>3. LiveCalls'
    BY <1>3, OneEnds DEF StorePosted, LiveCalls
  <2>4. \A row \in Listing : LET new == [row EXCEPT !.status = "posted", !.prop = k.prop, !.failed = FALSE]
                             IN  new.status = "posted" /\ new.prop = k.prop /\ new.remote = row.remote
    BY DEF Listing
  <2>5. \A r \in Rows : IF r \in ToDelete(k.units)
                        THEN /\ listing'[r].status = "posted" /\ listing'[r].prop = k.prop
                             /\ listing'[r].remote = listing[r].remote
                        ELSE listing'[r] = listing[r]
    <3>1. \A r \in Rows : listing[r] \in Listing
      BY DEF TypeOK
    <3>2. listing' = [r \in Rows |->
                         IF r \in ToDelete(k.units)
                         THEN [listing[r] EXCEPT !.status = "posted", !.prop = k.prop, !.failed = FALSE]
                         ELSE listing[r]]
      BY <1>3, <2>1 DEF StorePosted
    <3> QED BY <2>4, <3>1, <3>2
  <2>6. \A r \in Rows : r[1] \in k.units =>
            /\ listing[r].prop = None /\ listing[r].remote = None
            /\ listing[r].status \in {"none", "initialized", "deleted"}
            /\ (r \in ToDelete(k.units)) <=> (listing[r].status = "initialized")
    BY <1>t, <2>1 DEF LiveChecked, PostChecked, RowsOf, ToDelete
  <2>7. \A r \in ToDelete(k.units) : r \in Rows /\ r[1] \in k.units
    BY <2>1 DEF ToDelete, RowsOf, Rows
  <2>8. \A r \in Rows : listing'[r].remote = listing[r].remote
    BY <2>5
  <2>9. OfferKnown'
    BY <1>i, <1>q, <2>2, <2>8, KnownStays, SameOffers DEF LiveRows
  <2>10. BlankRows'
    BY <1>i, <2>5 DEF LiveRows, BlankRows
  <2>11. LiveOnMarket'
    BY <1>i, <2>2, <2>5 DEF LiveRows, LiveOnMarket
  <2>q. \A e : Quiet(e)' <=> Quiet(e)
    BY <2>2 DEF Quiet
  <2>12. ScheduledEnds'
    BY <1>i, <1>q, <1>t, <2>5, <2>q DEF LiveRows, ScheduledEnds
  <2>13. RowsAgree'
    <3>1. ASSUME NEW r \in Rows, NEW q \in Rows, r[1] = q[1]
          PROVE  /\ listing'[r].status = "posted" => listing'[q].status # "scheduled"
                 /\ listing'[r].status = "posted" /\ listing'[q].status = "posted" => listing'[r].prop = listing'[q].prop
                 /\ listing'[r].status = "initialized" =>
                      /\ listing'[q].status \in {"none", "initialized", "deleted"}
                      /\ listing'[q].prop = None /\ listing'[q].remote = None
      <4>1. CASE r[1] \in k.units
        BY <2>5, <2>6, <3>1, <4>1
      <4>2. CASE r[1] \notin k.units
        BY <1>i, <2>5, <2>7, <3>1, <4>2 DEF LiveRows, RowsAgree
      <4> QED BY <4>1, <4>2
    <3> QED BY <3>1 DEF RowsAgree
  <2>14. WithdrawnEnds'
    <3>1. ASSUME NEW r \in Rows, listing'[r].remote # None, Hook("withdrawn", listing'[r].remote) \in hooks
          PROVE  \/ listing'[r].status = "error" /\ Hook("published", listing'[r].remote) \notin hooks
                 \/ Quiet(r[1])'
      <4>1. listing'[r] = listing[r]
        BY <2>5, <2>6, <2>7, <3>1
      <4> QED BY <1>i, <1>q, <1>t, <2>q, <3>1, <4>1 DEF LiveRows, WithdrawnEnds
    <3> QED BY <2>2, <3>1 DEF WithdrawnEnds, Hook
  <2>15. ProcessedFirst'
    <3>1. ASSUME NEW r \in Rows, NEW q \in Rows, r[1] = q[1], listing'[r].status = "posted",
                 Hook("processed", listing'[r].prop) \in hooks
          PROVE  listing'[q].remote = None
      <4>1. CASE r[1] \in k.units
        BY <2>5, <2>6, <3>1, <4>1
      <4>2. CASE r[1] \notin k.units
        BY <1>i, <2>5, <2>7, <3>1, <4>2 DEF LiveRows, ProcessedFirst
      <4> QED BY <4>1, <4>2
    <3> QED BY <2>2, <3>1 DEF ProcessedFirst, Hook
  <2>16. LiveHooks'
    BY <1>i, <2>2, LiveHooksStay
  <2> QED BY <2>3, <2>9, <2>10, <2>11, <2>12, <2>13, <2>14, <2>15, <2>16 DEF LiveInv, LiveRows
<1>4. ASSUME PropertyRefused(c) PROVE LiveInv'
  <2>1. UNCHANGED <<property, offer, hooks, jobs>> /\ JobsMark'
    BY <1>4, <1>i DEF PropertyRefused, remoteVars, JobsMark
  <2>2. LiveCalls'
    BY <1>4, OneEnds DEF PropertyRefused, LiveCalls
  <2>3. \A row \in Listing : LET new == [row EXCEPT !.failed = TRUE]
                             IN  new.status = row.status /\ new.prop = row.prop /\ new.remote = row.remote
    BY DEF Listing
  <2>4. RowsSame
    BY <1>4, <2>3 DEF PropertyRefused, RowsSame, TypeOK
  <2> QED BY <1>i, <1>q, <2>1, <2>2, <2>4, LiveRowsStay, LiveHooksStay DEF LiveInv
<1> QED BY <1>1, <1>2, <1>3, <1>4

\* The webhook about a processed property has the listings posted.
LEMMA ProcessingLive ==
    ASSUME TypeOK, OneCall, NameInv, LiveInv, NEW c \in Calls,
           \/ \E h \in hooks : PropertyProcessingSucceeded(c, h)
           \/ \E publisher \in Publishers :
                 \/ \E told \in BOOLEAN : ListingRefused(c, publisher, told)
                 \/ \E o \in Offers : PostListing(c, publisher, o) \/ StoreListing(c, publisher, o)
    PROVE  LiveInv'
<1>i. LiveRows /\ LiveHooks /\ LiveCalls /\ RowNames /\ RowsOfEstates /\ JobsMark
  BY DEF LiveInv, LiveHooks, NameInv
<1>t. \A r \in Rows : r[1] \in Estates /\ r[2] \in Publishers /\ r = <<r[1], r[2]>>
  BY DEF Rows
<1>l. \A r \in Rows : listing[r] \in Listing
  BY DEF TypeOK
<1>q. \A e \in Estates : ~Ending(e)
  <2>1. call[c] = Idle \/ call[c].op = "process"
    BY DEF PropertyProcessingSucceeded, ListingRefused, PostListing, StoreListing, Arrives, Serving
  <2> QED BY <2>1, NothingEnding
<1>c. ASSUME Serving(c, "process")
      PROVE  \E k \in Call : /\ k = call[c] /\ k.op = "process" /\ ProcessChecked(k) /\ NameChecked(k)
                             /\ k.units \in SUBSET Estates /\ k.posted \subseteq Publishers \X Offers
                             /\ k.places \subseteq Publishers /\ k.prop \in Props
  <2>1. PICK k \in Call : k = call[c] /\ k.op = "process" /\ LiveChecked(k) /\ NameChecked(k)
    BY <1>c, <1>i, CallFields DEF LiveCalls, NameInv, Serving
  <2>2. /\ k.units \in SUBSET Estates /\ k.posted \subseteq Publishers \X Offers
        /\ k.places \subseteq Publishers /\ k.prop \in Props \cup {None}
    BY <2>1 DEF Call
  <2> QED BY <2>1, <2>2 DEF LiveChecked, NameChecked
<1>o. ASSUME NEW k, k = call[c], k.op = "process", k.posted \subseteq Publishers \X Offers, NEW o \in Offers
      PROVE  Storing(o) => \E p \in Publishers : <<p, o>> \in k.posted
  BY <1>o DEF OneCall, Storing, Serving
<1>1. ASSUME NEW h \in hooks, PropertyProcessingSucceeded(c, h) PROVE LiveInv'
  <2>1. PICK p \in Props : p = h.id
    BY <1>1, HookFields DEF PropertyProcessingSucceeded
  <2>2. UNCHANGED <<listing, property, offer, jobs>> /\ hooks' = hooks \ {h} /\ call[c] = Idle /\ h.event = "processed"
    BY <1>1 DEF PropertyProcessingSucceeded, Arrives
  <2>3. h = Hook("processed", p)
    <3>1. h \in PropertyHooks \cup OfferHooks
      BY DEF TypeOK
    <3> QED BY <2>1, <2>2, <3>1 DEF PropertyHooks, OfferHooks, Hook
  <2>4. RowsSame /\ JobsMark' /\ \A o \in Offers : ~Storing(o)
    BY <1>i, <2>2, NothingStored DEF RowsSame, JobsMark
  <2>5. LiveRows' /\ LiveHooks'
    BY <1>i, <1>q, <2>2, <2>4, LiveRowsStay, LiveHooksStay
  <2> DEFINE rows == Waiting(p)
             units == {r[1] : r \in rows}
             places == {r[2] : r \in rows}
             next == [NewCall("process", units) EXCEPT !.places = places, !.prop = p]
  <2>6. \A d \in Calls : call'[d] = Idle \/ call'[d] = next
    BY <1>1, <2>1, OneGoesOn DEF PropertyProcessingSucceeded
  <2>7. \A r \in rows : /\ r \in Rows /\ listing[r].prop = p /\ property[p].estate = r[1]
                        /\ listing[r].status = "posted" /\ listing[r].remote = None
    <3>1. p # None
      BY MarketAssumption
    <3> QED BY <1>i, <3>1 DEF Waiting, RowsOfEstates
  <2>8. \A e \in units : property[p].estate = e
    BY <2>7
  <2>9. ASSUME NEW r \in RowsOf(units)
        PROVE  /\ listing[r].status \notin {"scheduled", "initialized"} /\ listing[r].remote = None
               /\ r[2] \in places => listing[r].status = "posted" /\ listing[r].prop = p
    <3>1. PICK a \in rows : r[1] = a[1]
      BY <2>9 DEF RowsOf
    <3>2. r \in Rows /\ a \in Rows /\ listing[a].status = "posted"
      BY <2>7, <2>9, <3>1 DEF RowsOf, Rows
    <3>3. listing[r].status \notin {"scheduled", "initialized"}
      BY <1>i, <3>1, <3>2 DEF LiveRows, RowsAgree
    <3>4. listing[r].remote = None
      BY <1>i, <2>3, <2>7, <3>1, <3>2 DEF LiveRows, ProcessedFirst
    <3>5. ASSUME r[2] \in places PROVE listing[r].status = "posted" /\ listing[r].prop = p
      <4>1. PICK b \in rows : r[2] = b[2]
        BY <3>5
      <4>2. b[1] = a[1] /\ b \in Rows
        BY <2>7, <4>1
      <4>3. r = b
        BY <1>t, <3>1, <3>2, <4>1, <4>2
      <4> QED BY <2>7, <4>3
    <3> QED BY <3>3, <3>4, <3>5
  <2>10. places # {} => units # {}
    OBVIOUS
  <2> HIDE DEF units, places
  <2>11. next.op = "process" /\ next.units = units /\ next.places = places /\ next.prop = p /\ next.posted = {}
    BY DEF NewCall
  <2> HIDE DEF next
  <2>12. Hook("processed", p) \notin hooks'
    BY <2>2, <2>3
  <2>13. ASSUME NEW d \in Calls, call'[d] # Idle PROVE LiveChecked(call[d])'
    <3>1. /\ call'[d].op = "process" /\ call'[d].units = units /\ call'[d].places = places
          /\ call'[d].prop = p /\ call'[d].posted = {}
      BY <2>6, <2>11, <2>13
    <3>2. ProcessChecked(call[d])'
      BY <2>2, <2>8, <2>9, <2>10, <2>12, <3>1 DEF ProcessChecked, Hook
    <3> QED BY <3>1, <3>2 DEF LiveChecked, Losing
  <2> QED BY <2>5, <2>13 DEF LiveInv, LiveCalls
\* The rest of the call.
<1>k. ASSUME NEW k, ProcessChecked(k), k.op = "process", NEW next, next.op = "process",
             next.units = k.units, next.prop = k.prop, next.places \subseteq k.places, next.posted \subseteq k.posted,
             UNCHANGED <<property, offer, hooks>>,
             \A r \in RowsOf(k.units) :
                \/ listing'[r].status = listing[r].status /\ listing'[r].prop = listing[r].prop
                   /\ listing'[r].remote = listing[r].remote
                \/ /\ listing'[r].status \notin {"scheduled", "initialized"}
                   /\ listing'[r].remote # None => Hook("withdrawn", listing'[r].remote) \notin hooks
                   /\ r[2] \notin next.places /\ ~\E x \in next.posted : x[1] = r[2],
             \A d \in Calls : call'[d] = Idle \/ call'[d] = next
      PROVE  LiveCalls'
  <2>1. ASSUME NEW d \in Calls, call'[d] # Idle PROVE LiveChecked(call[d])'
    <3>1. call'[d] = next
      BY <1>k, <2>1
    <3>2. /\ Hook("processed", k.prop) \notin hooks'
          /\ next.places # {} \/ next.posted # {} => k.units # {}
          /\ \A e \in k.units : property'[k.prop].estate = e
      BY <1>k DEF ProcessChecked
    <3>3. \A x \in next.posted : /\ offer'[x[2]].live /\ x[1] \notin next.places
                                 /\ \A y \in next.posted : y[1] = x[1] => y = x
      BY <1>k DEF ProcessChecked
    <3>4. \A r \in RowsOf(k.units) :
             /\ listing[r].status \notin {"scheduled", "initialized"}
             /\ listing[r].remote # None => Hook("withdrawn", listing[r].remote) \notin hooks
             /\ r[2] \in k.places \/ (\E x \in k.posted : x[1] = r[2]) =>
                   listing[r].status = "posted" /\ listing[r].remote = None /\ listing[r].prop = k.prop
      BY <1>k DEF ProcessChecked
    <3>5. ASSUME NEW r \in RowsOf(k.units)
          PROVE  /\ listing'[r].status \notin {"scheduled", "initialized"}
                 /\ listing'[r].remote # None => Hook("withdrawn", listing'[r].remote) \notin hooks'
                 /\ r[2] \in next.places \/ (\E x \in next.posted : x[1] = r[2]) =>
                       listing'[r].status = "posted" /\ listing'[r].remote = None /\ listing'[r].prop = k.prop
      BY <1>k, <3>4, <3>5
    <3>6. ProcessChecked(next)'
      BY <1>k, <3>2, <3>3, <3>5 DEF ProcessChecked, Hook
    <3>7. ProcessChecked(call[d])'
      BY <3>1, <3>6 DEF ProcessChecked
    <3> QED BY <1>k, <3>1, <3>7 DEF LiveChecked, Losing
  <2> QED BY <2>1 DEF LiveCalls
<1>2. ASSUME NEW publisher \in Publishers, NEW told \in BOOLEAN, ListingRefused(c, publisher, told) PROVE LiveInv'
  <2>1. PICK k \in Call : /\ k = call[c] /\ k.op = "process" /\ ProcessChecked(k) /\ k.units \in SUBSET Estates
                          /\ k.posted \subseteq Publishers \X Offers /\ k.prop \in Props
                          /\ publisher \in k.places
    BY <1>2, <1>c DEF ListingRefused
  <2>2. UNCHANGED <<property, offer, hooks, jobs>> /\ JobsMark'
    BY <1>2, <1>i DEF ListingRefused, remoteVars, JobsMark
  <2>3. \A row \in Listing : LET new == [row EXCEPT !.status = "error"]
                             IN  new.status = "error" /\ new.prop = row.prop /\ new.remote = row.remote
    BY DEF Listing
  <2> DEFINE rows == IF told THEN RowOf(c, publisher) ELSE {}
  <2>4. \A r \in Rows : /\ listing'[r].prop = listing[r].prop /\ listing'[r].remote = listing[r].remote
                        /\ IF r \in rows THEN listing'[r].status = "error" ELSE listing'[r].status = listing[r].status
    BY <1>2, <1>l, <2>3 DEF ListingRefused, WithListings
  <2>5. \A r \in Rows : r \in rows => r[1] \in k.units /\ r[2] = publisher
    BY <2>1 DEF RowOf
  <2> HIDE DEF rows
  <2>6. \A r \in Rows : r \in rows => /\ r \in RowsOf(k.units) /\ listing[r].status = "posted"
                                      /\ listing[r].remote = None /\ listing[r].prop = k.prop /\ k.prop # None
    <3>1. \A r \in Rows : r \in rows => r \in RowsOf(k.units)
      BY <1>t, <2>5 DEF RowsOf
    <3>2. k.prop # None
      BY <2>1, MarketAssumption
    <3> QED BY <2>1, <2>5, <3>1, <3>2 DEF ProcessChecked
  <2> DEFINE next == [k EXCEPT !.places = @ \ {publisher}]
  <2>7. GoesOn(c, next)
    BY <1>2, <2>1 DEF ListingRefused
  <2>8. /\ next.op = "process" /\ next.units = k.units /\ next.prop = k.prop
        /\ next.places = k.places \ {publisher} /\ next.posted = k.posted
    BY <2>1 DEF Call
  <2>n. next \in Call
    <3>1. k.places \ {publisher} \in SUBSET Publishers
      BY <2>1 DEF Call
    <3> QED BY <2>1, <3>1, CallUpdates
  <2> HIDE DEF next
  <2>9. \A o \in Offers : Storing(o) => Storing(o)'
    <3>1. ASSUME NEW o \in Offers, NEW p \in Publishers, <<p, o>> \in k.posted PROVE Storing(o)'
      <4>1. Goes(c, next)
        BY <2>7, <2>8, <3>1 DEF GoesOn
      <4>2. call'[c] = next /\ next # Idle
        <5>1. call'[c] = next
          BY <4>1, OneGoes
        <5>2. next # Idle
          BY <2>n, IdleAssumption
        <5> QED BY <5>1, <5>2
      <4> QED BY <2>8, <3>1, <4>2 DEF Storing, Serving
    <3> QED BY <1>o, <2>1, <3>1
  <2>10. LiveCalls'
    <3>1. \A r \in RowsOf(k.units) :
             \/ listing'[r].status = listing[r].status /\ listing'[r].prop = listing[r].prop
                /\ listing'[r].remote = listing[r].remote
             \/ /\ listing'[r].status \notin {"scheduled", "initialized"}
                /\ listing'[r].remote # None => Hook("withdrawn", listing'[r].remote) \notin hooks
                /\ r[2] \notin next.places /\ ~\E x \in next.posted : x[1] = r[2]
      <4>1. \A r \in RowsOf(k.units) : r \in Rows
        BY <2>1 DEF RowsOf, Rows
      <4>2. ~\E x \in k.posted : x[1] = publisher
        BY <2>1 DEF ProcessChecked
      <4> QED BY <2>4, <2>5, <2>6, <2>8, <4>1, <4>2
    <3>2. \A d \in Calls : call'[d] = Idle \/ call'[d] = next
      BY <2>7, OneGoesOn
    <3> QED BY <1>k, <2>1, <2>2, <2>8, <3>1, <3>2
  <2>11. OfferKnown'
    BY <1>i, <2>2, <2>4, <2>9, KnownStays, SameOffers DEF LiveRows
  <2>12. BlankRows' /\ RowsAgree' /\ ProcessedFirst'
    BY <1>i, <2>2, <2>4, <2>6, StatusChange
  <2>13. LiveOnMarket'
    BY <1>i, <2>2, <2>4, <2>6 DEF LiveRows, LiveOnMarket
  <2>q. \A e : Quiet(e)' <=> Quiet(e)
    BY <2>2 DEF Quiet
  <2>14. ScheduledEnds'
    BY <1>i, <1>q, <1>t, <2>4, <2>q DEF LiveRows, ScheduledEnds
  <2>15. WithdrawnEnds'
    <3>1. ASSUME NEW r \in Rows, listing'[r].remote # None, Hook("withdrawn", listing'[r].remote) \in hooks
          PROVE  \/ listing'[r].status = "error" /\ Hook("published", listing'[r].remote) \notin hooks
                 \/ Quiet(r[1])'
      BY <1>i, <1>q, <1>t, <2>4, <2>q, <3>1 DEF LiveRows, WithdrawnEnds
    <3> QED BY <2>2, <3>1 DEF WithdrawnEnds, Hook
  <2>16. LiveHooks'
    BY <1>i, <2>2, LiveHooksStay
  <2> QED BY <2>10, <2>11, <2>12, <2>13, <2>14, <2>15, <2>16 DEF LiveInv, LiveRows
<1>3. ASSUME NEW publisher \in Publishers, NEW o \in Offers, StoreListing(c, publisher, o) PROVE LiveInv'
  <2>1. PICK k \in Call : /\ k = call[c] /\ k.op = "process" /\ ProcessChecked(k) /\ k.units \in SUBSET Estates
                          /\ k.posted \subseteq Publishers \X Offers /\ k.prop \in Props
                          /\ <<publisher, o>> \in k.posted
    BY <1>3, <1>c DEF StoreListing
  <2>2. UNCHANGED <<property, offer, hooks, jobs>> /\ JobsMark'
    BY <1>3, <1>i DEF StoreListing, remoteVars, JobsMark
  <2>3. \A row \in Listing : LET new == [row EXCEPT !.remote = o]
                             IN  new.status = row.status /\ new.prop = row.prop /\ new.remote = o
    BY DEF Listing
  <2> DEFINE rows == RowOf(c, publisher)
  <2>4. \A r \in Rows : /\ listing'[r].prop = listing[r].prop /\ listing'[r].status = listing[r].status
                        /\ IF r \in rows THEN listing'[r].remote = o ELSE listing'[r].remote = listing[r].remote
    BY <1>3, <1>l, <2>3 DEF StoreListing
  <2>5. \A r \in Rows : r \in rows <=> r[1] \in k.units /\ r[2] = publisher
    BY <2>1 DEF RowOf
  <2> HIDE DEF rows
  <2>x. \E x \in k.posted : x[1] = publisher /\ x[2] = o
    BY <2>1
  <2>6. \A r \in Rows : r \in rows => /\ r \in RowsOf(k.units) /\ listing[r].status = "posted"
                                      /\ listing[r].remote = None /\ listing[r].prop = k.prop
    <3>1. \A r \in Rows : r \in rows => r \in RowsOf(k.units)
      BY <1>t, <2>5 DEF RowsOf
    <3> QED BY <2>1, <2>5, <2>x, <3>1 DEF ProcessChecked
  <2>7. \A r \in Rows : r[1] \in k.units => /\ listing[r].status \notin {"scheduled", "initialized"}
                                            /\ listing[r].status = "posted" => listing[r].prop = k.prop
    <3>1. \A r \in Rows : r[1] \in k.units => r \in RowsOf(k.units)
      BY <1>t DEF RowsOf
    <3>2. ASSUME NEW r \in Rows, r[1] \in k.units, listing[r].status = "posted" PROVE listing[r].prop = k.prop
      <4>1. PICK q \in Rows : q = <<r[1], publisher>>
        BY <3>2, <1>t DEF Rows
      <4>2. q[1] = r[1] /\ q \in rows
        BY <2>5, <3>2, <4>1
      <4> QED BY <1>i, <2>6, <3>2, <4>1, <4>2 DEF LiveRows, RowsAgree
    <3> QED BY <2>1, <3>1, <3>2 DEF ProcessChecked
  <2>8. offer[o].live /\ Hook("withdrawn", o) \notin hooks /\ Hook("processed", k.prop) \notin hooks
    BY <1>i, <2>1, <2>x DEF ProcessChecked, LiveHooks, OfferHooksTrue
  <2> DEFINE next == [k EXCEPT !.posted = @ \ {<<publisher, o>>}]
  <2>9. GoesOn(c, next)
    BY <1>3, <2>1 DEF StoreListing
  <2>10. /\ next.op = "process" /\ next.units = k.units /\ next.prop = k.prop
         /\ next.places = k.places /\ next.posted = k.posted \ {<<publisher, o>>}
    BY <2>1 DEF Call
  <2>n. next \in Call
    <3>1. k.posted \ {<<publisher, o>>} \in SUBSET (Publishers \X Offers)
      BY <2>1
    <3> QED BY <2>1, <3>1, CallUpdates
  <2> HIDE DEF next
  <2>11. \A p \in Offers : Storing(p) => p = o \/ Storing(p)'
    <3>1. ASSUME NEW p \in Offers, NEW s \in Publishers, <<s, p>> \in k.posted, p # o PROVE Storing(p)'
      <4>0. <<s, p>> \in next.posted
        BY <2>10, <3>1
      <4>1. Goes(c, next)
        BY <2>9, <4>0 DEF GoesOn
      <4>2. call'[c] = next
        BY <4>1, OneGoes
      <4>3. next # Idle
        BY <2>n, IdleAssumption
      <4> QED BY <2>10, <4>0, <4>2, <4>3 DEF Storing, Serving
    <3> QED BY <1>o, <2>1, <3>1
  <2>12. LiveCalls'
    <3>1. \A r \in RowsOf(k.units) :
             \/ listing'[r].status = listing[r].status /\ listing'[r].prop = listing[r].prop
                /\ listing'[r].remote = listing[r].remote
             \/ /\ listing'[r].status \notin {"scheduled", "initialized"}
                /\ listing'[r].remote # None => Hook("withdrawn", listing'[r].remote) \notin hooks
                /\ r[2] \notin next.places /\ ~\E x \in next.posted : x[1] = r[2]
      <4>1. \A r \in RowsOf(k.units) : r \in Rows
        BY <2>1 DEF RowsOf, Rows
      <4>2. publisher \notin k.places /\ \A x \in k.posted : x[1] = publisher => x = <<publisher, o>>
        BY <2>1 DEF ProcessChecked
      <4> QED BY <2>4, <2>5, <2>6, <2>8, <2>10, <4>1, <4>2
    <3>2. \A d \in Calls : call'[d] = Idle \/ call'[d] = next
      BY <2>9, OneGoesOn
    <3> QED BY <1>k, <2>1, <2>2, <2>10, <3>1, <3>2
  <2>13. OfferKnown'
    <3>1. ASSUME NEW p \in Offers, offer[p].live PROVE (\E r \in Rows : listing'[r].remote = p) \/ Storing(p)'
      <4>1. CASE p = o
        <5>1. PICK e \in k.units : TRUE
          BY <2>1 DEF ProcessChecked
        <5>2. PICK r \in Rows : r = <<e, publisher>>
          BY <2>1, <5>1 DEF Rows
        <5> QED BY <2>4, <2>5, <4>1, <5>1, <5>2
      <4>2. CASE p # o
        <5>1. (\E r \in Rows : listing[r].remote = p) \/ Storing(p)
          BY <1>i, <3>1 DEF LiveRows, OfferKnown
        <5>2. p # None
          BY MarketAssumption
        <5> QED BY <2>4, <2>6, <2>11, <4>2, <5>1, <5>2
      <4> QED BY <4>1, <4>2
    <3> QED BY <1>i, <2>2, <3>1 DEF LiveRows, OfferKnown
  <2>14. BlankRows'
    BY <1>i, <2>4, <2>6 DEF LiveRows, BlankRows
  <2>15. LiveOnMarket'
    BY <1>i, <2>2, <2>4, <2>6 DEF LiveRows, LiveOnMarket
  <2>q. \A e : Quiet(e)' <=> Quiet(e)
    BY <2>2 DEF Quiet
  <2>16. ScheduledEnds'
    BY <1>i, <1>q, <1>t, <2>4, <2>q DEF LiveRows, ScheduledEnds
  <2>17. RowsAgree'
    <3>1. ASSUME NEW r \in Rows, NEW q \in Rows, r[1] = q[1]
          PROVE  /\ listing'[r].status = "posted" => listing'[q].status # "scheduled"
                 /\ listing'[r].status = "posted" /\ listing'[q].status = "posted" => listing'[r].prop = listing'[q].prop
                 /\ listing'[r].status = "initialized" =>
                      /\ listing'[q].status \in {"none", "initialized", "deleted"}
                      /\ listing'[q].prop = None /\ listing'[q].remote = None
      BY <1>i, <2>4, <2>5, <2>7, <3>1 DEF LiveRows, RowsAgree
    <3> QED BY <3>1 DEF RowsAgree
  <2>18. WithdrawnEnds'
    <3>1. ASSUME NEW r \in Rows, listing'[r].remote # None, Hook("withdrawn", listing'[r].remote) \in hooks
          PROVE  \/ listing'[r].status = "error" /\ Hook("published", listing'[r].remote) \notin hooks
                 \/ Quiet(r[1])'
      <4>1. r \notin rows
        BY <2>4, <2>8, <3>1
      <4> QED BY <1>i, <1>q, <1>t, <2>4, <2>q, <3>1, <4>1 DEF LiveRows, WithdrawnEnds
    <3> QED BY <2>2, <3>1 DEF WithdrawnEnds, Hook
  <2>19. ProcessedFirst'
    <3>1. ASSUME NEW r \in Rows, NEW q \in Rows, r[1] = q[1], listing'[r].status = "posted",
                 Hook("processed", listing'[r].prop) \in hooks
          PROVE  listing'[q].remote = None
      <4>1. listing[r].status = "posted" /\ listing[r].prop = listing'[r].prop
        BY <2>4, <3>1
      <4>2. r[1] \notin k.units
        BY <2>7, <2>8, <3>1, <4>1
      <4>3. listing[q].remote = None
        BY <1>i, <3>1, <4>1 DEF LiveRows, ProcessedFirst
      <4> QED BY <2>4, <2>5, <3>1, <4>2, <4>3
    <3> QED BY <2>2, <3>1 DEF ProcessedFirst, Hook
  <2>20. LiveHooks'
    BY <1>i, <2>2, LiveHooksStay
  <2> QED BY <2>12, <2>13, <2>14, <2>15, <2>16, <2>17, <2>18, <2>19, <2>20 DEF LiveInv, LiveRows
<1>4. ASSUME NEW publisher \in Publishers, NEW o \in Offers, PostListing(c, publisher, o) PROVE LiveInv'
  <2>1. PICK k \in Call : /\ k = call[c] /\ k.op = "process" /\ ProcessChecked(k) /\ k.units \in SUBSET Estates
                          /\ k.posted \subseteq Publishers \X Offers /\ k.prop \in Props
                          /\ k.places \subseteq Publishers /\ publisher \in k.places
    BY <1>4, <1>c DEF PostListing
  <2>2. UNCHANGED <<listing, property, jobs>> /\ JobsMark' /\ property[k.prop].live /\ k.prop # None /\ o # None
    BY <1>4, <1>i, <2>1, MarketAssumption DEF PostListing, JobsMark
  <2>3. /\ offer[o].prop = None
        /\ offer'[o].prop = k.prop /\ offer'[o].live /\ ~offer'[o].kept
        /\ \A p \in Offers : p # o => offer'[p] = offer[p]
    <3>1. LET new == [NoOffer EXCEPT !.prop = k.prop, !.publisher = publisher, !.live = TRUE]
          IN  new.prop = k.prop /\ new.live /\ ~new.kept
      BY DEF NoOffer
    <3>2. offer \in [Offers -> Offer]
      BY DEF TypeOK
    <3> QED BY <1>4, <2>1, <3>1, <3>2 DEF PostListing, NewOffer
  <2>4. PICK outcome \in {"published", "notPublished"} : hooks' = hooks \cup {Hook(outcome, o)}
    BY <1>4 DEF PostListing, NewOffer, Hook
  <2>h. \A event, id : Hook(event, id).event = event /\ Hook(event, id).id = id
    BY DEF Hook
  <2>5. \A event, id : Hook(event, id) \in hooks' <=> Hook(event, id) \in hooks \/ (id = o /\ event = outcome)
    BY <2>4, <2>h
  <2>6. \A event : event \in {"published", "notPublished", "withdrawn"} => Hook(event, o) \notin hooks
    BY <1>i, <2>3 DEF LiveHooks, OfferHooksTrue
  <2>7. ~offer[o].live /\ \A r \in Rows : listing[r].remote # o
    <3>1. ~offer[o].live
      BY <1>i, <2>3 DEF LiveRows, OfferKnown
    <3>2. ASSUME NEW r \in Rows, listing[r].remote = o PROVE FALSE
      <4>1. listing[r].prop \in Props /\ offer[o].prop = listing[r].prop
        BY <1>i, <2>2, <3>2, NamedListing
      <4> QED BY <2>3, <4>1, MarketAssumption
    <3> QED BY <3>1, <3>2
  <2>8. PICK e \in k.units : property[k.prop].estate = e /\ k.units = {e} /\ e \in Estates
    BY <2>1 DEF ProcessChecked
  <2>q. \A d : d # e /\ Quiet(d) => Quiet(d)'
    BY <2>2, <2>3, <2>8 DEF Quiet
  <2>9. \A r \in Rows : r[1] = e => /\ listing[r].status # "scheduled"
                                    /\ listing[r].remote # None => Hook("withdrawn", listing[r].remote) \notin hooks
    <3>1. \A r \in Rows : r[1] = e => r \in RowsOf(k.units)
      BY <1>t, <2>8 DEF RowsOf
    <3> QED BY <2>1, <3>1 DEF ProcessChecked
  <2> DEFINE next == [k EXCEPT !.places = @ \ {publisher}, !.posted = @ \cup {<<publisher, o>>}]
  <2>10. /\ next.op = "process" /\ next.units = k.units /\ next.prop = k.prop
         /\ next.places = k.places \ {publisher} /\ next.posted = k.posted \cup {<<publisher, o>>}
    BY <2>1 DEF Call
  <2>n. next \in Call
    <3>1. k.places \ {publisher} \in SUBSET Publishers
          /\ k.posted \cup {<<publisher, o>>} \in SUBSET (Publishers \X Offers)
      BY <2>1
    <3> QED BY <2>1, <3>1, CallUpdates
  <2>11. \A d \in Calls : call'[d] = next
    BY <1>4, <2>1, OneGoes DEF PostListing
  <2> HIDE DEF next
  <2>12. next # Idle
    BY <2>n, IdleAssumption
  <2>13. Storing(o)' /\ \A p \in Offers : Storing(p) => Storing(p)'
    <3>1. ASSUME NEW p \in Offers, NEW s \in Publishers, <<s, p>> \in next.posted PROVE Storing(p)'
      BY <2>10, <2>11, <2>12, <3>1 DEF Storing, Serving
    <3> QED BY <1>o, <2>1, <2>10, <3>1
  <2>14. OfferKnown'
    <3>1. ASSUME NEW p \in Offers
          PROVE  /\ ~offer'[p].kept
                 /\ offer'[p].prop # None => property[offer'[p].prop].estate # None
                 /\ offer'[p].live => offer'[p].prop # None /\ ((\E r \in Rows : listing[r].remote = p) \/ Storing(p)')
      <4>1. CASE p = o
        BY <2>2, <2>3, <2>8, <2>13, <4>1, MarketAssumption
      <4>2. CASE p # o
        BY <1>i, <2>3, <2>13, <4>2 DEF LiveRows, OfferKnown
      <4> QED BY <4>1, <4>2
    <3> QED BY <2>2, <3>1 DEF OfferKnown
  <2>15. BlankRows' /\ RowsAgree'
    BY <1>i, <2>2 DEF LiveRows, BlankRows, RowsAgree
  <2>16. LiveOnMarket'
    <3>1. \A r \in Rows : listing[r].remote # None => listing[r].remote \in Offers
      BY <1>i, NamedListing
    <3> QED BY <1>i, <2>2, <2>3, <2>7, <3>1 DEF LiveRows, LiveOnMarket
  <2>17. ScheduledEnds'
    BY <1>i, <1>q, <1>t, <2>2, <2>9, <2>q DEF LiveRows, ScheduledEnds
  <2>18. WithdrawnEnds'
    <3>1. ASSUME NEW r \in Rows, listing[r].remote # None, Hook("withdrawn", listing[r].remote) \in hooks'
          PROVE  \/ listing[r].status = "error" /\ Hook("published", listing[r].remote) \notin hooks'
                 \/ Quiet(r[1])'
      <4>1. Hook("withdrawn", listing[r].remote) \in hooks /\ listing[r].remote # o
        BY <2>5, <2>7, <3>1
      <4>2. r[1] # e
        BY <2>9, <3>1, <4>1
      <4> QED BY <1>i, <1>q, <1>t, <2>5, <2>q, <3>1, <4>1, <4>2 DEF LiveRows, WithdrawnEnds
    <3> QED BY <2>2, <3>1 DEF WithdrawnEnds, Hook
  <2>19. ProcessedFirst'
    <3>1. ASSUME NEW r \in Rows, NEW q \in Rows, r[1] = q[1], listing[r].status = "posted",
                 Hook("processed", listing[r].prop) \in hooks'
          PROVE  listing[q].remote = None
      <4>1. Hook("processed", listing[r].prop) \in hooks
        BY <2>5, <3>1
      <4> QED BY <1>i, <3>1, <4>1 DEF LiveRows, ProcessedFirst
    <3> QED BY <2>2, <3>1 DEF ProcessedFirst, Hook
  <2>20. PropertyHooksTrue'
    <3>1. ASSUME NEW q \in Props
          PROVE  /\ Hook("processed", q) \in hooks' \/ Hook("rejected", q) \in hooks' => property[q].estate # None
                 /\ Hook("rejected", q) \in hooks' => ~property[q].live /\ \A p \in Offers : offer'[p].prop # q
      <4>1. /\ Hook("processed", q) \in hooks' => Hook("processed", q) \in hooks
            /\ Hook("rejected", q) \in hooks' => Hook("rejected", q) \in hooks
        BY <2>5
      <4>2. Hook("rejected", q) \in hooks => q # k.prop
        BY <1>i, <2>2 DEF LiveHooks, PropertyHooksTrue
      <4> QED BY <1>i, <2>3, <4>1, <4>2 DEF LiveHooks, PropertyHooksTrue
    <3> QED BY <2>2, <3>1 DEF PropertyHooksTrue, Hook
  <2>21. OfferHooksTrue'
    <3>1. ASSUME NEW p \in Offers
          PROVE  /\ Hook("notWithdrawn", p) \notin hooks'
                 /\ Hook("published", p) \in hooks' \/ Hook("notPublished", p) \in hooks' \/ Hook("withdrawn", p) \in hooks'
                    => offer'[p].prop # None
                 /\ Hook("published", p) \notin hooks' \/ Hook("notPublished", p) \notin hooks'
                 /\ Hook("withdrawn", p) \in hooks' => ~offer'[p].live
      <4>1. CASE p = o
        BY <1>i, <2>2, <2>3, <2>5, <2>6, <4>1 DEF LiveHooks, OfferHooksTrue
      <4>2. CASE p # o
        BY <1>i, <2>3, <2>5, <4>2 DEF LiveHooks, OfferHooksTrue
      <4> QED BY <4>1, <4>2
    <3> QED BY <3>1 DEF OfferHooksTrue, Hook
  <2>22. ProcessChecked(next)'
    <3>1. /\ Hook("processed", k.prop) \notin hooks' /\ \A d \in k.units : property'[k.prop].estate = d
      BY <2>1, <2>2, <2>5 DEF ProcessChecked
    <3>2. /\ \A x \in k.posted : /\ offer[x[2]].live /\ x[1] \notin k.places /\ x[2] \in Offers
                                 /\ \A y \in k.posted : y[1] = x[1] => y = x
      BY <2>1 DEF ProcessChecked
    <3>3. \A x \in next.posted : x \in k.posted \/ (x = <<publisher, o>> /\ x[1] = publisher /\ x[2] = o)
      BY <2>10
    <3>4. ASSUME NEW x \in next.posted
          PROVE  /\ offer'[x[2]].live /\ x[1] \notin next.places
                 /\ \A y \in next.posted : y[1] = x[1] => y = x
      <4>1. offer'[x[2]].live
        BY <2>3, <2>7, <3>2, <3>3, <3>4
      <4>2. x[1] \notin next.places
        BY <2>10, <3>2, <3>3, <3>4
      <4>3. ASSUME NEW y \in next.posted, y[1] = x[1] PROVE y = x
        BY <2>1, <3>2, <3>3, <3>4, <4>3
      <4> QED BY <4>1, <4>2, <4>3
    <3>5. \A r \in RowsOf(k.units) :
             /\ listing[r].status \notin {"scheduled", "initialized"}
             /\ listing[r].remote # None => Hook("withdrawn", listing[r].remote) \notin hooks
             /\ r[2] \in k.places \/ (\E x \in k.posted : x[1] = r[2]) =>
                   listing[r].status = "posted" /\ listing[r].remote = None /\ listing[r].prop = k.prop
      BY <2>1 DEF ProcessChecked
    <3>6. ASSUME NEW r \in RowsOf(k.units)
          PROVE  /\ listing[r].status \notin {"scheduled", "initialized"}
                 /\ listing[r].remote # None => Hook("withdrawn", listing[r].remote) \notin hooks'
                 /\ r[2] \in next.places \/ (\E x \in next.posted : x[1] = r[2]) =>
                       listing[r].status = "posted" /\ listing[r].remote = None /\ listing[r].prop = k.prop
      <4>1. listing[r].remote # None => Hook("withdrawn", listing[r].remote) \notin hooks'
        BY <2>4, <2>5, <3>5, <3>6
      <4>2. r[2] \in next.places \/ (\E x \in next.posted : x[1] = r[2]) =>
               r[2] \in k.places \/ \E x \in k.posted : x[1] = r[2]
        BY <2>1, <2>10, <3>3
      <4> QED BY <3>5, <3>6, <4>1, <4>2
    <3> QED BY <2>2, <2>8, <2>10, <3>1, <3>4, <3>6 DEF ProcessChecked, Hook
  <2>23. \A d \in Calls : LiveChecked(call[d])'
    <3>1. ASSUME NEW d \in Calls PROVE ProcessChecked(call[d])'
      BY <2>11, <2>22 DEF ProcessChecked
    <3> QED BY <2>10, <2>11, <3>1 DEF LiveChecked, Losing
  <2> QED BY <2>2, <2>14, <2>15, <2>16, <2>17, <2>18, <2>19, <2>20, <2>21, <2>23
          DEF LiveInv, LiveRows, LiveHooks, LiveCalls
<1> QED BY <1>1, <1>2, <1>3, <1>4

\* EstateSync deletes what it is asked to.
LEMMA DeletedOffers ==
    ASSUME TypeOK, "refuseDelete" \notin Endpoints, NEW gone \in SUBSET Offers, NEW others,
           DeleteOffers(gone, others)
    PROVE  /\ \A o \in Offers : /\ offer'[o].prop = offer[o].prop /\ offer'[o].kept = offer[o].kept
                                /\ offer'[o].live => offer[o].live /\ o \notin gone
                                /\ offer[o].live /\ o \notin gone => offer'[o].live
           /\ \A event, id : Hook(event, id) \in hooks' =>
                 Hook(event, id) \in others \/ (event = "withdrawn" /\ id \in gone /\ offer[id].live)
<1> DEFINE live == {o \in gone : offer[o].live}
<1>1. PICK reports \in [live -> Outcome] :
           /\ offer' = [o \in Offers |->
                  IF o \notin live THEN offer[o]
                  ELSE IF reports[o] = "withdrawn" THEN [offer[o] EXCEPT !.live = FALSE]
                  ELSE [offer[o] EXCEPT !.kept = TRUE]]
           /\ hooks' = others \cup {[event |-> reports[o], id |-> o] : o \in live}
  BY DEF DeleteOffers
<1>2. \A o \in live : reports[o] = "withdrawn"
  BY <1>1 DEF Outcome
<1>3. \A row \in Offer : LET new == [row EXCEPT !.live = FALSE]
                         IN  new.prop = row.prop /\ new.kept = row.kept /\ ~new.live
  BY DEF Offer
<1>4. \A o \in Offers : IF o \in live THEN offer'[o] = [offer[o] EXCEPT !.live = FALSE] ELSE offer'[o] = offer[o]
  BY <1>1, <1>2
<1>5. \A o \in Offers : offer[o] \in Offer
  BY DEF TypeOK
<1>6. \A o \in Offers : o \in live <=> o \in gone /\ offer[o].live
  OBVIOUS
<1>7. hooks' = others \cup {Hook("withdrawn", o) : o \in live}
  BY <1>1, <1>2 DEF Hook
<1>8. \A event, id : Hook(event, id).event = event /\ Hook(event, id).id = id
  BY DEF Hook
<1> HIDE DEF live
<1>9. ASSUME NEW o \in Offers
      PROVE  /\ offer'[o].prop = offer[o].prop /\ offer'[o].kept = offer[o].kept
             /\ offer'[o].live => offer[o].live /\ o \notin gone
             /\ offer[o].live /\ o \notin gone => offer'[o].live
  BY <1>3, <1>4, <1>5, <1>6
<1>10. ASSUME NEW event, NEW id, Hook(event, id) \in hooks', Hook(event, id) \notin others
       PROVE  event = "withdrawn" /\ id \in gone /\ offer[id].live
  <2>1. PICK o \in live : Hook(event, id) = Hook("withdrawn", o)
    BY <1>7, <1>10
  <2>2. event = "withdrawn" /\ id = o
    BY <1>8, <2>1
  <2> QED BY <2>2 DEF live
<1> QED BY <1>9, <1>10

\* The id of a webhook, and the webhooks that are left.
LEMMA HookTaken ==
    ASSUME TypeOK, NEW h \in hooks
    PROVE  /\ h = Hook(h.event, h.id)
           /\ \A others : others = hooks \ {h} =>
                 \A event, id : Hook(event, id) \in others =>
                    Hook(event, id) \in hooks /\ ~(event = h.event /\ id = h.id)
<1>1. h \in PropertyHooks \cup OfferHooks
  BY DEF TypeOK
<1>2. h = Hook(h.event, h.id)
  BY <1>1 DEF PropertyHooks, OfferHooks, Hook
<1> QED BY <1>2

\* Webhooks about a property or a listing.
LEMMA ReportsLive ==
    ASSUME TypeOK, OneCall, NameInv, LiveInv, "refuseDelete" \notin Endpoints, NEW c \in Calls,
           \/ \E h \in hooks : \/ PropertyProcessingFailed(c, h) \/ PublicationSucceeded(c, h)
                               \/ PublicationFailed(c, h) \/ PublicationDeleted(c, h) \/ DeletionFailed(c, h)
           \/ DeleteExhausted(c)
    PROVE  LiveInv'
<1>i. LiveRows /\ LiveHooks /\ LiveCalls /\ RowNames /\ RowsOfEstates /\ JobsMark
  BY DEF LiveInv, LiveHooks, NameInv
<1>t. \A r \in Rows : r[1] \in Estates /\ r[2] \in Publishers /\ r = <<r[1], r[2]>>
  BY DEF Rows
<1>l. \A r \in Rows : listing[r] \in Listing /\ listing[r].remote \in Offers \cup {None}
  BY DEF TypeOK, Listing
<1>q. (\A o \in Offers : ~Storing(o)) /\ \A e \in Estates : ~Ending(e)
  <2>1. call[c] = Idle \/ call[c].op = "exhaust"
    BY DEF PropertyProcessingFailed, PublicationSucceeded, PublicationFailed, PublicationDeleted, DeletionFailed,
       DeleteExhausted, Arrives, Serving
  <2> QED BY <2>1, NothingStored, NothingEnding
<1>k. ASSUME call[c] = Idle, UNCHANGED call PROVE LiveCalls'
  BY <1>k DEF LiveCalls, OneCall
<1>w. ASSUME NEW rows, NEW s \in {"error", "published", "deleted"}, listing' = WithListings(rows, s)
      PROVE  \A r \in Rows : /\ listing'[r].prop = listing[r].prop /\ listing'[r].remote = listing[r].remote
                             /\ IF r \in rows THEN listing'[r].status = s
                                ELSE listing'[r].status = listing[r].status
  <2>1. \A row \in Listing : /\ [row EXCEPT !.status = s].status = s
                             /\ [row EXCEPT !.status = s].prop = row.prop
                             /\ [row EXCEPT !.status = s].remote = row.remote
    BY DEF Listing
  <2>2. \A r \in Rows : listing'[r] = IF r \in rows THEN [listing[r] EXCEPT !.status = s] ELSE listing[r]
    BY <1>w DEF WithListings
  <2> QED BY <1>l, <1>w, <2>1, <2>2
<1>n. ASSUME NEW r \in Rows, NEW o, listing[r].remote = o, o # None
      PROVE  /\ o \in Offers /\ listing[r].prop # None /\ offer[o].prop = listing[r].prop
             /\ \A q \in Rows : listing[q].remote = o => q = r
  <2>1. listing[r].prop \in Props
    BY <1>i, <1>n, NamedListing
  <2>2. listing[r].prop # None
    BY <2>1, MarketAssumption
  <2> QED BY <1>i, <1>n, <2>2, NamedListing
<1>1. ASSUME NEW h \in hooks, PropertyProcessingFailed(c, h) PROVE LiveInv'
  <2>1. PICK p \in Props : p = h.id
    BY <1>1, HookFields DEF PropertyProcessingFailed
  <2>2. /\ UNCHANGED <<property, offer, jobs, call>> /\ hooks' \subseteq hooks /\ call[c] = Idle /\ JobsMark'
        /\ Hook("rejected", p) \in hooks /\ p # None
    BY <1>1, <1>i, <2>1, HookTaken, MarketAssumption DEF PropertyProcessingFailed, Arrives, JobsMark
  <2>3. \A r \in Rows : listing[r].prop = p => listing[r].remote = None
    <3>1. \A o \in Offers : offer[o].prop # p
      BY <1>i, <2>2 DEF LiveHooks, PropertyHooksTrue
    <3> QED BY <1>i, <1>l, <3>1 DEF RowNames
  <2> DEFINE rows == {r \in Rows : listing[r].prop = p}
  <2>4. \A r \in Rows : /\ listing'[r].prop = listing[r].prop /\ listing'[r].remote = listing[r].remote
                        /\ IF r \in rows THEN listing'[r].status = "error" ELSE listing'[r].status = listing[r].status
    <3>1. \A row \in Listing : LET new == [row EXCEPT !.failed = TRUE, !.status = "error"]
                               IN  new.status = "error" /\ new.prop = row.prop /\ new.remote = row.remote
      BY DEF Listing
    <3>2. listing' = IF \A r \in rows : listing[r].remote # None THEN listing
                     ELSE [r \in Rows |-> IF r \in rows
                              THEN [listing[r] EXCEPT !.failed = TRUE, !.status = "error"]
                              ELSE listing[r]]
      BY <1>1, <2>1 DEF PropertyProcessingFailed
    <3>3. CASE \A r \in rows : listing[r].remote # None
      <4>1. \A r \in Rows : r \notin rows
        BY <2>3, <3>3
      <4> QED BY <3>2, <3>3, <4>1
    <3>4. CASE ~\A r \in rows : listing[r].remote # None
      <4>1. \A r \in Rows : listing'[r] = IF r \in rows THEN [listing[r] EXCEPT !.failed = TRUE, !.status = "error"]
                                          ELSE listing[r]
        BY <3>2, <3>4
      <4> QED BY <1>l, <3>1, <4>1
    <3> QED BY <3>3, <3>4
  <2>5. \A r \in Rows : r \in rows => listing[r].prop # None /\ listing[r].remote = None
    BY <2>2, <2>3
  <2> HIDE DEF rows
  <2>h. \A event, id : Hook(event, id) \in hooks' => Hook(event, id) \in hooks
    BY <2>2
  <2>6. OfferKnown'
    BY <1>i, <1>q, <2>2, <2>4, KnownStays, SameOffers DEF LiveRows
  <2>7. BlankRows' /\ RowsAgree' /\ ProcessedFirst'
    BY <1>i, <2>4, <2>5, <2>h, StatusChange
  <2>8. LiveOnMarket'
    BY <1>i, <2>2, <2>4, <2>5 DEF LiveRows, LiveOnMarket
  <2>q. \A e : Quiet(e)' <=> Quiet(e)
    BY <2>2 DEF Quiet
  <2>9. ScheduledEnds'
    BY <1>i, <1>q, <1>t, <2>4, <2>q DEF LiveRows, ScheduledEnds
  <2>10. WithdrawnEnds'
    <3>1. ASSUME NEW r \in Rows, listing'[r].remote # None, Hook("withdrawn", listing'[r].remote) \in hooks'
          PROVE  \/ listing'[r].status = "error" /\ Hook("published", listing'[r].remote) \notin hooks'
                 \/ Quiet(r[1])'
      BY <1>i, <1>q, <1>t, <2>4, <2>h, <2>q, <3>1 DEF LiveRows, WithdrawnEnds
    <3> QED BY <3>1 DEF WithdrawnEnds, Hook
  <2>11. LiveHooks'
    BY <1>i, <2>2, LiveHooksStay
  <2>12. LiveCalls'
    BY <1>k, <2>2
  <2> QED BY <2>6, <2>7, <2>8, <2>9, <2>10, <2>11, <2>12 DEF LiveInv, LiveRows
<1>2. ASSUME NEW h \in hooks, PublicationSucceeded(c, h) PROVE LiveInv'
  <2>1. PICK o \in Offers : o = h.id
    BY <1>2, HookFields DEF PublicationSucceeded
  <2>2. /\ UNCHANGED <<property, offer, jobs, call>> /\ hooks' \subseteq hooks /\ call[c] = Idle /\ JobsMark'
        /\ Hook("published", o) \in hooks /\ o # None
    BY <1>2, <1>i, <2>1, HookTaken, MarketAssumption DEF PublicationSucceeded, Arrives, JobsMark
  <2> DEFINE rows == {r \in Named(o) : ~listing[r].failed}
  <2>3. \A r \in rows : r \in Rows /\ listing[r].remote = o
    BY DEF Named
  <2>4. listing' = WithListings(rows, "published")
    BY <1>2, <2>1 DEF PublicationSucceeded
  <2> HIDE DEF rows
  <2>5. \A r \in Rows : /\ listing'[r].prop = listing[r].prop /\ listing'[r].remote = listing[r].remote
                        /\ IF r \in rows THEN listing'[r].status = "published" ELSE listing'[r].status = listing[r].status
    BY <1>w, <2>4
  <2>6. \A r \in Rows : r \in rows => listing[r].prop # None /\ listing[r].remote = o
    BY <1>n, <2>2, <2>3
  <2>h. \A event, id : Hook(event, id) \in hooks' => Hook(event, id) \in hooks
    BY <2>2
  <2>7. OfferKnown'
    BY <1>i, <1>q, <2>2, <2>5, KnownStays, SameOffers DEF LiveRows
  <2>8. BlankRows' /\ RowsAgree' /\ ProcessedFirst'
    BY <1>i, <2>5, <2>6, <2>h, StatusChange
  <2>9. LiveOnMarket'
    BY <1>i, <2>2, <2>5 DEF LiveRows, LiveOnMarket
  <2>q. \A e : Quiet(e)' <=> Quiet(e)
    BY <2>2 DEF Quiet
  <2>10. ScheduledEnds'
    BY <1>i, <1>q, <1>t, <2>5, <2>q DEF LiveRows, ScheduledEnds
  <2>11. WithdrawnEnds'
    <3>1. ASSUME NEW r \in Rows, listing'[r].remote # None, Hook("withdrawn", listing'[r].remote) \in hooks'
          PROVE  \/ listing'[r].status = "error" /\ Hook("published", listing'[r].remote) \notin hooks'
                 \/ Quiet(r[1])'
      BY <1>i, <1>q, <1>t, <2>2, <2>5, <2>6, <2>h, <2>q, <3>1 DEF LiveRows, WithdrawnEnds
    <3> QED BY <3>1 DEF WithdrawnEnds, Hook
  <2>12. LiveHooks'
    BY <1>i, <2>2, LiveHooksStay
  <2>13. LiveCalls'
    BY <1>k, <2>2
  <2> QED BY <2>7, <2>8, <2>9, <2>10, <2>11, <2>12, <2>13 DEF LiveInv, LiveRows
<1>3. ASSUME NEW h \in hooks, PublicationFailed(c, h) PROVE LiveInv'
  <2>1. PICK o \in Offers : o = h.id
    BY <1>3, HookFields DEF PublicationFailed
  <2>2. /\ UNCHANGED <<property, jobs, call>> /\ call[c] = Idle /\ JobsMark' /\ o # None
        /\ Hook("notPublished", o) \in hooks
    BY <1>3, <1>i, <2>1, HookTaken, MarketAssumption DEF PublicationFailed, JobsMark
  <2> DEFINE gone == IF Named(o) = {} THEN {} ELSE {o}
  <2>3. DeleteOffers(gone, hooks \ {h}) /\ gone \in SUBSET Offers /\ gone \subseteq {o}
    BY <1>3, <2>1 DEF PublicationFailed
  <2>4. \A r \in Rows : listing[r].remote = o => o \in gone
    BY DEF Named
  <2>5. \A r \in Named(o) : r \in Rows /\ listing[r].remote = o
    BY DEF Named
  <2> HIDE DEF gone
  <2>6. /\ \A p \in Offers : /\ offer'[p].prop = offer[p].prop /\ offer'[p].kept = offer[p].kept
                             /\ offer'[p].live => offer[p].live /\ p \notin gone
        /\ \A event, id : Hook(event, id) \in hooks' =>
              Hook(event, id) \in hooks \ {h} \/ (event = "withdrawn" /\ id \in gone /\ offer[id].live)
    <3> DEFINE others == hooks \ {h}
    <3>1. gone \in SUBSET Offers /\ DeleteOffers(gone, others)
      BY <2>3
    <3> HIDE DEF others
    <3>2. /\ \A p \in Offers : /\ offer'[p].prop = offer[p].prop /\ offer'[p].kept = offer[p].kept
                               /\ offer'[p].live => offer[p].live /\ p \notin gone
          /\ \A event, id : Hook(event, id) \in hooks' =>
                Hook(event, id) \in others \/ (event = "withdrawn" /\ id \in gone /\ offer[id].live)
      BY <3>1, DeletedOffers
    <3> QED BY <3>2 DEF others
  <2>7. \A event, id : Hook(event, id) \in hooks' => Hook(event, id) \in hooks \/ (event = "withdrawn" /\ id = o /\ o \in gone)
    BY <2>3, <2>6
  <2>8. OffersGo
    BY <2>2, <2>6 DEF OffersGo
  <2>9. Hook("published", o) \notin hooks /\ offer[o].prop # None
    BY <1>i, <2>2 DEF LiveHooks, OfferHooksTrue
  <2>10. listing' = WithListings(Named(o), "error")
    BY <1>3, <2>1 DEF PublicationFailed
  <2>11. \A r \in Rows : /\ listing'[r].prop = listing[r].prop /\ listing'[r].remote = listing[r].remote
                         /\ IF r \in Named(o) THEN listing'[r].status = "error" ELSE listing'[r].status = listing[r].status
    BY <1>w, <2>10
  <2>12. \A r \in Rows : /\ r \in Named(o) <=> listing[r].remote = o
                         /\ r \in Named(o) => listing[r].prop # None
    BY <1>n, <2>2 DEF Named
  <2>13. OfferKnown'
    BY <1>i, <1>q, <2>8, <2>11, KnownStays DEF LiveRows
  <2>14. BlankRows' /\ RowsAgree' /\ ProcessedFirst'
    <3>1. \A p : Hook("processed", p) \in hooks' => Hook("processed", p) \in hooks
      BY <2>7
    <3> QED BY <1>i, <2>11, <2>12, <3>1, StatusChange
  <2>15. LiveOnMarket'
    BY <1>i, <1>l, <2>4, <2>6, <2>11, <2>12 DEF LiveRows, LiveOnMarket
  <2>q. \A e : Quiet(e) => Quiet(e)'
    BY <1>i, <2>8, QuietStays DEF LiveRows
  <2>16. ScheduledEnds'
    BY <1>i, <1>q, <1>t, <2>11, <2>q DEF LiveRows, ScheduledEnds
  <2>17. WithdrawnEnds'
    <3>1. ASSUME NEW r \in Rows, listing'[r].remote # None, Hook("withdrawn", listing'[r].remote) \in hooks'
          PROVE  \/ listing'[r].status = "error" /\ Hook("published", listing'[r].remote) \notin hooks'
                 \/ Quiet(r[1])'
      <4>1. CASE listing[r].remote = o
        BY <2>7, <2>9, <2>11, <2>12, <4>1
      <4>2. CASE listing[r].remote # o
        <5>1. Hook("withdrawn", listing[r].remote) \in hooks
          BY <2>7, <2>11, <3>1, <4>2
        <5> QED BY <1>i, <1>q, <1>t, <2>7, <2>11, <2>12, <2>q, <3>1, <4>2, <5>1 DEF LiveRows, WithdrawnEnds
      <4> QED BY <4>1, <4>2
    <3> QED BY <3>1 DEF WithdrawnEnds, Hook
  <2>18. PropertyHooksTrue'
    <3>1. ASSUME NEW q \in Props
          PROVE  /\ Hook("processed", q) \in hooks' \/ Hook("rejected", q) \in hooks' => property[q].estate # None
                 /\ Hook("rejected", q) \in hooks' => ~property[q].live /\ \A p \in Offers : offer'[p].prop # q
      <4>1. /\ Hook("processed", q) \in hooks' => Hook("processed", q) \in hooks
            /\ Hook("rejected", q) \in hooks' => Hook("rejected", q) \in hooks
        BY <2>7
      <4> QED BY <1>i, <2>6, <4>1 DEF LiveHooks, PropertyHooksTrue
    <3> QED BY <2>2, <3>1 DEF PropertyHooksTrue, Hook
  <2>19. OfferHooksTrue'
    <3>1. ASSUME NEW p \in Offers
          PROVE  /\ Hook("notWithdrawn", p) \notin hooks'
                 /\ Hook("published", p) \in hooks' \/ Hook("notPublished", p) \in hooks' \/ Hook("withdrawn", p) \in hooks'
                    => offer'[p].prop # None
                 /\ Hook("published", p) \notin hooks' \/ Hook("notPublished", p) \notin hooks'
                 /\ Hook("withdrawn", p) \in hooks' => ~offer'[p].live
      BY <1>i, <2>6, <2>7, <2>9 DEF LiveHooks, OfferHooksTrue
    <3> QED BY <3>1 DEF OfferHooksTrue, Hook
  <2>20. LiveCalls'
    BY <1>k, <2>2
  <2> QED BY <2>2, <2>13, <2>14, <2>15, <2>16, <2>17, <2>18, <2>19, <2>20 DEF LiveInv, LiveRows, LiveHooks
<1>4. ASSUME NEW h \in hooks, PublicationDeleted(c, h) PROVE LiveInv'
  <2>1. PICK o \in Offers : o = h.id
    BY <1>4, HookFields DEF PublicationDeleted
  <2>2. /\ UNCHANGED <<property, offer, jobs>> /\ hooks' \subseteq hooks /\ call[c] = Idle /\ JobsMark' /\ o # None
        /\ Hook("withdrawn", o) \in hooks
    BY <1>4, <1>i, <2>1, HookTaken, MarketAssumption DEF PublicationDeleted, Arrives, JobsMark
  <2>3. ~offer[o].live /\ offer[o].prop # None
    BY <1>i, <2>2 DEF LiveHooks, OfferHooksTrue
  <2> DEFINE rows == {r \in Named(o) : ~listing[r].failed}
             units == {r[1] : r \in rows}
             next == [NewCall("exhaust", units) EXCEPT !.prop = offer[o].prop]
  <2>4. \A r \in rows : r \in Rows /\ listing[r].remote = o /\ listing[r].prop = offer[o].prop
    BY <1>n, <2>2 DEF Named
  <2>5. listing' = WithoutRemote(rows)
        /\ Goes(c, IF \A r \in rows : listing[r].status = "error" THEN Idle ELSE next)
    BY <1>4, <2>1 DEF PublicationDeleted
  <2>u. /\ \A r \in rows : r[1] \in units
        /\ \A e \in units : \E r \in rows : r[1] = e
    OBVIOUS
  <2> HIDE DEF rows, units
  <2>6. next.op = "exhaust" /\ next.units = units /\ next.prop = offer[o].prop
    BY DEF NewCall
  <2> HIDE DEF next
  <2>7. \A r \in Rows : /\ listing'[r].prop = listing[r].prop /\ listing'[r].status = listing[r].status
                        /\ listing'[r].remote = IF r \in rows THEN None ELSE listing[r].remote
    <3>1. \A row \in Listing : LET new == [row EXCEPT !.remote = None]
                               IN  new.status = row.status /\ new.prop = row.prop /\ new.remote = None
      BY DEF Listing
    <3> QED BY <1>l, <2>5, <3>1 DEF WithoutRemote
  <2>h. \A event, id : Hook(event, id) \in hooks' => Hook(event, id) \in hooks
    BY <2>2
  <2>8. OfferKnown'
    <3>1. \A p \in Offers : Storing(p) => Storing(p)'
      BY <1>q
    <3>2. \A r \in Rows : listing'[r].remote = listing[r].remote \/ ~offer'[listing[r].remote].live
      BY <2>2, <2>3, <2>4, <2>7
    <3> QED BY <1>i, <2>2, <3>1, <3>2, KnownStays, SameOffers DEF LiveRows
  <2>9. BlankRows'
    BY <1>i, <2>7 DEF LiveRows, BlankRows
  <2>10. LiveOnMarket'
    BY <1>i, <2>2, <2>7 DEF LiveRows, LiveOnMarket
  <2>q. \A e : Quiet(e)' <=> Quiet(e)
    BY <2>2 DEF Quiet
  <2>11. ScheduledEnds'
    BY <1>i, <1>q, <1>t, <2>7, <2>q DEF LiveRows, ScheduledEnds
  <2>12. RowsAgree'
    <3>1. ASSUME NEW r \in Rows, NEW q \in Rows, r[1] = q[1]
          PROVE  /\ listing'[r].status = "posted" => listing'[q].status # "scheduled"
                 /\ listing'[r].status = "posted" /\ listing'[q].status = "posted" => listing'[r].prop = listing'[q].prop
                 /\ listing'[r].status = "initialized" =>
                      /\ listing'[q].status \in {"none", "initialized", "deleted"}
                      /\ listing'[q].prop = None /\ listing'[q].remote = None
      BY <1>i, <2>7, <3>1 DEF LiveRows, RowsAgree
    <3> QED BY <3>1 DEF RowsAgree
  <2>13. WithdrawnEnds'
    <3>1. ASSUME NEW r \in Rows, listing'[r].remote # None, Hook("withdrawn", listing'[r].remote) \in hooks'
          PROVE  \/ listing'[r].status = "error" /\ Hook("published", listing'[r].remote) \notin hooks'
                 \/ Quiet(r[1])'
      BY <1>i, <1>q, <1>t, <2>7, <2>h, <2>q, <3>1 DEF LiveRows, WithdrawnEnds
    <3> QED BY <3>1 DEF WithdrawnEnds, Hook
  <2>14. ProcessedFirst'
    <3>1. ASSUME NEW r \in Rows, NEW q \in Rows, r[1] = q[1], listing'[r].status = "posted",
                 Hook("processed", listing'[r].prop) \in hooks'
          PROVE  listing'[q].remote = None
      <4>1. listing[r].status = "posted" /\ Hook("processed", listing[r].prop) \in hooks
        BY <2>7, <2>h, <3>1
      <4>2. listing[q].remote = None
        BY <1>i, <3>1, <4>1 DEF LiveRows, ProcessedFirst
      <4> QED BY <2>7, <4>2
    <3> QED BY <3>1 DEF ProcessedFirst, Hook
  <2>15. LiveHooks'
    BY <1>i, <2>2, LiveHooksStay
  <2>16. LiveCalls'
    <3>1. CASE \A r \in rows : listing[r].status = "error"
      BY <2>5, <3>1, OneGoes DEF LiveCalls
    <3>2. ASSUME NEW r \in rows, listing[r].status # "error" PROVE LiveCalls'
      <4>1. \A d \in Calls : call'[d] = next
        BY <2>5, <3>2, OneGoes
      <4>2. \A q \in rows : q = r
        BY <1>n, <2>2, <2>4, <3>2
      <4>3. Quiet(r[1])
        BY <1>i, <1>q, <1>t, <2>2, <2>4, <3>2 DEF LiveRows, WithdrawnEnds
      <4>4. \A e \in units : Quiet(e)
        BY <2>u, <4>2, <4>3
      <4>5. \A q \in Rows : listing[q].prop = offer[o].prop => q[1] \in units
        <5>1. \A q \in Rows : listing[q].prop = offer[o].prop => property[offer[o].prop].estate = q[1]
          BY <1>i, <2>3 DEF RowsOfEstates
        <5>2. listing[r].prop = offer[o].prop /\ r \in Rows
          BY <2>4
        <5> QED BY <2>u, <5>1, <5>2
      <4>6. \A d \in Calls : ExhaustChecked(call[d])'
        BY <2>2, <2>3, <2>6, <2>7, <2>q, <4>1, <4>4, <4>5 DEF ExhaustChecked
      <4> QED BY <2>6, <4>1, <4>6 DEF LiveCalls, LiveChecked, Losing
    <3> QED BY <3>1, <3>2
  <2> QED BY <2>8, <2>9, <2>10, <2>11, <2>12, <2>13, <2>14, <2>15, <2>16 DEF LiveInv, LiveRows
<1>5. ASSUME NEW h \in hooks, DeletionFailed(c, h) PROVE LiveInv'
  <2>1. PICK o \in Offers : o = h.id
    BY <1>5, HookFields DEF DeletionFailed
  <2>2. Hook("notWithdrawn", o) \in hooks
    BY <1>5, <2>1, HookTaken DEF DeletionFailed
  <2> QED BY <1>i, <2>2 DEF LiveHooks, OfferHooksTrue
<1>6. ASSUME DeleteExhausted(c) PROVE LiveInv'
  <2>1. PICK k \in Call : /\ k = call[c] /\ k.op = "exhaust" /\ LiveChecked(k) /\ k.units \in SUBSET Estates
    BY <1>6, <1>i, CallFields DEF DeleteExhausted, Serving, LiveCalls
  <2>2. /\ k.prop # None /\ \A e \in k.units : Quiet(e)
        /\ \A r \in Rows : listing[r].prop = k.prop => r[1] \in k.units
    BY <2>1 DEF LiveChecked, ExhaustChecked
  <2>3. UNCHANGED <<offer, hooks, jobs>> /\ JobsMark'
    BY <1>6, <1>i DEF DeleteExhausted, JobsMark
  <2>4. LiveCalls'
    BY <1>6, OneEnds DEF DeleteExhausted, LiveCalls
  <2>5. PICK rows : /\ rows = {} \/ rows = {r \in Rows : listing[r].prop = k.prop}
                    /\ listing' = WithListings(rows, "deleted")
                    /\ UNCHANGED property \/ DeleteProperty(k.prop)
    <3>1. UNCHANGED listing => listing' = WithListings({}, "deleted")
      <4>1. listing = [r \in Rows |-> listing[r]]
        BY DEF TypeOK
      <4> QED BY <4>1 DEF WithListings
    <3> QED BY <1>6, <2>1, <3>1 DEF DeleteExhausted
  <2>6. \A r \in Rows : /\ listing'[r].prop = listing[r].prop /\ listing'[r].remote = listing[r].remote
                        /\ IF r \in rows THEN listing'[r].status = "deleted" ELSE listing'[r].status = listing[r].status
    BY <1>w, <2>5
  <2>7. \A r \in Rows : r \in rows => listing[r].prop # None /\ Quiet(r[1])
    BY <2>2, <2>5
  <2>8. /\ \A q \in Props : property'[q].estate = property[q].estate /\ (property'[q].live => property[q].live)
    <3>1. \A row \in Property : LET new == [row EXCEPT !.live = FALSE] IN new.estate = row.estate /\ ~new.live
      BY DEF Property
    <3>2. \A q \in Props : property[q] \in Property
      BY DEF TypeOK
    <3> QED BY <2>5, <3>1, <3>2 DEF DeleteProperty
  <2>9. OffersGo
    BY <2>3, <2>8 DEF OffersGo
  <2>10. OfferKnown'
    BY <1>i, <1>q, <2>6, <2>9, KnownStays DEF LiveRows
  <2>11. BlankRows' /\ RowsAgree' /\ ProcessedFirst'
    BY <1>i, <2>3, <2>6, <2>7, StatusChange
  <2>12. LiveOnMarket'
    <3>1. ASSUME NEW r \in Rows, listing[r].remote # None, offer[listing[r].remote].live PROVE r \notin rows
      <4>1. listing[r].remote \in Offers /\ property[offer[listing[r].remote].prop].estate = r[1]
        BY <1>i, <3>1, NamedListing
      <4> QED BY <2>7, <3>1, <4>1 DEF Quiet
    <3> QED BY <1>i, <2>3, <2>6, <3>1 DEF LiveRows, LiveOnMarket
  <2>q. \A e : Quiet(e) => Quiet(e)'
    BY <1>i, <2>9, QuietStays DEF LiveRows
  <2>13. ScheduledEnds'
    BY <1>i, <1>q, <1>t, <2>6, <2>q DEF LiveRows, ScheduledEnds
  <2>14. WithdrawnEnds'
    <3>1. ASSUME NEW r \in Rows, listing'[r].remote # None, Hook("withdrawn", listing'[r].remote) \in hooks
          PROVE  \/ listing'[r].status = "error" /\ Hook("published", listing'[r].remote) \notin hooks
                 \/ Quiet(r[1])'
      BY <1>i, <1>q, <1>t, <2>6, <2>7, <2>q, <3>1 DEF LiveRows, WithdrawnEnds
    <3> QED BY <2>3, <3>1 DEF WithdrawnEnds, Hook
  <2>15. PropertyHooksTrue'
    <3>1. ASSUME NEW p \in Props
          PROVE  /\ Hook("processed", p) \in hooks \/ Hook("rejected", p) \in hooks => property'[p].estate # None
                 /\ Hook("rejected", p) \in hooks => ~property'[p].live /\ \A o \in Offers : offer[o].prop # p
      BY <1>i, <2>8 DEF LiveHooks, PropertyHooksTrue
    <3> QED BY <2>3, <3>1 DEF PropertyHooksTrue, Hook
  <2>16. OfferHooksTrue'
    BY <1>i, <2>3 DEF LiveHooks, OfferHooksTrue
  <2> QED BY <2>3, <2>4, <2>10, <2>11, <2>12, <2>13, <2>14, <2>15, <2>16 DEF LiveInv, LiveRows, LiveHooks
<1> QED BY <1>1, <1>2, <1>3, <1>4, <1>5, <1>6

\* Withdrawing an estate.
LEMMA WithdrawnGoes ==
    ASSUME TypeOK, OneCall, NEW c \in Calls, NEW e \in Estates, Withdrawing(c, e), Withdrawn(c, e),
           call[c].op = "withdraw" => WithdrawChecked(call[c])
    PROVE  /\ \A o \in Offers : ~Storing(o)
           /\ \A d \in Estates : d # e /\ Ending(d) => Ending(d)'
           /\ \A d \in Calls : call'[d] # Idle =>
                 /\ call'[d].op \in {"withdraw", "remove"}
                 /\ call'[d].op = "withdraw" => /\ call[c].op = "withdraw" /\ WithdrawChecked(call[c])
                                                /\ call'[d].todo = call[c].todo \ {e}
<1>1. PICK k \in Call : /\ k = call[c] /\ k.op \in {"withdraw", "remove"} /\ call[c] # Idle
                        /\ k.todo \in SUBSET Estates
  BY CallFields DEF Withdrawing, Serving
<1> DEFINE next == [k EXCEPT !.todo = @ \ {e}]
<1>2. next.op = k.op /\ next.todo = k.todo \ {e} /\ next.places = k.places /\ next.posted = k.posted
  BY <1>1 DEF Call
<1>3. next # Idle
  <2>1. k.todo \ {e} \in SUBSET Estates
    BY <1>1
  <2> QED BY <1>1, <2>1, CallUpdates, IdleAssumption
<1>4. IF next.op = "remove" THEN Goes(c, next) ELSE GoesOn(c, next)
  BY <1>1 DEF Withdrawn
<1> HIDE DEF next
<1>5. \A d \in Calls : call'[d] = Idle \/ call'[d] = next
  BY <1>4, OneGoes, OneGoesOn
<1>6. ASSUME NEW d \in Estates, d # e, Ending(d) PROVE Ending(d)'
  <2>1. d \in k.todo /\ k.op = "withdraw"
    BY <1>1, <1>6 DEF Ending, Serving, OneCall
  <2>2. d \in next.todo
    BY <1>2, <1>6, <2>1
  <2>3. Goes(c, next)
    BY <1>2, <1>4, <2>1, <2>2 DEF GoesOn
  <2>4. call'[c] = next
    BY <2>3, OneGoes
  <2> QED BY <1>2, <1>3, <2>1, <2>2, <2>4 DEF Ending, Serving
<1>7. \A o \in Offers : ~Storing(o)
  <2>1. call[c].op # "process"
    BY <1>1
  <2> QED BY <2>1, NothingStored
<1> QED BY <1>1, <1>2, <1>5, <1>6, <1>7

LEMMA WithdrawingLive ==
    ASSUME TypeOK, OneCall, NameInv, LiveInv, "refuseDelete" \notin Endpoints, NEW c \in Calls,
           NEW e \in Estates,
           WithdrawListings(c, e) \/ NothingToWithdraw(c, e) \/ \E r \in Rows : WithdrawProperty(c, e, r)
    PROVE  LiveInv'
<1>i. LiveRows /\ LiveHooks /\ LiveCalls /\ RowNames /\ RowsOfEstates /\ JobsMark /\ OfferKnown
  BY DEF LiveInv, LiveRows, LiveHooks, NameInv
<1>t. \A r \in Rows : r[1] \in Estates /\ r[2] \in Publishers /\ r = <<r[1], r[2]>>
  BY DEF Rows
<1>a. Withdrawing(c, e) /\ Withdrawn(c, e)
  BY DEF WithdrawListings, NothingToWithdraw, WithdrawProperty
<1>b. call[c] # Idle /\ call[c].op \in {"withdraw", "remove"} /\ (call[c].op = "withdraw" => e \in call[c].todo)
  BY <1>a DEF Withdrawing, Serving
<1>c. call[c].op = "withdraw" => WithdrawChecked(call[c])
  BY <1>b, <1>i DEF LiveCalls, LiveChecked
<1>d. /\ \A o \in Offers : ~Storing(o)
      /\ \A d \in Estates : d # e /\ Ending(d) => Ending(d)'
      /\ \A d \in Calls : call'[d] # Idle =>
            /\ call'[d].op \in {"withdraw", "remove"}
            /\ call'[d].op = "withdraw" => /\ call[c].op = "withdraw" /\ WithdrawChecked(call[c])
                                           /\ call'[d].todo = call[c].todo \ {e}
  BY <1>a, <1>c, WithdrawnGoes
\* What is scheduled covers what is live.
<1>e. ASSUME call[c].op = "withdraw", NEW r \in RowsOf({e}), listing[r].remote # None,
             offer[listing[r].remote].live
      PROVE  r \in Scheduled({e})
  <2>1. r \in RowsOf(call[c].todo)
    BY <1>b, <1>e DEF RowsOf
  <2> QED BY <1>c, <1>e, <2>1 DEF WithdrawChecked, Scheduled
<1>f. ASSUME call[c].op = "remove", NEW r \in RowsOf({e}), listing[r].status = "scheduled"
      PROVE  Quiet(e)
  <2>1. r \in Rows /\ r[1] = e
    BY <1>f DEF RowsOf, Rows
  <2>2. ~Ending(e)
    BY <1>f, NothingEnding
  <2> QED BY <1>f, <1>i, <2>1, <2>2 DEF LiveRows, ScheduledEnds
<1>g. call[c].op = "withdraw" /\ Scheduled({e}) = {} => Quiet(e)
  BY <1>d, <1>e, <1>i, RowsQuiet
\* The rest of the call.
<1>k. ASSUME UNCHANGED listing \/ \E S : listing' = [q \in Rows |-> IF q \in S THEN Closed(listing[q]) ELSE listing[q]],
             \A o \in Offers : offer'[o].live => offer[o].live
      PROVE  LiveCalls'
  <2>1. ASSUME NEW d \in Calls, call'[d] # Idle, call'[d].op = "withdraw" PROVE WithdrawChecked(call[d])'
    <3>1. WithdrawChecked(call[c]) /\ call'[d].todo \subseteq call[c].todo
      BY <1>d, <2>1
    <3>2. ASSUME NEW r \in RowsOf(call'[d].todo), listing'[r].remote # None, offer'[listing'[r].remote].live
          PROVE  listing'[r].status = "scheduled"
      <4>1. r \in RowsOf(call[c].todo)
        BY <3>1, <3>2 DEF RowsOf
      <4>2. call[c] \in Call /\ call[c].todo \in SUBSET Estates
        BY <1>b, CallFields
      <4>3. r \in Rows /\ listing[r] \in Listing
        BY <4>1, <4>2 DEF RowsOf, Rows, TypeOK
      <4>4. listing'[r] = listing[r] \/ listing'[r] = Closed(listing[r])
        BY <1>k, <4>3
      <4>5. listing'[r] = listing[r]
        <5>1. ASSUME listing'[r] = Closed(listing[r]), listing[r].status # "none" PROVE FALSE
          <6>1. [listing[r] EXCEPT !.status = "deleted", !.prop = None, !.remote = None].remote = None
            BY <4>3 DEF Listing
          <6> QED BY <3>2, <5>1, <6>1 DEF Closed
        <5> QED BY <4>4, <5>1 DEF Closed
      <4>6. listing[r].remote \in Offers
        BY <3>2, <4>3, <4>5 DEF Listing
      <4> QED BY <1>k, <3>1, <3>2, <4>1, <4>5, <4>6 DEF WithdrawChecked
    <3> QED BY <3>2 DEF WithdrawChecked
  <2>2. ASSUME NEW d \in Calls, call'[d] # Idle PROVE LiveChecked(call[d])'
    <3>1. call'[d].op \in {"withdraw", "remove"}
      BY <1>d, <2>2
    <3> QED BY <2>1, <2>2, <3>1 DEF LiveChecked, Losing
  <2> QED BY <2>2 DEF LiveCalls
<1>1. CASE NothingToWithdraw(c, e)
  <2>1. UNCHANGED <<listing, property, offer, hooks, jobs>> /\ \A r \in RowsOf({e}) : listing[r].status # "scheduled"
    BY <1>1 DEF NothingToWithdraw, marketTables, remoteVars
  <2>2. RowsSame /\ JobsMark' /\ Scheduled({e}) = {}
    BY <1>i, <2>1 DEF RowsSame, JobsMark, Scheduled
  <2>3. Ending(e) => Quiet(e)
    <3>1. Ending(e) => call[c].op = "withdraw"
      BY NothingEnding
    <3> QED BY <1>g, <2>2, <3>1
  <2>4. LiveRows' /\ LiveHooks'
    BY <1>d, <1>i, <2>1, <2>2, <2>3, LiveRowsStay, LiveHooksStay
  <2>5. LiveCalls'
    BY <1>k, <2>1
  <2> QED BY <2>4, <2>5 DEF LiveInv
<1>2. ASSUME NEW s \in Rows, WithdrawProperty(c, e, s) PROVE LiveInv'
  <2>1. /\ UNCHANGED <<offer, hooks, jobs>> /\ Scheduled({e}) = {}
        /\ s \in RowsOf({e}) /\ listing[s].status = "scheduled" /\ DeleteProperty(listing[s].prop)
        /\ listing' = [q \in Rows |-> IF q \in RowsOf({e}) THEN Closed(listing[q]) ELSE listing[q]]
    BY <1>2 DEF WithdrawProperty
  <2>2. Quiet(e)
    BY <1>b, <1>f, <1>g, <2>1
  <2>3. /\ \A q \in Props : property'[q].estate = property[q].estate /\ (property'[q].live => property[q].live)
    <3>1. \A row \in Property : [row EXCEPT !.live = FALSE].estate = row.estate /\ ~[row EXCEPT !.live = FALSE].live
      BY DEF Property
    <3>2. \A q \in Props : property[q] \in Property
      BY DEF TypeOK
    <3> QED BY <2>1, <3>1, <3>2 DEF DeleteProperty
  <2>4. OffersGo
    BY <2>1, <2>3 DEF OffersGo
  <2>5. ASSUME NEW r \in Rows
        PROVE  IF r[1] \in {e}
               THEN /\ listing'[r].status \in {"none", "initialized", "deleted"}
                    /\ listing'[r].prop = None /\ listing'[r].remote = None
               ELSE listing'[r] = listing[r]
    <3>1. listing[r] \in Listing
      BY DEF TypeOK
    <3>2. listing[r].status = "none" => listing[r].prop = None /\ listing[r].remote = None
      BY <1>i DEF LiveRows, BlankRows
    <3>3. LET new == [listing[r] EXCEPT !.status = "deleted", !.prop = None, !.remote = None]
          IN  new.status = "deleted" /\ new.prop = None /\ new.remote = None
      BY <3>1 DEF Listing
    <3>4. r \in RowsOf({e}) <=> r[1] \in {e}
      BY <1>t DEF RowsOf
    <3> QED BY <2>1, <3>2, <3>3, <3>4 DEF Closed
  <2>6. LiveRows'
    <3>1. \A d \in {e} : Quiet(d)
      BY <2>2
    <3>2. \A d \in Estates \ {e} : Ending(d) => Ending(d)'
      BY <1>d
    <3> QED BY <1>d, <1>i, <2>1, <2>4, <2>5, <3>1, <3>2, RowsRestart
  <2>7. PropertyHooksTrue'
    <3>1. ASSUME NEW p \in Props
          PROVE  /\ Hook("processed", p) \in hooks \/ Hook("rejected", p) \in hooks => property'[p].estate # None
                 /\ Hook("rejected", p) \in hooks => ~property'[p].live /\ \A o \in Offers : offer[o].prop # p
      BY <1>i, <2>3 DEF LiveHooks, PropertyHooksTrue
    <3> QED BY <2>1, <3>1 DEF PropertyHooksTrue, Hook
  <2>8. OfferHooksTrue' /\ JobsMark'
    BY <1>i, <2>1 DEF LiveHooks, OfferHooksTrue, JobsMark
  <2>9. LiveCalls'
    <3>1. \E S : listing' = [q \in Rows |-> IF q \in S THEN Closed(listing[q]) ELSE listing[q]]
      BY <2>1
    <3> QED BY <1>k, <2>1, <3>1
  <2> QED BY <2>6, <2>7, <2>8, <2>9 DEF LiveInv, LiveHooks
<1>3. CASE WithdrawListings(c, e)
  <2> DEFINE gone == {listing[r].remote : r \in Scheduled({e})}
  <2>1. /\ UNCHANGED <<listing, property, jobs>> /\ Scheduled({e}) # {} /\ DeleteOffers(gone, hooks) /\ JobsMark'
    BY <1>3, <1>i DEF WithdrawListings, JobsMark
  <2>2. \A r \in Scheduled({e}) : /\ r \in Rows /\ r[1] = e /\ r \in RowsOf({e}) /\ listing[r].status = "scheduled"
                                  /\ listing[r].remote \in Offers /\ listing[r].remote # None
    <3>1. \A r \in Rows : listing[r].remote \in Offers \cup {None}
      BY DEF TypeOK, Listing
    <3> QED BY <3>1 DEF Scheduled, RowsOf, Rows
  <2>3. gone \in SUBSET Offers
    BY <2>2
  <2>g. /\ \A r \in Scheduled({e}) : listing[r].remote \in gone
        /\ \A o \in gone : \E r \in Scheduled({e}) : listing[r].remote = o
    OBVIOUS
  <2> HIDE DEF gone
  <2>4. /\ \A o \in Offers : /\ offer'[o].prop = offer[o].prop /\ offer'[o].kept = offer[o].kept
                             /\ offer'[o].live => offer[o].live /\ o \notin gone
        /\ \A event, id : Hook(event, id) \in hooks' =>
              Hook(event, id) \in hooks \/ (event = "withdrawn" /\ id \in gone /\ offer[id].live)
    BY <2>1, <2>3, DeletedOffers
  <2>5. OffersGo
    BY <2>1, <2>4 DEF OffersGo
  <2>6. \A d : Quiet(d) => Quiet(d)'
    BY <1>i, <2>5, QuietStays
  <2>7. Quiet(e)'
    <3>1. CASE call[c].op = "remove"
      BY <1>f, <2>1, <2>2, <2>6, <3>1
    <3>2. CASE call[c].op = "withdraw"
      <4>1. ASSUME NEW o \in Offers, offer'[o].live, property[offer[o].prop].estate = e PROVE FALSE
        <5>1. offer[o].live /\ o \notin gone /\ o # None
          BY <2>4, <4>1, MarketAssumption
        <5>2. PICK r \in Rows : listing[r].remote = o /\ e = r[1] /\ r = <<r[1], r[2]>> /\ r[2] \in Publishers
          BY <1>d, <1>i, <4>1, <5>1, LiveHasRow
        <5>3. r \in RowsOf({e})
          BY <5>2 DEF RowsOf
        <5>4. r \in Scheduled({e})
          BY <1>e, <3>2, <5>1, <5>2, <5>3
        <5> QED BY <2>g, <5>1, <5>2, <5>4
      <4> QED BY <2>1, <2>4, <4>1 DEF Quiet
    <3> QED BY <1>b, <3>1, <3>2
  <2>8. \A d \in Estates : Quiet(d) \/ Ending(d) => Quiet(d)' \/ Ending(d)'
    BY <1>d, <2>6, <2>7
  <2>9. OfferKnown'
    BY <1>d, <1>i, <2>1, <2>5, KnownStays
  <2>10. BlankRows' /\ RowsAgree'
    BY <1>i, <2>1 DEF LiveRows, BlankRows, RowsAgree
  <2>11. LiveOnMarket'
    <3>1. \A r \in Rows : listing[r].remote # None => listing[r].remote \in Offers
      BY <1>i, NamedListing
    <3> QED BY <1>i, <2>1, <2>4, <3>1 DEF LiveRows, LiveOnMarket
  <2>12. ScheduledEnds'
    BY <1>i, <1>t, <2>1, <2>8 DEF LiveRows, ScheduledEnds
  <2>13. WithdrawnEnds'
    <3>1. ASSUME NEW r \in Rows, listing[r].remote # None, Hook("withdrawn", listing[r].remote) \in hooks'
          PROVE  \/ listing[r].status = "error" /\ Hook("published", listing[r].remote) \notin hooks'
                 \/ Quiet(r[1])' \/ Ending(r[1])'
      <4>1. CASE Hook("withdrawn", listing[r].remote) \in hooks
        <5>1. Hook("published", listing[r].remote) \in hooks' => Hook("published", listing[r].remote) \in hooks
          BY <2>4
        <5> QED BY <1>i, <1>t, <2>8, <3>1, <4>1, <5>1 DEF LiveRows, WithdrawnEnds
      <4>2. CASE listing[r].remote \in gone
        <5>1. PICK q \in Scheduled({e}) : listing[q].remote = listing[r].remote
          BY <2>g, <4>2
        <5>2. q = r
          BY <1>i, <2>2, <3>1, <5>1, NamedListing
        <5> QED BY <2>2, <2>7, <5>1, <5>2
      <4> QED BY <2>4, <3>1, <4>1, <4>2
    <3> QED BY <2>1, <3>1 DEF WithdrawnEnds, Hook
  <2>14. ProcessedFirst'
    <3>1. ASSUME NEW r \in Rows, NEW q \in Rows, r[1] = q[1], listing[r].status = "posted",
                 Hook("processed", listing[r].prop) \in hooks'
          PROVE  listing[q].remote = None
      <4>1. Hook("processed", listing[r].prop) \in hooks
        BY <2>4, <3>1
      <4> QED BY <1>i, <3>1, <4>1 DEF LiveRows, ProcessedFirst
    <3> QED BY <2>1, <3>1 DEF ProcessedFirst, Hook
  <2>15. PropertyHooksTrue'
    <3>1. ASSUME NEW q \in Props
          PROVE  /\ Hook("processed", q) \in hooks' \/ Hook("rejected", q) \in hooks' => property[q].estate # None
                 /\ Hook("rejected", q) \in hooks' => ~property[q].live /\ \A p \in Offers : offer'[p].prop # q
      <4>1. /\ Hook("processed", q) \in hooks' => Hook("processed", q) \in hooks
            /\ Hook("rejected", q) \in hooks' => Hook("rejected", q) \in hooks
        BY <2>4
      <4> QED BY <1>i, <2>4, <4>1 DEF LiveHooks, PropertyHooksTrue
    <3> QED BY <2>1, <3>1 DEF PropertyHooksTrue, Hook
  <2>16. OfferHooksTrue'
    <3>1. ASSUME NEW p \in Offers
          PROVE  /\ Hook("notWithdrawn", p) \notin hooks'
                 /\ Hook("published", p) \in hooks' \/ Hook("notPublished", p) \in hooks' \/ Hook("withdrawn", p) \in hooks'
                    => offer'[p].prop # None
                 /\ Hook("published", p) \notin hooks' \/ Hook("notPublished", p) \notin hooks'
                 /\ Hook("withdrawn", p) \in hooks' => ~offer'[p].live
      <4>1. /\ Hook("notWithdrawn", p) \in hooks' => Hook("notWithdrawn", p) \in hooks
            /\ Hook("published", p) \in hooks' => Hook("published", p) \in hooks
            /\ Hook("notPublished", p) \in hooks' => Hook("notPublished", p) \in hooks
            /\ Hook("withdrawn", p) \in hooks' => Hook("withdrawn", p) \in hooks \/ (p \in gone /\ offer[p].live)
        BY <2>4
      <4>2. offer[p].live => offer[p].prop # None
        BY <1>i DEF OfferKnown
      <4> QED BY <1>i, <2>4, <4>1, <4>2 DEF LiveHooks, OfferHooksTrue
    <3> QED BY <3>1 DEF OfferHooksTrue, Hook
  <2>17. LiveCalls'
    BY <1>k, <2>1, <2>4
  <2> QED BY <2>1, <2>9, <2>10, <2>11, <2>12, <2>13, <2>14, <2>15, <2>16, <2>17 DEF LiveInv, LiveRows, LiveHooks
<1> QED BY <1>1, <1>2, <1>3

\* A worker begins to withdraw, with every row of the estates scheduled.
LEMMA MarkingLive ==
    ASSUME TypeOK, OneCall, NameInv, LiveInv, NEW c \in Calls, NEW job \in jobs, UnpublishMultiple(c, job)
    PROVE  LiveInv'
<1>i. LiveRows /\ LiveHooks /\ LiveCalls /\ RowNames /\ RowsOfEstates /\ JobsMark
  BY DEF LiveInv, LiveHooks, NameInv
<1>t. \A r \in Rows : r[1] \in Estates /\ r[2] \in Publishers /\ r = <<r[1], r[2]>>
  BY DEF Rows
<1>1. /\ job.op = "withdraw" /\ job.mark /\ call[c] = Idle /\ jobs' \subseteq jobs
      /\ UNCHANGED <<property, offer, hooks>> /\ JobsMark' /\ job.estates \in SUBSET Estates
  BY <1>i DEF UnpublishMultiple, Accepts, remoteVars, JobsMark, TypeOK, Job
<1>q. (\A o \in Offers : ~Storing(o)) /\ \A e \in Estates : ~Ending(e)
  BY <1>1, NothingStored, NothingEnding
<1> DEFINE rows == ToDelete(job.estates)
           units == {e \in job.estates : \E r \in RowsOf({e}) : listing'[r].status \in {"scheduled", "published"}}
           next == [NewCall("withdraw", units) EXCEPT !.todo = units]
<1>2. listing' = WithListings(rows, "scheduled")
  BY <1>1 DEF UnpublishMultiple
<1>3. GoesOn(c, next)
  BY <1>1, <1>2 DEF UnpublishMultiple
<1>4. \A r \in Rows : r \in rows <=> r[1] \in job.estates /\ listing[r].status \notin {"none", "deleted"}
  BY <1>t DEF ToDelete, RowsOf
<1>5. \A r \in Rows : /\ listing'[r].prop = listing[r].prop /\ listing'[r].remote = listing[r].remote
                      /\ IF r \in rows THEN listing'[r].status = "scheduled"
                         ELSE listing'[r].status = listing[r].status
  <2>1. \A row \in Listing : /\ [row EXCEPT !.status = "scheduled"].status = "scheduled"
                             /\ [row EXCEPT !.status = "scheduled"].prop = row.prop
                             /\ [row EXCEPT !.status = "scheduled"].remote = row.remote
    BY DEF Listing
  <2>2. \A r \in Rows : listing[r] \in Listing
    BY DEF TypeOK
  <2> HIDE DEF rows
  <2>3. \A r \in Rows : listing'[r] = IF r \in rows THEN [listing[r] EXCEPT !.status = "scheduled"] ELSE listing[r]
    BY <1>2 DEF WithListings
  <2> QED BY <2>1, <2>2, <2>3
<1>6. /\ units \subseteq job.estates
      /\ \A r \in Rows : r[1] \in job.estates /\ listing'[r].status = "scheduled" => r[1] \in units
  BY <1>t DEF RowsOf
<1> HIDE DEF rows, units
<1>7. next.op = "withdraw" /\ next.todo = units
  BY DEF NewCall
<1>n. next \in Call
  <2>1. units \in SUBSET Estates /\ "withdraw" \in Handlers
    BY <1>1, <1>6 DEF Handlers
  <2> QED BY <2>1, NewCallTypes, CallUpdates
<1> HIDE DEF next
<1>8. \A d \in Calls : call'[d] = Idle \/ call'[d] = next
  BY <1>3, OneGoesOn
<1>9. \A e \in units : Ending(e)'
  <2>1. ASSUME NEW e \in units PROVE Ending(e)'
    <3>1. Goes(c, next)
      BY <1>3, <1>7, <2>1 DEF GoesOn
    <3>2. call'[c] = next /\ next # Idle
      BY <1>n, <3>1, OneGoes, IdleAssumption
    <3> QED BY <1>7, <2>1, <3>2 DEF Ending, Serving
  <2> QED BY <2>1
<1>10. OfferKnown'
  BY <1>1, <1>i, <1>q, <1>5, KnownStays, SameOffers DEF LiveRows
<1>11. BlankRows'
  BY <1>i, <1>4, <1>5 DEF LiveRows, BlankRows
<1>12. LiveOnMarket'
  BY <1>1, <1>i, <1>5 DEF LiveRows, LiveOnMarket
<1>w. \A e : Quiet(e)' <=> Quiet(e)
  BY <1>1 DEF Quiet
<1>13. ScheduledEnds'
  <2>1. ASSUME NEW r \in Rows, listing'[r].status = "scheduled" PROVE Quiet(r[1])' \/ Ending(r[1])'
    <3>1. CASE r[1] \in job.estates
      BY <1>6, <1>9, <2>1, <3>1
    <3>2. CASE r[1] \notin job.estates
      BY <1>i, <1>q, <1>t, <1>4, <1>5, <1>w, <2>1, <3>2 DEF LiveRows, ScheduledEnds
    <3> QED BY <3>1, <3>2
  <2> QED BY <2>1 DEF ScheduledEnds
<1>14. RowsAgree'
  <2>1. ASSUME NEW r \in Rows, NEW q \in Rows, r[1] = q[1]
        PROVE  /\ listing'[r].status = "posted" => listing'[q].status # "scheduled"
               /\ listing'[r].status = "posted" /\ listing'[q].status = "posted" => listing'[r].prop = listing'[q].prop
               /\ listing'[r].status = "initialized" =>
                    /\ listing'[q].status \in {"none", "initialized", "deleted"}
                    /\ listing'[q].prop = None /\ listing'[q].remote = None
    BY <1>i, <1>4, <1>5, <2>1 DEF LiveRows, RowsAgree
  <2> QED BY <2>1 DEF RowsAgree
<1>15. WithdrawnEnds'
  <2>1. ASSUME NEW r \in Rows, listing'[r].remote # None, Hook("withdrawn", listing'[r].remote) \in hooks
        PROVE  \/ listing'[r].status = "error" /\ Hook("published", listing'[r].remote) \notin hooks
               \/ Quiet(r[1])' \/ Ending(r[1])'
    <3>1. CASE r \in rows
      BY <1>4, <1>5, <1>6, <1>9, <3>1
    <3>2. CASE r \notin rows
      BY <1>i, <1>q, <1>t, <1>5, <1>w, <2>1, <3>2 DEF LiveRows, WithdrawnEnds
    <3> QED BY <3>1, <3>2
  <2> QED BY <1>1, <2>1 DEF WithdrawnEnds, Hook
<1>16. ProcessedFirst'
  <2>1. ASSUME NEW r \in Rows, NEW q \in Rows, r[1] = q[1], listing'[r].status = "posted",
               Hook("processed", listing'[r].prop) \in hooks
        PROVE  listing'[q].remote = None
    BY <1>i, <1>5, <2>1 DEF LiveRows, ProcessedFirst
  <2> QED BY <1>1, <2>1 DEF ProcessedFirst, Hook
<1>17. LiveHooks'
  BY <1>1, <1>i, LiveHooksStay
<1>18. LiveCalls'
  <2>1. ASSUME NEW r \in RowsOf(units), listing'[r].remote # None, offer'[listing'[r].remote].live
        PROVE  listing'[r].status = "scheduled"
    <3>1. r \in Rows /\ r[1] \in job.estates
      BY <1>1, <1>6, <2>1 DEF RowsOf, Rows
    <3>2. listing[r].status \in {"posted", "published", "scheduled"}
      BY <1>1, <1>i, <1>5, <2>1, <3>1 DEF LiveRows, LiveOnMarket
    <3> QED BY <1>4, <1>5, <3>1, <3>2
  <2>2. ASSUME NEW d \in Calls, call'[d] # Idle PROVE LiveChecked(call[d])'
    <3>1. call'[d].op = "withdraw" /\ call'[d].todo = units
      BY <1>7, <1>8, <2>2
    <3>2. WithdrawChecked(call[d])'
      BY <2>1, <3>1 DEF WithdrawChecked
    <3> QED BY <3>1, <3>2 DEF LiveChecked, Losing
  <2> QED BY <2>2 DEF LiveCalls
<1> QED BY <1>10, <1>11, <1>12, <1>13, <1>14, <1>15, <1>16, <1>17, <1>18 DEF LiveInv, LiveRows

\* With one call in flight at a time, and without the operations that start, mark or
\* withdraw rows without regard to what is out there, every listing on a market place
\* can be withdrawn from there: a row names it, or is about to.
THEOREM LiveStaysKnown ==
    ASSUME OneCall, Endpoints \cap Losing = {}
    PROVE  Spec => []LiveIsKnown
<1>1. Init => NameInv /\ LiveInv
  <2>1. ASSUME Init PROVE NameInv
    BY <2>1 DEF Init, NameInv, RowNames, RowsOfEstates, NoListing
  <2>2. ASSUME Init PROVE LiveRows
    <3>1. \A r \in Rows : listing[r].status = "none" /\ listing[r].prop = None /\ listing[r].remote = None
      BY <2>2 DEF Init, NoListing
    <3>2. \A o \in Offers : ~offer[o].live /\ ~offer[o].kept /\ offer[o].prop = None
      BY <2>2 DEF Init, NoOffer
    <3> QED BY <3>1, <3>2 DEF LiveRows, OfferKnown, BlankRows, LiveOnMarket, ScheduledEnds, RowsAgree,
            WithdrawnEnds, ProcessedFirst
  <2>3. ASSUME Init PROVE LiveHooks
    BY <2>3 DEF Init, LiveHooks, PropertyHooksTrue, OfferHooksTrue, JobsMark
  <2>4. ASSUME Init PROVE LiveCalls
    BY <2>4 DEF Init, LiveCalls
  <2> QED BY <2>1, <2>2, <2>3, <2>4 DEF LiveInv
<1>2. ASSUME TypeOK, NameInv, LiveInv, [Next]_marketVars PROVE NameInv' /\ LiveInv'
  <2>1. NameInv'
    BY <1>2, NameStep
  <2>2. CASE UNCHANGED marketVars
    <3>1. UNCHANGED <<property, offer>> /\ UNCHANGED <<remoteVars, listing, call>> /\ UNCHANGED jobs /\ hooks' \subseteq hooks
      BY <2>2 DEF marketVars, marketTables, remoteVars
    <3>2. LiveRows /\ LiveHooks /\ LiveCalls /\ JobsMark'
      BY <1>2, <3>1 DEF LiveInv, LiveHooks, JobsMark
    <3>3. RowsSame
      BY <3>1 DEF RowsSame
    <3>4. (\A o \in Offers : Storing(o) => Storing(o)') /\ \A e \in Estates : Ending(e) => Ending(e)'
      BY <3>1 DEF Storing, Ending, Serving
    <3>5. LiveRows'
      BY <1>2, <3>1, <3>2, <3>3, <3>4, LiveRowsStay
    <3>6. LiveHooks'
      BY <3>1, <3>2, LiveHooksStay
    <3>7. LiveCalls'
      BY <3>1, <3>2, SamePromises
    <3> QED BY <2>1, <3>5, <3>6, <3>7 DEF LiveInv
  <2>3. CASE PublicationNext
    <3>1. OneCall /\ Endpoints \cap Losing = {}
      OBVIOUS
    <3> QED BY <1>2, <2>1, <2>3, <3>1, PublicationLiveStep
  <2>4. CASE ListingsNext
    <3>1. OneCall /\ "refuseDelete" \notin Endpoints
      BY DEF Losing
    <3>2. ASSUME NEW c \in Calls,
                 \/ \E job \in jobs, e \in Estates : PostEstate(c, job, e)
                 \/ \E p \in Props : PropertyPosted(c, p)
                 \/ StorePosted(c) \/ PropertyRefused(c)
          PROVE  LiveInv'
      BY <1>2, <3>1, <3>2, PostingLive
    <3>3. ASSUME NEW c \in Calls,
                 \/ \E h \in hooks : PropertyProcessingSucceeded(c, h)
                 \/ \E publisher \in Publishers :
                       \/ \E told \in BOOLEAN : ListingRefused(c, publisher, told)
                       \/ \E o \in Offers : PostListing(c, publisher, o) \/ StoreListing(c, publisher, o)
          PROVE  LiveInv'
      BY <1>2, <3>1, <3>3, ProcessingLive
    <3>4. ASSUME NEW c \in Calls,
                 \/ \E h \in hooks : \/ PropertyProcessingFailed(c, h) \/ PublicationSucceeded(c, h)
                                     \/ PublicationFailed(c, h) \/ PublicationDeleted(c, h) \/ DeletionFailed(c, h)
                 \/ DeleteExhausted(c)
          PROVE  LiveInv'
      BY <1>2, <3>1, <3>4, ReportsLive
    <3>5. ASSUME NEW c \in Calls, NEW e \in Estates,
                 WithdrawListings(c, e) \/ NothingToWithdraw(c, e) \/ \E r \in Rows : WithdrawProperty(c, e, r)
          PROVE  LiveInv'
      BY <1>2, <3>1, <3>5, WithdrawingLive
    <3>6. ASSUME NEW c \in Calls, NEW job \in jobs, UnpublishMultiple(c, job) PROVE LiveInv'
      BY <1>2, <3>1, <3>6, MarkingLive
    <3> QED BY <2>1, <2>4, <3>2, <3>3, <3>4, <3>5, <3>6 DEF ListingsNext
  <2> QED BY <1>2, <2>1, <2>2, <2>3, <2>4 DEF Next
<1>3. LiveInv => LiveIsKnown
  BY DEF LiveInv, LiveRows, OfferKnown, LiveIsKnown, Live, Storing
<1> QED BY <1>1, <1>2, <1>3, MarketTypes, PTL DEF Spec
=============================================================================
