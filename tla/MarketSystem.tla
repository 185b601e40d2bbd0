---------------------------- MODULE MarketSystem ----------------------------
(***************************************************************************)
(* Publication and listings together: landlord, administrator, final match *)
(* and jobs change an estate while workers and webhooks follow at their    *)
(* own pace.                                                               *)
(***************************************************************************)
EXTENDS Publication, Listings

Next == PublicationNext \/ ListingsNext

Spec == Init /\ [][Next]_marketVars

\* A call in flight goes on.
Continue(c) == Next /\ call[c] # Idle /\ call'[c] # call[c]

\* The worker takes the job that a final match, an edit or a deletion queues.
TakeWithdrawal(e) == \E c \in Calls : UnpublishMultiple(c, Withdraw({e}, TRUE))

\* The event loop resumes every call.  Workers do not compete with the clients
\* for a place in Calls (that bound is the model's), hence strong fairness.
FairSpec ==
    /\ Spec
    /\ \A c \in Calls : WF_marketVars(Continue(c))
    /\ \A e \in Estates : SF_marketVars(TakeWithdrawal(e))

-----------------------------------------------------------------------------
\* The listings of an estate on market places, but for those that EstateSync
\* has failed to delete.
Live(e) == {o \in Offers : /\ offer[o].live /\ ~offer[o].kept
                           /\ property[offer[o].prop].estate = e}

\* An estate on the market has been approved by an administrator, or published
\* by him, whatever crosses his answer: the landlord's requests and edits write
\* back the status they have read.
ActiveIsApproved ==
    \A e \in Estates : estate[e].status = "active" => estate[e].pub = "approved"

\* A listing that a row names is the row's own: of its market place and of the
\* property that the row was posted as, however late the webhooks come.
RowNamesItsListing ==
    \A r \in Rows : listing[r].remote # None =>
        offer[listing[r].remote].publisher = r[2] /\ offer[listing[r].remote].prop = listing[r].prop

\* An estate that is let is not on the market.
LetIsOffline == \A e \in let : estate[e].status # "active"

\* What is on a market place can be withdrawn from there: a row names the
\* listing, or the worker that has posted it is about to store its id.
LiveIsKnown ==
    \A e \in Estates : \A o \in Live(e) :
        \/ \E r \in Rows : listing[r].remote = o
        \/ \E c \in Calls : Serving(c, "process") /\ \E p \in Publishers : <<p, o>> \in call[c].posted

\* The listings of an estate that stays let are withdrawn for good.
LetIsWithdrawn ==
    \A e \in Estates : <>[](e \in let) => <>[](Live(e) = {})
=============================================================================
