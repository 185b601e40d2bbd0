---------------------------- MODULE MatchSystem ----------------------------
(***************************************************************************)
(* The matching services together: prospects, landlords, administrators    *)
(* and jobs act on the same rows, with any number of handlers in flight.   *)
(***************************************************************************)
EXTENDS MatchFlow, CurrentTenants, EstateMarket

Next == FlowNext \/ FinalNext \/ TenantNext \/ MarketNext

Spec == Init /\ [][Next]_vars

ExpiryJob(u, e) ==
    \E r \in Requests : \/ FindExpiredCommit(r, u, e)
                        \/ MoveExpiredFinalConfirmToTop(r, u, e)

\* A request in flight goes on.
Continue(r) == Next /\ req[r] # Idle /\ req'[r] # req[r]

\* The event loop resumes every handler.  The job runs every minute for as long
\* as the server runs, and does not compete for a place in Requests with the
\* clients (that bound is the model's), hence strong fairness.
FairSpec ==
    /\ Spec
    /\ \A r \in Requests : WF_vars(Continue(r))
    /\ \A u \in Users, e \in Estates : SF_vars(ExpiryJob(u, e))

-----------------------------------------------------------------------------
(* Properties that hold however the handlers interleave.                   *)

\* A prospect at TOP, COMMIT or FINISH has the system task that his chat with
\* the landlord hangs on: toTop, matchInviteAfter and handleFinalMatch create
\* it in the transaction that moves the match.
TopHasTask ==
    \A p \in Pairs :
        match[p].status \in {"top", "commit", "finish"} => task[p] # "none"

\* Nobody becomes the final tenant without a COMMIT that stands at that very
\* moment, or an invitation link of the landlord: the updates of
\* handleFinalMatch repeat the stage that was read.
FinishFromCommit ==
    [][\A p \in Pairs :
          match'[p].status = "finish" /\ match[p].status # "finish"
            => \/ match[p].status = "commit"
               \/ \E r \in Requests : Serving(r, "accept", p[1], p[2])]_vars

\* A rental is only requested from somebody on the TOP list, even when he left
\* it between the check in requestUserCommit and the update.
CommitFromTop ==
    [][\A p \in Pairs :
          match'[p].status = "commit" /\ match[p].status # "commit"
            => match[p].status = "top"]_vars

\* Whose rental is requested has his household's incomes marked as final:
\* requestFinalConfirm and tenantCancelCommit write both in one transaction.
\* The flag hangs on the member, so this is about a single estate.
CommitHasFinalIncome ==
    \A p \in Pairs : match[p].status = "commit" => p[1] \in finalIncome

\* A COMMIT does not outlive EXPIRED_FINAL_CONFIRM_PERIOD: it is confirmed,
\* cancelled, or moved back to TOP by moveExpiredFinalConfirmToTop.
CommitExpires ==
    \A u \in Users, e \in Estates :
        StatusOf(u, e) = "commit" ~> StatusOf(u, e) # "commit"

\* The services, seen from MatchLifecycle: whatever the handlers do, a pair moves
\* along candidate, TOP, COMMIT and FINISH as that module says.
PlaceOf(s) == CASE s = "top" -> "listed" [] s = "commit" -> "requested"
                [] s = "finish" -> "tenant" [] OTHER -> "candidate"

Abstract == INSTANCE MatchLifecycle WITH
    place <- [p \in Pairs |-> PlaceOf(match[p].status)],
    bonded <- {p \in Pairs : task[p] # "none"},
    linked <- {p \in Pairs : \E r \in Requests : Serving(r, "accept", p[1], p[2])}

FollowsLifecycle == Abstract!Lifecycle

-----------------------------------------------------------------------------
(* Properties of the handlers one after the other: one request in flight.  *)

Quiet == \A r \in Requests : req[r] = Idle

\* Whoever is invited can book: bookTimeslot refuses him as long as an earlier
\* visit row of his is there, and cancelVisit only deletes it at VISIT.
InvitedCanBook ==
    Quiet => \A p \in Pairs : match[p].status = "invite" => visit[p] = None

\* No appointment outside the calendar of its estate: removeSlot takes the
\* visits of the whole building along.
VisitInCalendar ==
    \A u \in Users, e \in Estates : visit[<<u, e>>] \in slots[e] \cup {None}

\* No estate is liked and disliked, whatever part of a building the handlers of
\* likes, knocks, cancellations and publications cover.
LikeExcludesDislike == likes \cap dislikes = {}

\* A rental is requested from prospects who share their profile, also after
\* cancelShare, removeFromTop and the answers to sharing requests.
CommitOnlyWhenShared ==
    [][\A p \in Pairs :
          match'[p].status = "commit" /\ match[p].status # "commit"
            => match[p].share]_vars

\* Where a tenant lives, he is the final match and nobody else is, whichever
\* of finalConfirm, the invitation link and disconnect made or unmade him.
SeatedIsFinal ==
    \A i \in Rows : seat[i].live /\ seat[i].user # None =>
        {v \in Users : StatusOf(v, seat[i].estate) = "finish"} = {seat[i].user}

\* An estate has one current tenant at a time, registered or not:
\* getCurrentTenantByEstateId takes the first live row for the only one.
OneCurrentTenant == \A e \in Estates : Cardinality(LiveSeats(e)) <= 1

\* A tenant is not displaced by somebody else's confirmation or invitation; he
\* leaves when the landlord disconnects, expires or deletes him.
NoTenantDisplaced ==
    [][\A i \in Rows :
          seat[i].live /\ seat[i].user # None
            => \/ seat'[i].live /\ seat'[i].user = seat[i].user
               \/ \E r \in Requests : /\ req[r] # Idle
                                      /\ req[r].op \in {"disconnect", "expireTenant", "deleteTenant"}]_vars

\* A prospect who is handled at one unit of a category waits at no other unit of
\* it: a knock resets all units, an invitation removes the other knocks.  With
\* "move" that needs categories of at most two units: moveToNewEstate knocks at
\* the target without looking at a third unit where the prospect is handled.
OneStagePerCategory ==
    \A u \in Users, e, f \in Estates :
        f \in Category[e] \ {e} /\ StatusOf(u, e) \in {"invite", "visit", "share", "top", "commit"}
          => StatusOf(u, f) # "knock"

-----------------------------------------------------------------------------
(* What comments and messages of the code say, and the code does not do.   *)

\* "You can't rent this property because this property already has been delete
\* or rented by someone else" (rentable).
OneFinalMatch ==
    \A e \in Estates : Cardinality({u \in Users : StatusOf(u, e) = "finish"}) <= 1
=============================================================================
