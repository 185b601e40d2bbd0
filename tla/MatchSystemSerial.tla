------------------------- MODULE MatchSystemSerial -------------------------
(***************************************************************************)
(* The handlers of the matching services one after the other: a single     *)
(* request is in flight, for any number of users, estates, slots and rows. *)
(* What a handler checked then still holds when it writes (StillTrue), and *)
(* the theorems ask what the endpoints, as they are, make of the tables.   *)
(***************************************************************************)
EXTENDS MatchSystemStages, FiniteSetTheorems

OneAtATime == \A r, s \in Requests : r = s

-----------------------------------------------------------------------------
(* What the handlers check before they write.                              *)

At(c, stage) == StatusOf(c.user, c.estate) = stage

\* A landlord's cancellation, or a prospect's withdrawal from TOP, which deletes the
\* visit and the stage in statements of their own.
Takes == {"landlordCancel", "cancelTop"}

\* What the checks of a handler found out about the tables, and what it has written.
Checked(c) ==
    /\ c.op \in {"matchByUser", "newMatches"} => c.estates \subseteq Candidates(c.user)
    /\ c.op = "newMatches" => \A p \in c.pairs : match[p].status = "new"
    /\ c.op = "knock" => /\ ActiveById(c.estate)
                         /\ \/ At(c, "new") \/ <<c.user, c.estate>> \in likes
                            \/ "knockAnyway" \in Endpoints
    /\ c.op = "cancelKnock" => At(c, "knock")
    /\ c.op = "move" => /\ ~At(c, "finish")
                        /\ \A f \in c.estates : StatusOf(c.user, f) # "finish"
    /\ c.op \in {"invite", "inviteAfter"} =>
            \/ At(c, "knock")
            \/ At(c, "new") /\ match[<<c.user, c.estate>>].buddy
    /\ c.op = "inviteAfter" => c.flag
    /\ c.op = "cancelInvite" => At(c, "invite")
    /\ c.op = "book" => /\ At(c, "invite") /\ visit[<<c.user, c.estate>>] = None
                        /\ c.slot \in slots[c.estate]
    /\ c.op = "cancelVisit" => At(c, "visit")
    /\ c.op \in {"landlordCancel", "cancelTop"} /\ "visit" \notin c.todo =>
            visit[<<c.user, c.estate>>] = None
    /\ c.op = "removeSlot" => c.pairs = BookedAt(c.estates, c.slot)
    /\ c.op = "updateSlot" =>
            c.pairs = {p \in BookedAt({c.estate}, c.slot) : match[p].status = "visit"}
    /\ c.op = "share" => At(c, "visit")
    /\ c.op = "removeFromTop" => At(c, "top")
    /\ c.op = "commit" => At(c, "top") /\ match[<<c.user, c.estate>>].share
    /\ c.op = "confirm" => Rentable(c.estate) /\ At(c, "commit")
    /\ c.op = "accept" => /\ c.row \in LiveSeats(c.estate) /\ seat[c.row].user = None
                          /\ At(c, c.stage) /\ c.stage # "finish"
    /\ c.op = "disconnect" => c.row \in LiveSeats(c.estate) /\ seat[c.row].user = c.user
    /\ c.op = "publish" => c.estate \notin let
    /\ c.op = "unpublish" => status[c.estate] = "active" /\ (c.flag <=> c.estate \in let)

StillTrue == \A r \in Requests : req[r] # Idle => Checked(req[r])

\* Handlers that write as soon as they have read need no such promise.
LEMMA ServedStill ==
    ASSUME OneAtATime, NEW op, Served(op)
    PROVE  StillTrue'
BY DEF OneAtATime, Served, StillTrue

\* A handler that ends leaves nothing to be remembered.
LEMMA EndStill ==
    ASSUME TypeOK, OneAtATime, NEW r \in Requests, End(r)
    PROVE  StillTrue'
BY DEF OneAtATime, End, StillTrue, TypeOK

\* What is checked and what is stored belong to the one request.
LEMMA OneStill ==
    ASSUME OneAtATime, NEW r \in Requests, req'[r] = Idle \/ Checked(req[r])'
    PROVE  StillTrue'
BY DEF OneAtATime, StillTrue

\* What a fresh call says of itself.
LEMMA BegunCall ==
    ASSUME TypeOK, NEW r \in Requests, NEW op, NEW u, NEW e, Begin(r, NewCall(op, u, e))
    PROVE  /\ req'[r].op = op /\ req'[r].user = u /\ req'[r].estate = e
           /\ UNCHANGED tables
BY DEF TypeOK, Begin, NewCall

\* What stays of a call that goes on.
LEMMA GoesOnFlag ==
    ASSUME NEW c \in Call, NEW op, NEW flag
    PROVE  LET d == [c EXCEPT !.op = op, !.flag = flag]
           IN  d.op = op /\ d.flag = flag /\ d.user = c.user /\ d.estate = c.estate
BY DEF Call

\* ... also when it goes on with the rows it found.
LEMMA GoesOnPairs ==
    ASSUME NEW c \in Call, NEW op, NEW pairs
    PROVE  LET d == [c EXCEPT !.op = op, !.pairs = pairs]
           IN  d.op = op /\ d.pairs = pairs /\ d.user = c.user /\ d.estates = c.estates
BY DEF Call

\* The checks of prospects, landlords and administrators are true when they are made.
LEMMA CheckStill ==
    ASSUME TypeOK, OneAtATime, NEW r \in Requests, NEW u \in Users, NEW e \in Estates,
           StillTrue, CheckStep(r, u, e)
    PROVE  StillTrue'
<1>. SUFFICES Checked(req[r])' \/ req'[r] = Idle
  BY OneStill
<1>. USE DEF tables, pipelineVars, estateVars, finalVars
<1>1. CASE AddBuddy(r, u, e)
  <2>1. req'[r].op = "addBuddy"
    BY <1>1 DEF AddBuddy, Begin, NewCall, TypeOK
  <2>. QED
    BY <2>1 DEF Checked
<1>2. CASE \E share, anyway \in BOOLEAN : KnockEstate(r, u, e, share, anyway)
  <2>1. PICK share \in BOOLEAN, anyway \in BOOLEAN : KnockEstate(r, u, e, share, anyway)
    BY <1>2
  <2>2. /\ req'[r].op = "knock" /\ req'[r].user = u /\ req'[r].estate = e
        /\ UNCHANGED tables
    BY <2>1, BegunCall DEF KnockEstate
  <2>3. /\ ActiveById(e)
        /\ StatusOf(u, e) = "new" \/ <<u, e>> \in likes \/ "knockAnyway" \in Endpoints
    BY <2>1 DEF KnockEstate, Accepts
  <2>. QED
    BY <2>2, <2>3 DEF Checked, At, ActiveById, StatusOf
<1>3. CASE CancelKnock(r, u, e)
  <2>1. /\ req'[r].op = "cancelKnock" /\ req'[r].user = u /\ req'[r].estate = e
        /\ UNCHANGED tables
    BY <1>3, BegunCall DEF CancelKnock
  <2>. QED
    BY <1>3, <2>1 DEF CancelKnock, Checked, At, StatusOf
<1>4. CASE \E f \in Estates : MoveToNewEstate(r, u, e, f)
  <2>1. PICK f \in Estates : MoveToNewEstate(r, u, e, f)
    BY <1>4
  <2>2. /\ req'[r].op = "move" /\ req'[r].user = u /\ req'[r].estate = e
        /\ req'[r].estates = {f} /\ UNCHANGED tables
    BY <2>1 DEF MoveToNewEstate, Begin, NewCall, TypeOK
  <2>3. /\ StatusOf(u, e) \in Stages \ {"finish"}
        /\ Level[StatusOf(u, f)] < Level[StatusOf(u, e)]
    BY <2>1, MatchRow DEF MoveToNewEstate, StatusOf, Row, Pairs
  <2>4. StatusOf(u, f) # "finish"
    BY <2>3 DEF Level, Stages
  <2>. QED
    BY <2>2, <2>3, <2>4 DEF Checked, At, StatusOf
<1>5. CASE Invite(r, u, e)
  <2>1. /\ req'[r].op = "invite" /\ req'[r].user = u /\ req'[r].estate = e
        /\ UNCHANGED tables
    BY <1>5, BegunCall DEF Invite
  <2>. QED
    BY <1>5, <2>1 DEF Invite, Checked, At, StatusOf
<1>6. CASE FindInvited(r, u, e)
  <2>1. /\ req[r] \in Call /\ req[r].op = "invite" /\ req[r].user = u /\ req[r].estate = e
        /\ req[r] # Idle
    BY <1>6, ServingType DEF FindInvited, Serving
  <2>0. Checked(req[r])
    BY <2>1 DEF StillTrue
  <2>2. /\ req'[r].op = "inviteAfter" /\ req'[r].user = u /\ req'[r].estate = e
        /\ req'[r].flag = Exists(u, e) /\ UNCHANGED tables
    <3>1. PICK c \in Call : c = req[r]
      BY <2>1
    <3>2. req'[r] = [c EXCEPT !.op = "inviteAfter", !.flag = Exists(u, e)]
      BY <1>6, <3>1 DEF FindInvited, TypeOK
    <3>3. Exists(u, e) \in BOOLEAN
      BY DEF Exists
    <3>4. UNCHANGED tables
      BY <1>6 DEF FindInvited
    <3>. QED
      BY <2>1, <3>1, <3>2, <3>3, <3>4, GoesOnFlag
  <2>3. \/ StatusOf(u, e) = "knock"
        \/ StatusOf(u, e) = "new" /\ match[<<u, e>>].buddy
    BY <2>0, <2>1 DEF Checked, At
  <2>4. req'[r].flag
    <3>1. StatusOf(u, e) # "none"
      BY <2>3
    <3>. QED
      BY <2>2, <3>1 DEF Exists
  <2>5. /\ req'[r].op = "inviteAfter" /\ req'[r].user = u /\ req'[r].estate = e
        /\ UNCHANGED match
    BY <2>2
  <2>. QED
    BY <2>3, <2>4, <2>5 DEF Checked, At, StatusOf
<1>7. CASE CancelInvite(r, u, e)
  <2>1. /\ req'[r].op = "cancelInvite" /\ req'[r].user = u /\ req'[r].estate = e
        /\ UNCHANGED tables
    BY <1>7, BegunCall DEF CancelInvite
  <2>. QED
    BY <1>7, <2>1 DEF CancelInvite, Checked, At, StatusOf
<1>8. CASE \E s \in Slots : BookTimeslot(r, u, e, s)
  <2>1. PICK s \in Slots : BookTimeslot(r, u, e, s)
    BY <1>8
  <2>2. /\ req'[r].op = "book" /\ req'[r].user = u /\ req'[r].estate = e
        /\ req'[r].slot = s /\ UNCHANGED tables
    BY <2>1 DEF BookTimeslot, Begin, NewCall, TypeOK
  <2>. QED
    BY <2>1, <2>2 DEF BookTimeslot, Checked, At, StatusOf
<1>9. CASE CancelVisit(r, u, e)
  <2>1. /\ req'[r].op = "cancelVisit" /\ req'[r].user = u /\ req'[r].estate = e
        /\ UNCHANGED tables
    BY <1>9, BegunCall DEF CancelVisit
  <2>. QED
    BY <1>9, <2>1 DEF CancelVisit, Checked, At, StatusOf
<1>10. CASE CancelVisitByLandlord(r, u, e)
  <2>1. req'[r].op = "landlordCancel" /\ "visit" \in req'[r].todo
    BY <1>10 DEF CancelVisitByLandlord, Begin, NewCall, TypeOK
  <2>. QED
    BY <2>1 DEF Checked
<1>11. CASE Share(r, u, e)
  <2>1. /\ req'[r].op = "share" /\ req'[r].user = u /\ req'[r].estate = e
        /\ UNCHANGED tables
    BY <1>11, BegunCall DEF Share
  <2>. QED
    BY <1>11, <2>1 DEF Share, Checked, At, StatusOf
<1>12. CASE CancelShare(r, u, e)
  <2>1. req'[r].op = "cancelShare"
    BY <1>12, BegunCall DEF CancelShare
  <2>. QED
    BY <2>1 DEF Checked
<1>13. CASE RemoveFromTop(r, u, e)
  <2>1. /\ req'[r].op = "removeFromTop" /\ req'[r].user = u /\ req'[r].estate = e
        /\ UNCHANGED tables
    BY <1>13 DEF RemoveFromTop, Begin, NewCall, TypeOK
  <2>. QED
    BY <1>13, <2>1 DEF RemoveFromTop, Checked, At, StatusOf
<1>14. CASE CancelTop(r, u, e)
  <2>1. req'[r].op = "cancelTop" /\ "visit" \in req'[r].todo
    BY <1>14 DEF CancelTop, Begin, NewCall, TypeOK
  <2>. QED
    BY <2>1 DEF Checked
<1>15. CASE \E action \in {"match", "like", "dislike"}, scope \in SUBSET Estates :
              CancelAction(r, u, e, action, scope)
  <2>1. req'[r].op = "cancelAction"
    BY <1>15 DEF CancelAction, Begin, NewCall, TypeOK
  <2>. QED
    BY <2>1 DEF Checked
<1>. QED
  BY <1>1, <1>2, <1>3, <1>4, <1>5, <1>6, <1>7, <1>8, <1>9, <1>10, <1>11, <1>12, <1>13, <1>14,
     <1>15 DEF CheckStep

\* What stays of a call when one of its statements is done.
LEMMA GoesOnTodo ==
    ASSUME NEW c \in Call, NEW write
    PROVE  LET d == [c EXCEPT !.todo = @ \ {write}]
           IN  /\ d.op = c.op /\ d.user = c.user /\ d.estate = c.estate
               /\ d.todo = c.todo \ {write} /\ d \in Call
BY DEF Call

\* Whatever a prospect, landlord or administrator stores ends his handler, except
\* for the statements of a Promise.all.
LEMMA StoreStill ==
    ASSUME TypeOK, OneAtATime, NEW r \in Requests, NEW u \in Users, NEW e \in Estates,
           StillTrue, StoreStep(r, u, e)
    PROVE  StillTrue'
<1>1. CASE End(r)
  BY <1>1, EndStill
<1>2. CASE \E op \in Takes, write \in Writes :
              /\ Serving(r, op, u, e) /\ Done(r, write)
              /\ visit'[<<u, e>>] = IF write = "visit" THEN None ELSE visit[<<u, e>>]
  <2>1. PICK op \in Takes, write \in Writes :
            /\ Serving(r, op, u, e) /\ Done(r, write)
            /\ visit'[<<u, e>>] = IF write = "visit" THEN None ELSE visit[<<u, e>>]
    BY <1>2
  <2>2. CASE req' = [req EXCEPT ![r].todo = @ \ {write}]
    <3>1. PICK c \in Call : c = req[r] /\ c.op = op /\ c.user = u /\ c.estate = e /\ Checked(c)
      BY <2>1, ServingType DEF Serving, StillTrue
    <3>2. req'[r] = [c EXCEPT !.todo = @ \ {write}]
      BY <2>2, <3>1 DEF TypeOK
    <3>3. /\ req'[r].op = op /\ req'[r].user = u /\ req'[r].estate = e
          /\ req'[r].todo = c.todo \ {write}
      BY <3>1, <3>2, GoesOnTodo
    <3>4. "visit" \notin c.todo => visit[<<u, e>>] = None
      BY <3>1 DEF Checked, Takes
    <3>5. "visit" \notin c.todo \ {write} => visit'[<<u, e>>] = None
      BY <2>1, <3>4
    <3>6. Checked(req[r])'
      BY <3>3, <3>5 DEF Checked, Takes
    <3>. QED
      BY <3>6, OneStill
  <2>. QED
    BY <2>1, <2>2, EndStill DEF Done
<1>3. CASE LandlordDeletesVisit(r, u, e) \/ CancelTopVisit(r, u, e)
  <2>1. visit'[<<u, e>>] = None
    BY <1>3 DEF LandlordDeletesVisit, CancelTopVisit, TypeOK, Pairs
  <2>. QED
    BY <1>2, <1>3, <2>1 DEF LandlordDeletesVisit, CancelTopVisit, Writes, Takes
<1>4. CASE LandlordMovesToInvite(r, u, e) \/ CancelTopMatch(r, u, e) \/ CancelTopDislike(r, u, e)
  <2>1. UNCHANGED visit
    BY <1>4 DEF LandlordMovesToInvite, CancelTopMatch, CancelTopDislike, pipelineVars
  <2>2. \E op \in Takes, write \in Writes \ {"visit"} : Serving(r, op, u, e) /\ Done(r, write)
    BY <1>4 DEF LandlordMovesToInvite, CancelTopMatch, CancelTopDislike, Writes, Takes
  <2>. QED
    BY <1>2, <2>1, <2>2
<1>. QED
  BY <1>1, <1>3, <1>4
     DEF StoreStep, CreateBuddyMatch, StoreKnock, StoreCancelKnock, StoreMove, StoreInvite,
         StoreCancelInvite, StoreVisit, StoreCancelVisit, StoreShare, StoreCancelShare,
         StoreRemoveFromTop, StoreCancelAction

\* A search still holds when its NEW rows are stored.
LEMMA MatchingStill ==
    ASSUME TypeOK, OneAtATime, NEW r \in Requests, StillTrue, MatchingStep(r)
    PROVE  StillTrue'
<1>1. CASE \E u \in Users : \E found \in SUBSET Candidates(u) : SearchEstates(r, u, found)
  <2>1. PICK u \in Users : \E found \in SUBSET Candidates(u) : SearchEstates(r, u, found)
    BY <1>1
  <2>2. PICK found \in SUBSET Candidates(u) : SearchEstates(r, u, found)
    BY <2>1
  <2>3. /\ req'[r].op = "matchByUser" /\ req'[r].user = u /\ req'[r].estates = found
        /\ UNCHANGED tables
    BY <2>2 DEF SearchEstates, Begin, NewCall, TypeOK
  <2>4. Candidates(u)' = Candidates(u)
    BY <2>3 DEF Candidates, StatusOf, tables, pipelineVars, estateVars
  <2>5. Checked(req[r])'
    BY <2>3, <2>4 DEF Checked
  <2>. QED
    BY <2>5, OneStill
<1>2. CASE \E u \in Users : FindOldMatches(r, u)
  <2>1. PICK u \in Users : FindOldMatches(r, u)
    BY <1>2
  <2>2. req[r] \in Call /\ req[r].op = "matchByUser" /\ req[r].user = u /\ req[r] # Idle
    BY <2>1, ServingType DEF FindOldMatches, Serving
  <2> DEFINE old == {p \in {u} \X (Estates \ req[r].estates) :
                        match[p].status = "new" /\ ~match[p].buddy}
  <2>3. /\ req'[r].op = "newMatches" /\ req'[r].user = u
        /\ req'[r].estates = req[r].estates /\ req'[r].pairs = old
        /\ UNCHANGED tables
    <3>1. PICK c \in Call : c = req[r]
      BY <2>2
    <3>2. req'[r] = [c EXCEPT !.op = "newMatches", !.pairs = old]
      BY <2>1, <3>1 DEF FindOldMatches, TypeOK
    <3>3. UNCHANGED tables
      BY <2>1 DEF FindOldMatches
    <3>. HIDE DEF old
    <3>. QED
      BY <2>2, <3>1, <3>2, <3>3, GoesOnPairs
  <2>4. Candidates(u)' = Candidates(u) /\ UNCHANGED match
    BY <2>3 DEF Candidates, StatusOf, tables, pipelineVars, estateVars
  <2>5. req[r].estates \subseteq Candidates(u)
    BY <2>2 DEF StillTrue, Checked
  <2>6. \A p \in old : match[p].status = "new"
    OBVIOUS
  <2>7. Checked(req[r])'
    <3>. HIDE DEF old
    <3>. QED
      BY <2>3, <2>4, <2>5, <2>6 DEF Checked
  <2>. QED
    BY <2>7, OneStill
<1>3. CASE \E e \in Estates : \E found \in SUBSET Users : ScoreTenants(r, e, found)
  <2>1. req'[r].op = "matchByEstate"
    BY <1>3 DEF ScoreTenants, Begin, NewCall, TypeOK
  <2>2. Checked(req[r])'
    BY <2>1 DEF Checked
  <2>. QED
    BY <2>2, OneStill
<1>4. CASE \E e \in Estates : DeleteNewMatches(r, e)
  <2>1. req[r] \in Call /\ req[r].op = "matchByEstate"
    BY <1>4, ServingType DEF DeleteNewMatches, Serving
  <2>2. req'[r].op = "matchByEstate"
    BY <1>4, <2>1 DEF DeleteNewMatches, TypeOK, Call
  <2>3. Checked(req[r])'
    BY <2>2 DEF Checked
  <2>. QED
    BY <2>3, OneStill
<1>5. CASE End(r)
  BY <1>5, EndStill
<1>. QED
  BY <1>1, <1>2, <1>3, <1>4, <1>5 DEF MatchingStep, CreateNewMatches, InsertNewMatches

\* The visits that go with a slot are still those that were found.
LEMMA CalendarStill ==
    ASSUME TypeOK, OneAtATime, NEW e \in Estates,
           \/ CalendarStep(e)
           \/ \E r \in Requests : StoreRemoveSlot(r, e) \/ StoreUpdateSlot(r, e)
    PROVE  StillTrue'
<1>1. ASSUME NEW s \in Slots, CreateSlot(e, s)
      PROVE  StillTrue'
  BY <1>1, ServedStill DEF CreateSlot
<1>2. ASSUME NEW r \in Requests, NEW s \in Slots, RemoveSlot(r, e, s)
      PROVE  StillTrue'
  <2>1. /\ req'[r].op = "removeSlot" /\ req'[r].slot = s
        /\ req'[r].estates = Offering(e, s)
        /\ req'[r].pairs = BookedAt(Offering(e, s), s)
        /\ UNCHANGED tables
    BY <1>2 DEF RemoveSlot, Begin, NewCall, TypeOK
  <2>2. PICK offering : offering = Offering(e, s)
    OBVIOUS
  <2>3. BookedAt(offering, s)' = BookedAt(offering, s)
    BY <2>1 DEF BookedAt, tables, pipelineVars
  <2>4. Checked(req[r])'
    BY <2>1, <2>2, <2>3 DEF Checked
  <2>. QED
    BY <2>4, OneStill
<1>3. ASSUME NEW r \in Requests, NEW s \in Slots, NEW relength \in BOOLEAN,
             UpdateSlot(r, e, s, relength)
      PROVE  StillTrue'
  <2>1. /\ req'[r].op = "updateSlot" /\ req'[r].slot = s
        /\ req'[r].estate = e
        /\ req'[r].pairs = {p \in BookedAt({e}, s) : match[p].status = "visit"}
        /\ UNCHANGED tables
    BY <1>3 DEF UpdateSlot, Begin, NewCall, TypeOK
  <2>2. BookedAt({e}, s)' = BookedAt({e}, s) /\ UNCHANGED match
    BY <2>1 DEF BookedAt, tables, pipelineVars
  <2>3. Checked(req[r])'
    BY <2>1, <2>2 DEF Checked
  <2>. QED
    BY <2>3, OneStill
<1>4. ASSUME NEW r \in Requests, StoreRemoveSlot(r, e) \/ StoreUpdateSlot(r, e)
      PROVE  StillTrue'
  BY <1>4, EndStill DEF StoreRemoveSlot, StoreUpdateSlot
<1>. QED
  BY <1>1, <1>2, <1>3, <1>4 DEF CalendarStep

\* Every step of MatchFlow.
LEMMA FlowStill ==
    ASSUME TypeOK, OneAtATime, StillTrue, FlowNext
    PROVE  StillTrue'
<1>1. ASSUME NEW u \in Users, NEW e \in Estates, TransactionalStep(u, e)
      PROVE  StillTrue'
  BY <1>1, ServedStill
     DEF TransactionalStep, AddLike, RemoveLike, AddDislike, RemoveDislike, ToTop, RespondToSharing
<1>. QED
  BY <1>1, CheckStill, StoreStill, MatchingStill, CalendarStill DEF FlowNext

\* The requests, cancellations and confirmations of rentals.
LEMMA FinalStill ==
    ASSUME TypeOK, OneAtATime, StillTrue, FinalNext
    PROVE  StillTrue'
<1>1. PICK u \in Users, e \in Estates :
          TenantCancelCommit(u, e) \/ \E r \in Requests : FinalStep(r, u, e)
  BY DEF FinalNext
<1>2. CASE TenantCancelCommit(u, e)
  BY <1>2, ServedStill DEF TenantCancelCommit
<1>3. ASSUME NEW r \in Requests, RequestUserCommit(r, u, e)
      PROVE  StillTrue'
  <2>1. /\ req'[r].op = "commit" /\ req'[r].user = u /\ req'[r].estate = e
        /\ UNCHANGED tables
    BY <1>3, BegunCall DEF RequestUserCommit
  <2>2. Checked(req[r])'
    BY <1>3, <2>1 DEF RequestUserCommit, Checked, At, StatusOf, tables
  <2>. QED
    BY <2>2, OneStill
<1>4. ASSUME NEW r \in Requests, FindExpiredCommit(r, u, e)
      PROVE  StillTrue'
  <2>1. req'[r].op = "expireCommit"
    BY <1>4, BegunCall DEF FindExpiredCommit
  <2>2. Checked(req[r])'
    BY <2>1 DEF Checked
  <2>. QED
    BY <2>2, OneStill
<1>5. ASSUME NEW r \in Requests, FinalConfirm(r, u, e)
      PROVE  StillTrue'
  <2>1. /\ req'[r].op = "confirm" /\ req'[r].user = u /\ req'[r].estate = e
        /\ UNCHANGED tables
    BY <1>5, BegunCall DEF FinalConfirm
  <2>2. Checked(req[r])'
    BY <1>5, <2>1 DEF FinalConfirm, Checked, At, StatusOf, Rentable, tables, estateVars
  <2>. QED
    BY <2>2, OneStill
<1>. QED
  BY <1>1, <1>2, <1>3, <1>4, <1>5, EndStill
     DEF FinalStep, RequestFinalConfirm, MoveExpiredFinalConfirmToTop, HandleFinalMatch

\* The invitations of tenants, and what landlords do with their rows.
LEMMA TenantStill ==
    ASSUME TypeOK, OneAtATime, StillTrue, TenantNext
    PROVE  StillTrue'
<1>1. PICK e \in Estates :
          \/ \E i \in Rows : AddCurrentTenant(e, i)
          \/ \E r \in Requests :
                \/ InvitationStep(r, e)
                \/ \E i \in Rows : LandlordStep(r, e, i)
                \/ \E u \in Users, i, j \in Rows : AcceptOutsideTenant(r, u, e, i, j)
  BY DEF TenantNext
<1>2. CASE \E i \in Rows : AddCurrentTenant(e, i)
  BY <1>2, ServedStill DEF AddCurrentTenant
<1>3. ASSUME NEW r \in Requests,
             req'[r] = Idle \/ req'[r].op \in {"singleInvitation", "findInvitee", "sendLink",
                                               "revoke", "expireTenant", "deleteTenant"}
      PROVE  StillTrue'
  <2>1. CASE req'[r] # Idle
    <3>1. Checked(req[r])'
      BY <1>3, <2>1 DEF Checked
    <3>. QED
      BY <3>1, OneStill
  <2>. QED
    BY <2>1, OneStill
<1>4. ASSUME NEW r \in Requests, InvitationStep(r, e)
      PROVE  StillTrue'
  <2>1. CASE SingleInvitation(r, e)
    BY <1>3, <2>1, BegunCall DEF SingleInvitation
  <2>2. CASE FindInvitee(r, e)
    <3>1. req[r] \in Call /\ req[r].op = "findInvitee"
      BY <2>2, ServingType DEF FindInvitee, Serving
    <3>2. PICK c \in Call : c = req[r]
      BY <3>1
    <3>3. req'[r] \in {Idle, [c EXCEPT !.op = "sendLink"]}
      BY <2>2, <3>2 DEF FindInvitee, TypeOK
    <3>4. [c EXCEPT !.op = "sendLink"].op = "sendLink"
      BY DEF Call
    <3>. QED
      BY <3>3, <3>4, <1>3
  <2>3. CASE End(r)
    BY <2>3, EndStill
  <2>. QED
    BY <1>4, <2>1, <2>2, <2>3
       DEF InvitationStep, CreateDynamicLink, StoreRevokeInvitation, StoreExpire, StoreDelete,
           StoreAccept, StoreDisconnect
<1>5. ASSUME NEW r \in Requests, NEW i \in Rows, LandlordStep(r, e, i)
      PROVE  StillTrue'
  <2>1. CASE StoreSingleInvitation(r, e, i)
    <3>1. PICK c \in Call : c = req[r]
      BY <2>1, ServingType DEF StoreSingleInvitation
    <3>2. req'[r] = [c EXCEPT !.op = "findInvitee", !.row = i]
      BY <2>1, <3>1 DEF StoreSingleInvitation, TypeOK
    <3>3. [c EXCEPT !.op = "findInvitee", !.row = i].op = "findInvitee"
      BY DEF Call
    <3>. QED
      BY <3>2, <3>3, <1>3
  <2>2. CASE InviteTenantToApp(r, e, i)
    <3>1. req'[r].op = "sendLink"
      BY <2>2 DEF InviteTenantToApp, Begin, NewCall, TypeOK
    <3>. QED
      BY <3>1, <1>3
  <2>3. CASE RevokeInvitation(r, e, i)
    <3>1. req'[r].op = "revoke"
      BY <2>3 DEF RevokeInvitation, Begin, NewCall, TypeOK
    <3>. QED
      BY <3>1, <1>3
  <2>4. CASE Disconnect(r, e, i)
    <3>1. /\ req'[r].op = "disconnect" /\ req'[r].user = seat[i].user
          /\ req'[r].estate = e /\ req'[r].row = i /\ UNCHANGED tables
      BY <2>4 DEF Disconnect, Begin, NewCall, TypeOK
    <3>2. i \in LiveSeats(e)
      BY <2>4 DEF Disconnect
    <3>3. Checked(req[r])'
      BY <3>1, <3>2 DEF Checked, LiveSeats, tables, finalVars
    <3>. QED
      BY <3>3, OneStill
  <2>5. CASE Expire(r, e, i)
    <3>1. req'[r].op = "expireTenant"
      BY <2>5 DEF Expire, Begin, NewCall, TypeOK
    <3>. QED
      BY <3>1, <1>3
  <2>6. CASE HandleDelete(r, e, i)
    <3>1. req'[r].op = "deleteTenant"
      BY <2>6 DEF HandleDelete, Begin, NewCall, TypeOK
    <3>. QED
      BY <3>1, <1>3
  <2>. QED
    BY <1>5, <2>1, <2>2, <2>3, <2>4, <2>5, <2>6 DEF LandlordStep
<1>6. ASSUME NEW r \in Requests, NEW u \in Users, NEW i \in Rows, NEW j \in Rows,
             AcceptOutsideTenant(r, u, e, i, j)
      PROVE  StillTrue'
  <2>1. /\ req'[r].op = "accept" /\ req'[r].user = u /\ req'[r].estate = e
        /\ req'[r].row = j /\ req'[r].stage = StatusOf(u, e) /\ UNCHANGED tables
    BY <1>6 DEF AcceptOutsideTenant, Begin, NewCall, TypeOK
  <2>2. j \in LiveSeats(e) /\ seat[j].user = None /\ StatusOf(u, e) # "finish"
    BY <1>6 DEF AcceptOutsideTenant
  <2>3. Checked(req[r])'
    BY <2>1, <2>2 DEF Checked, At, StatusOf, LiveSeats, tables, finalVars
  <2>. QED
    BY <2>3, OneStill
<1>. QED
  BY <1>1, <1>2, <1>4, <1>5, <1>6

\* Publications and withdrawals.
LEMMA MarketStill ==
    ASSUME TypeOK, OneAtATime, MarketNext
    PROVE  StillTrue'
<1>1. ASSUME NEW e \in Estates, Extend(e) \/ OffMarketPublish(e) \/ Deactivate(e)
      PROVE  StillTrue'
  BY <1>1, ServedStill DEF Extend, OffMarketPublish, Deactivate
<1>2. ASSUME NEW r \in Requests, NEW e \in Estates, NEW retain \in BOOLEAN, Publish(r, e, retain)
      PROVE  StillTrue'
  <2>1. req'[r].op = "publish" /\ req'[r].estate = e /\ UNCHANGED tables
    BY <1>2 DEF Publish, Begin, NewCall, TypeOK
  <2>2. Checked(req[r])'
    BY <1>2, <2>1 DEF Publish, Checked, tables, estateVars
  <2>. QED
    BY <2>2, OneStill
<1>3. ASSUME NEW r \in Requests, NEW e \in Estates, Unpublish(r, e)
      PROVE  StillTrue'
  <2>1. PICK isLet \in BOOLEAN :
            /\ isLet <=> e \in let
            /\ Begin(r, [NewCall("unpublish", None, e) EXCEPT !.flag = isLet])
    BY <1>3 DEF Unpublish
  <2>2. /\ req'[r].op = "unpublish" /\ req'[r].estate = e /\ req'[r].flag = isLet
        /\ UNCHANGED tables
    BY <2>1 DEF Begin, NewCall, TypeOK
  <2>3. status[e] = "active"
    BY <1>3 DEF Unpublish
  <2>4. Checked(req[r])'
    BY <2>1, <2>2, <2>3 DEF Checked, tables, estateVars
  <2>. QED
    BY <2>4, OneStill
<1>. QED
  BY <1>1, <1>2, <1>3, EndStill DEF MarketNext, StorePublish, StoreUnpublish

\* What the handler in flight has checked is true until it writes.
LEMMA NextStill ==
    ASSUME TypeOK, OneAtATime, StillTrue, [Next]_vars
    PROVE  StillTrue'
<1>1. CASE Next
  BY <1>1, FlowStill, FinalStill, TenantStill, MarketStill DEF Next
<1>2. CASE UNCHANGED vars
  <2>1. ASSUME NEW r \in Requests, req[r] # Idle
        PROVE  Checked(req[r])'
    <3>1. Checked(req[r])
      BY <2>1 DEF StillTrue
    <3>. QED
      BY <1>2, <3>1 DEF Checked, At, StatusOf, Candidates, ActiveById, BookedAt, Rentable,
         LiveSeats, vars, tables, pipelineVars, estateVars, finalVars
  <2>. QED
    BY <1>2, <2>1 DEF StillTrue, vars
<1>. QED
  BY <1>1, <1>2

\* One handler after the other, nothing that was checked is out of date when it is
\* written.
THEOREM ChecksStayTrue ==
    ASSUME OneAtATime
    PROVE  Spec => []StillTrue
<1>1. Init => StillTrue
  BY DEF Init, StillTrue
<1>2. TypeOK /\ StillTrue /\ [Next]_vars => StillTrue'
  BY NextStill
<1>. QED
  BY <1>1, <1>2, TypeCorrect, PTL DEF Spec

-----------------------------------------------------------------------------
(* What the handlers make of the stages.                                   *)

\* Where the prospect and the landlord may take a match from each stage, by checks
\* that still hold ...
Arrows ==
    {<<"none", "new">>, <<"new", "none">>, <<"knock", "none">>, <<"invite", "knock">>,
     <<"invite", "visit">>, <<"visit", "share">>, <<"visit", "top">>, <<"share", "top">>,
     <<"top", "share">>, <<"top", "visit">>, <<"top", "commit">>, <<"commit", "top">>}

\* A step leaves the stage of p or takes it along an arrow ...
Onward(p) ==
    \/ match'[p].status = match[p].status
    \/ <<match[p].status, match'[p].status>> \in Arrows

\* ... but for the handlers that invite, that take a match back, or that take it
\* from any stage.
Elsewhere(r, u, e, p) ==
    \/ /\ StoreInvite(r, u, e) /\ p = <<u, e>> /\ match[p].status \in {"knock", "new"}
       /\ match'[p].status \in {"invite", "top"}
    \/ StoreCancelVisit(r, u, e) /\ p = <<u, e>> /\ match[p].status = "visit"
                                 /\ match'[p].status = "invite"
    \/ CancelTopMatch(r, u, e) /\ p = <<u, e>> /\ match'[p].status = "none"
    \/ StoreKnock(r, u, e) /\ p[1] = u /\ p[2] \in SameCategory(e)
                           /\ match'[p].status = "knock"
    \/ StoreMove(r, u, e) /\ match'[p].status \in {"none", "knock"}
                          /\ match[p].status # "finish"
    \/ LandlordMovesToInvite(r, u, e) /\ p = <<u, e>> /\ match'[p].status = "invite"
    \/ StoreCancelShare(r, u, e) /\ match'[p].status = "visit"
    \/ StoreCancelAction(r, u, e) /\ match'[p].status = "new"

\* The stage of every row after UPDATE matches SET status.
LEMMA UpdatedStatus ==
    ASSUME TypeOK, NEW u \in Users, NEW e \in Estates, NEW s \in Stages, NEW p \in Pairs
    PROVE  WithStatus(u, e, s)[p].status =
               IF p = <<u, e>> /\ match[p].status # "none" THEN s ELSE match[p].status
<1>1. <<u, e>> \in Pairs
  BY DEF Pairs
<1>2. [match[<<u, e>>] EXCEPT !.status = s].status = s
  BY <1>1, MatchRow, StatusUpdate
<1>. QED
  BY <1>1, <1>2 DEF WithStatus, Exists, StatusOf, TypeOK

\* What each handler knows of the stage when it writes.
LEMMA KnownStage ==
    ASSUME TypeOK, StillTrue, NEW r \in Requests, NEW u, NEW e
    PROVE  /\ Serving(r, "cancelKnock", u, e) => StatusOf(u, e) = "knock"
           /\ Serving(r, "cancelInvite", u, e) => StatusOf(u, e) = "invite"
           /\ Serving(r, "cancelVisit", u, e) => StatusOf(u, e) = "visit"
           /\ Serving(r, "share", u, e) => StatusOf(u, e) = "visit"
           /\ Serving(r, "removeFromTop", u, e) => StatusOf(u, e) = "top"
           /\ Serving(r, "inviteAfter", u, e) => StatusOf(u, e) \in {"knock", "new"} /\ req[r].flag
           /\ Serving(r, "book", u, e) => /\ StatusOf(u, e) = "invite"
                                          /\ visit[<<u, e>>] = None
                                          /\ req[r].slot \in slots[e]
           /\ Serving(r, "move", u, e) =>
                  /\ StatusOf(u, e) # "finish"
                  /\ \A f \in req[r].estates : StatusOf(u, f) # "finish"
           /\ Serving(r, "commit", u, e) => StatusOf(u, e) = "top" /\ match[<<u, e>>].share
           /\ Serving(r, "confirm", u, e) => StatusOf(u, e) = "commit" /\ Rentable(e)
           /\ Serving(r, "accept", u, e) =>
                  /\ StatusOf(u, e) = req[r].stage /\ req[r].stage # "finish"
                  /\ req[r].row \in LiveSeats(e) /\ seat[req[r].row].user = None
           /\ Serving(r, "disconnect", u, e) =>
                  req[r].row \in LiveSeats(e) /\ seat[req[r].row].user = u
           /\ Serving(r, "publish", u, e) => e \notin let
           /\ Serving(r, "unpublish", u, e) =>
                  status[e] = "active" /\ (req[r].flag <=> e \in let)
<1>. SUFFICES ASSUME req[r] # Idle, req[r].user = u, req[r].estate = e
              PROVE  /\ req[r].op = "cancelKnock" => StatusOf(u, e) = "knock"
                     /\ req[r].op = "cancelInvite" => StatusOf(u, e) = "invite"
                     /\ req[r].op = "cancelVisit" => StatusOf(u, e) = "visit"
                     /\ req[r].op = "share" => StatusOf(u, e) = "visit"
                     /\ req[r].op = "removeFromTop" => StatusOf(u, e) = "top"
                     /\ req[r].op = "inviteAfter" =>
                            StatusOf(u, e) \in {"knock", "new"} /\ req[r].flag
                     /\ req[r].op = "book" => /\ StatusOf(u, e) = "invite"
                                              /\ visit[<<u, e>>] = None
                                              /\ req[r].slot \in slots[e]
                     /\ req[r].op = "move" =>
                            /\ StatusOf(u, e) # "finish"
                            /\ \A f \in req[r].estates : StatusOf(u, f) # "finish"
                     /\ req[r].op = "commit" => StatusOf(u, e) = "top" /\ match[<<u, e>>].share
                     /\ req[r].op = "confirm" => StatusOf(u, e) = "commit" /\ Rentable(e)
                     /\ req[r].op = "accept" =>
                            /\ StatusOf(u, e) = req[r].stage /\ req[r].stage # "finish"
                            /\ req[r].row \in LiveSeats(e) /\ seat[req[r].row].user = None
                     /\ req[r].op = "disconnect" =>
                            req[r].row \in LiveSeats(e) /\ seat[req[r].row].user = u
                     /\ req[r].op = "publish" => e \notin let
                     /\ req[r].op = "unpublish" =>
                            status[e] = "active" /\ (req[r].flag <=> e \in let)
  BY DEF Serving
<1>1. Checked(req[r])
  BY DEF StillTrue
<1>. QED
  BY <1>1 DEF Checked, At

\* The store steps of prospects, landlords and administrators.
LEMMA StoreArrows ==
    ASSUME TypeOK, StillTrue, NEW r \in Requests, NEW u \in Users, NEW e \in Estates,
           StoreStep(r, u, e), NEW p \in Pairs
    PROVE  Onward(p) \/ Elsewhere(r, u, e, p)
<1>p. <<u, e>> \in Pairs /\ StatusOf(u, e) = match[<<u, e>>].status
  BY DEF Pairs, StatusOf
<1>u. \A s \in Stages : WithStatus(u, e, s)[p].status =
               IF p = <<u, e>> /\ match[p].status # "none" THEN s ELSE match[p].status
  BY UpdatedStatus
<1>s. \A s \in Stages : [match[p] EXCEPT !.status = s].status = s
  BY MatchRow, StatusUpdate
<1>n. NoRow.status = "none"
  BY DEF NoRow
<1>1. CASE CreateBuddyMatch(r, u, e)
  <2>1. [match[<<u, e>>] EXCEPT !.buddy = TRUE].status = match[<<u, e>>].status
    BY <1>p, MatchRow DEF Row
  <2>2. \/ match'[p].status = match[p].status
        \/ match[p].status = "none" /\ match'[p].status = "new"
    BY <1>1, <1>p, <2>1 DEF CreateBuddyMatch, TypeOK, Exists
  <2>. QED
    BY <2>2 DEF Onward, Arrows
<1>2. CASE StoreKnock(r, u, e)
  <2>1. match'[p] = IF p[1] = u /\ p[2] \in SameCategory(e)
                    THEN [match[p] EXCEPT !.status = "knock"] ELSE match[p]
    BY <1>2 DEF StoreKnock
  <2>2. \/ match'[p].status = match[p].status
        \/ p[1] = u /\ p[2] \in SameCategory(e) /\ match'[p].status = "knock"
    BY <2>1, <1>s DEF Stages
  <2>. QED
    BY <1>2, <2>2 DEF Onward, Elsewhere
<1>3. CASE StoreCancelKnock(r, u, e)
  <2>1. StatusOf(u, e) = "knock"
    BY <1>3, KnownStage DEF StoreCancelKnock
  <2>. QED
    BY <1>3, <1>n, <1>p, <2>1 DEF StoreCancelKnock, Onward, Arrows, TypeOK
<1>4. CASE StoreMove(r, u, e)
  <2>1. /\ StatusOf(u, e) # "finish"
        /\ \A f \in req[r].estates : StatusOf(u, f) # "finish"
    BY <1>4, KnownStage DEF StoreMove
  <2>2. PICK f \in req[r].estates : ~UNCHANGED match =>
            match' = [q \in Pairs |->
                        IF q = <<u, e>> THEN NoRow
                        ELSE IF q = <<u, f>> /\ req[r].todo # {}
                                             /\ (req[r].flag => Exists(u, f))
                             THEN [match[q] EXCEPT !.status = "knock"]
                        ELSE match[q]]
    BY <1>4 DEF StoreMove
  <2>3. \/ match'[p] = match[p]
        \/ p = <<u, e>> /\ match'[p] = NoRow
        \/ p = <<u, f>> /\ match'[p] = [match[p] EXCEPT !.status = "knock"]
    BY <2>2
  <2>4. \/ match'[p].status = match[p].status
        \/ p = <<u, e>> /\ match'[p].status = "none"
        \/ p = <<u, f>> /\ match'[p].status = "knock"
    BY <2>3, <1>n, <1>s DEF Stages
  <2>. QED
    BY <1>4, <2>1, <2>4 DEF Onward, Elsewhere, StatusOf
<1>5. CASE StoreInvite(r, u, e)
  <2> DEFINE s == IF e \in NotShown THEN "top" ELSE "invite"
             share == req[r].flag /\ e \in NotShown
             row == [match[p] EXCEPT !.status = s, !.share = share]
  <2>1. StatusOf(u, e) \in {"knock", "new"}
    BY <1>5, KnownStage DEF StoreInvite
  <2>2. row.status = s
    BY MatchRow, StatusShareUpdate DEF Stages
  <2>3. \/ match'[p] = match[p]
        \/ p = <<u, e>> /\ match'[p] = row
        \/ match[p].status = "knock" /\ match'[p] = NoRow
    BY <1>5 DEF StoreInvite
  <2>4. \/ match'[p].status = match[p].status
        \/ p = <<u, e>> /\ match'[p].status = s
        \/ match[p].status = "knock" /\ match'[p].status = "none"
    <3>. HIDE DEF row
    <3>. QED
      BY <2>2, <2>3, <1>n
  <2>. QED
    BY <1>5, <2>1, <2>4 DEF Onward, Elsewhere, Arrows, StatusOf
<1>6. CASE StoreCancelInvite(r, u, e)
  <2>1. StatusOf(u, e) = "invite"
    BY <1>6, KnownStage DEF StoreCancelInvite
  <2>. QED
    BY <1>6, <1>p, <1>u, <2>1 DEF StoreCancelInvite, Onward, Arrows, Stages
<1>7. CASE StoreVisit(r, u, e)
  <2>1. StatusOf(u, e) = "invite"
    BY <1>7, KnownStage DEF StoreVisit
  <2>2. match' = match \/ match' = WithStatus(u, e, "visit")
    BY <1>7 DEF StoreVisit
  <2>. QED
    BY <1>p, <1>u, <2>1, <2>2 DEF Onward, Arrows, Stages
<1>8. CASE StoreCancelVisit(r, u, e)
  <2>1. StatusOf(u, e) = "visit"
    BY <1>8, KnownStage DEF StoreCancelVisit
  <2>2. match'[p].status = IF p = <<u, e>> THEN "invite" ELSE match[p].status
    BY <1>8, <1>p, <1>u, <2>1 DEF StoreCancelVisit, Stages
  <2>. QED
    BY <1>8, <1>p, <2>1, <2>2 DEF Onward, Elsewhere
<1>9. CASE LandlordDeletesVisit(r, u, e) \/ CancelTopVisit(r, u, e) \/ CancelTopDislike(r, u, e)
  BY <1>9 DEF LandlordDeletesVisit, CancelTopVisit, CancelTopDislike, Onward
<1>10. CASE LandlordMovesToInvite(r, u, e)
  <2>1. \/ match'[p].status = match[p].status
        \/ p = <<u, e>> /\ match'[p].status = "invite"
    BY <1>10, <1>u DEF LandlordMovesToInvite, Stages
  <2>. QED
    BY <1>10, <2>1 DEF Onward, Elsewhere
<1>11. CASE StoreShare(r, u, e)
  <2>1. StatusOf(u, e) = "visit"
    BY <1>11, KnownStage DEF StoreShare
  <2>2. [match[<<u, e>>] EXCEPT !.status = "share", !.share = TRUE].status = "share"
    BY <1>p, MatchRow, StatusShareUpdate DEF Stages
  <2>3. match'[p].status = IF p = <<u, e>> THEN "share" ELSE match[p].status
    BY <1>11, <1>p, <2>1, <2>2 DEF StoreShare, TypeOK, Exists
  <2>. QED
    BY <1>p, <2>1, <2>3 DEF Onward, Arrows, StatusOf
<1>12. CASE StoreCancelShare(r, u, e)
  <2>1. [match[<<u, e>>] EXCEPT !.status = "visit", !.share = FALSE].status = "visit"
    BY <1>p, MatchRow, StatusShareUpdate DEF Stages
  <2>2. match'[p].status \in {match[p].status, "visit"}
    BY <1>12, <1>p, <2>1 DEF StoreCancelShare, TypeOK
  <2>. QED
    BY <1>12, <2>2 DEF Onward, Elsewhere
<1>13. CASE StoreRemoveFromTop(r, u, e)
  <2>1. StatusOf(u, e) = "top"
    BY <1>13, KnownStage DEF StoreRemoveFromTop
  <2>. QED
    BY <1>13, <1>p, <1>u, <2>1 DEF StoreRemoveFromTop, Onward, Arrows, Stages
<1>14. CASE CancelTopMatch(r, u, e)
  <2>1. \/ match'[p] = match[p]
        \/ p = <<u, e>> /\ match'[p] = NoRow
    BY <1>14, <1>p DEF CancelTopMatch, TypeOK
  <2>. QED
    BY <1>14, <1>n, <2>1 DEF Onward, Elsewhere
<1>15. CASE StoreCancelAction(r, u, e)
  <2>1. match'[p].status \in {match[p].status, "new"}
    BY <1>15, <1>s DEF StoreCancelAction, Stages
  <2>. QED
    BY <1>15, <2>1 DEF Onward, Elsewhere
<1>. QED
  BY <1>1, <1>2, <1>3, <1>4, <1>5, <1>6, <1>7, <1>8, <1>9, <1>10, <1>11, <1>12, <1>13, <1>14,
     <1>15 DEF StoreStep

\* A rental is only requested from prospects who share their profile at that moment,
\* whatever cancels or answers the sharing in between.
THEOREM CommitsAreShared ==
    ASSUME OneAtATime
    PROVE  Spec => CommitOnlyWhenShared
<1>1. TypeOK /\ StillTrue /\ [Next]_vars =>
        [\A p \in Pairs :
           match'[p].status = "commit" /\ match[p].status # "commit"
             => match[p].share]_vars
  <2>. SUFFICES ASSUME TypeOK, StillTrue, [Next]_vars, NEW p \in Pairs,
                       match'[p].status = "commit", match[p].status # "commit"
                PROVE  match[p].share
    OBVIOUS
  <2>1. PICK r \in Requests : Serving(r, "commit", p[1], p[2])
    BY NextStages DEF StageStep
  <2>2. match[<<p[1], p[2]>>].share
    BY <2>1, KnownStage
  <2>. QED
    BY <2>2 DEF Pairs
<1>. QED
  BY <1>1, TypeCorrect, ChecksStayTrue, PTL DEF Spec, CommitOnlyWhenShared

-----------------------------------------------------------------------------
(* Only the endpoints of this instance, and what they go on with, is in    *)
(* flight.                                                                 *)

Open == Endpoints \cup {"knock", "newMatches", "inviteAfter", "findInvitee", "sendLink"}

OnlyOpen == \A r \in Requests : req[r] # Idle => req[r].op \in Open

\* It is enough to look at the one request.
LEMMA OneOpen ==
    ASSUME OneAtATime, NEW r \in Requests, req'[r] = Idle \/ req'[r].op \in Open
    PROVE  OnlyOpen'
BY DEF OneAtATime, OnlyOpen, Open

\* A handler that ends, or one that writes as it reads, adds nothing.
LEMMA EndOpen ==
    ASSUME TypeOK, OneAtATime, OnlyOpen, NEW r \in Requests,
           End(r) \/ (\E op : Served(op)) \/ (\E write : req[r] \in Call \ {Idle} /\ Done(r, write))
    PROVE  OnlyOpen'
<1>1. CASE End(r)
  <2>1. req'[r] = Idle
    BY <1>1 DEF End, TypeOK
  <2>. QED
    BY <2>1, OneOpen
<1>2. CASE \E op : Served(op)
  BY <1>2 DEF Served, OnlyOpen, Open
<1>3. CASE \E write : req[r] \in Call \ {Idle} /\ Done(r, write)
  <2>1. PICK write : req[r] \in Call \ {Idle} /\ Done(r, write)
    BY <1>3
  <2>2. CASE req' = [req EXCEPT ![r].todo = @ \ {write}]
    <3>1. req'[r].op = req[r].op
      BY <2>1, <2>2 DEF TypeOK, Call
    <3>2. req[r].op \in Open
      BY <2>1 DEF OnlyOpen
    <3>. QED
      BY <3>1, <3>2, OneOpen
  <2>. QED
    BY <1>1, <2>1, <2>2 DEF Done
<1>. QED
  BY <1>1, <1>2, <1>3

\* A fresh call.
LEMMA BeginOpen ==
    ASSUME TypeOK, OneAtATime, NEW r \in Requests, NEW op \in Open, NEW u, NEW e,
           Begin(r, NewCall(op, u, e))
    PROVE  OnlyOpen'
BY BegunCall, OneOpen

\* The checks.
LEMMA CheckOpen ==
    ASSUME TypeOK, OneAtATime, OnlyOpen, NEW r \in Requests, NEW u \in Users, NEW e \in Estates,
           CheckStep(r, u, e)
    PROVE  OnlyOpen'
<1>. SUFFICES req'[r] = Idle \/ req'[r].op \in Open
  BY OneOpen
<1>1. CASE \/ AddBuddy(r, u, e) \/ RemoveFromTop(r, u, e) \/ CancelTop(r, u, e)
           \/ CancelVisitByLandlord(r, u, e)
  BY <1>1 DEF AddBuddy, RemoveFromTop, CancelTop, CancelVisitByLandlord, Accepts, Begin,
              NewCall, TypeOK, Open
<1>2. CASE \E share, anyway \in BOOLEAN : KnockEstate(r, u, e, share, anyway)
  BY <1>2, BegunCall DEF KnockEstate, Open
<1>3. CASE CancelKnock(r, u, e) \/ Invite(r, u, e) \/ CancelInvite(r, u, e)
  BY <1>3, BegunCall DEF CancelKnock, Invite, CancelInvite, Accepts, Open
<1>4. CASE CancelVisit(r, u, e) \/ Share(r, u, e) \/ CancelShare(r, u, e)
  BY <1>4, BegunCall DEF CancelVisit, Share, CancelShare, Accepts, Open
<1>5. CASE \E f \in Estates : MoveToNewEstate(r, u, e, f)
  BY <1>5 DEF MoveToNewEstate, Accepts, Begin, NewCall, TypeOK, Open
<1>6. CASE FindInvited(r, u, e)
  <2>1. PICK c \in Call : c = req[r]
    BY <1>6, ServingType DEF FindInvited
  <2>2. req'[r] = [c EXCEPT !.op = "inviteAfter", !.flag = Exists(u, e)]
    BY <1>6, <2>1 DEF FindInvited, TypeOK
  <2>. QED
    BY <2>2, GoesOnFlag DEF Open
<1>7. CASE \E s \in Slots : BookTimeslot(r, u, e, s)
  BY <1>7 DEF BookTimeslot, Accepts, Begin, NewCall, TypeOK, Open
<1>8. CASE \E action \in {"match", "like", "dislike"}, scope \in SUBSET Estates :
              CancelAction(r, u, e, action, scope)
  BY <1>8 DEF CancelAction, Accepts, Begin, NewCall, TypeOK, Open
<1>. QED
  BY <1>1, <1>2, <1>3, <1>4, <1>5, <1>6, <1>7, <1>8 DEF CheckStep

\* Every step of MatchFlow.
LEMMA FlowOpen ==
    ASSUME TypeOK, OneAtATime, OnlyOpen, FlowNext
    PROVE  OnlyOpen'
<1>0. ASSUME NEW op, Served(op) PROVE OnlyOpen'
  BY <1>0 DEF Served, OnlyOpen, Open
<1>1. ASSUME NEW u \in Users, NEW e \in Estates, TransactionalStep(u, e)
      PROVE  OnlyOpen'
  BY <1>0, <1>1 DEF TransactionalStep, AddLike, RemoveLike, AddDislike, RemoveDislike, ToTop,
                    RespondToSharing
<1>2. ASSUME NEW r \in Requests, NEW u \in Users, NEW e \in Estates, StoreStep(r, u, e)
      PROVE  OnlyOpen'
  <2>1. End(r) \/ (\E write : req[r] \in Call \ {Idle} /\ Done(r, write))
    BY <1>2, ServingType
       DEF Serving, StoreStep, CreateBuddyMatch, StoreKnock, StoreCancelKnock, StoreMove, StoreInvite,
           StoreCancelInvite, StoreVisit, StoreCancelVisit, LandlordDeletesVisit,
           LandlordMovesToInvite, StoreShare, StoreCancelShare, StoreRemoveFromTop,
           CancelTopMatch, CancelTopVisit, CancelTopDislike, StoreCancelAction
  <2>. QED
    BY <2>1, EndOpen
<1>3. ASSUME NEW r \in Requests, MatchingStep(r)
      PROVE  OnlyOpen'
  <2>1. CASE \E u \in Users : \E found \in SUBSET Candidates(u) : SearchEstates(r, u, found)
    <3>1. req'[r].op \in Open
      BY <2>1 DEF SearchEstates, Accepts, Begin, NewCall, TypeOK, Open
    <3>. QED
      BY <3>1, OneOpen
  <2>2. CASE \E e \in Estates : \E found \in SUBSET Users : ScoreTenants(r, e, found)
    <3>1. req'[r].op \in Open
      BY <2>2 DEF ScoreTenants, Accepts, Begin, NewCall, TypeOK, Open
    <3>. QED
      BY <3>1, OneOpen
  <2>3. CASE \E u \in Users : FindOldMatches(r, u)
    <3>1. PICK c \in Call : c = req[r]
      BY <2>3, ServingType DEF FindOldMatches
    <3>2. PICK pairs : req'[r] = [c EXCEPT !.op = "newMatches", !.pairs = pairs]
      BY <2>3, <3>1 DEF FindOldMatches, TypeOK
    <3>3. req'[r].op = "newMatches"
      BY <3>2, GoesOnPairs
    <3>. QED
      BY <3>3, OneOpen DEF Open
  <2>4. CASE \E e \in Estates : DeleteNewMatches(r, e)
    <3>1. PICK c \in Call : c = req[r]
      BY <2>4, ServingType DEF DeleteNewMatches
    <3>2. req'[r] = [c EXCEPT !.todo = {}] /\ c # Idle
      BY <2>4, <3>1 DEF DeleteNewMatches, TypeOK, Serving
    <3>3. [c EXCEPT !.todo = {}].op = c.op /\ c.op \in Open
      BY <3>1, <3>2 DEF Call, OnlyOpen
    <3>4. req'[r].op \in Open
      BY <3>2, <3>3
    <3>. QED
      BY <3>4, OneOpen
  <2>5. CASE End(r)
    BY <2>5, EndOpen
  <2>. QED
    BY <1>3, <2>1, <2>2, <2>3, <2>4, <2>5 DEF MatchingStep, CreateNewMatches, InsertNewMatches
<1>4. ASSUME NEW e \in Estates, CalendarStep(e)
      PROVE  OnlyOpen'
  <2>1. ASSUME NEW r \in Requests, NEW s \in Slots,
               RemoveSlot(r, e, s) \/ \E relength \in BOOLEAN : UpdateSlot(r, e, s, relength)
        PROVE  OnlyOpen'
    <3>1. req'[r].op \in Open
      BY <2>1 DEF RemoveSlot, UpdateSlot, Accepts, Begin, NewCall, TypeOK, Open
    <3>. QED
      BY <3>1, OneOpen
  <2>. QED
    BY <1>0, <1>4, <2>1 DEF CalendarStep, CreateSlot
<1>5. ASSUME NEW r \in Requests, NEW e \in Estates, StoreRemoveSlot(r, e) \/ StoreUpdateSlot(r, e)
      PROVE  OnlyOpen'
  BY <1>5, EndOpen DEF StoreRemoveSlot, StoreUpdateSlot
<1>. QED
  BY <1>1, <1>2, <1>3, <1>4, <1>5, CheckOpen DEF FlowNext

\* Every step of FinalMatch and of EstateMarket.
LEMMA FinalOpen ==
    ASSUME TypeOK, OneAtATime, OnlyOpen, FinalNext \/ MarketNext
    PROVE  OnlyOpen'
<1>0. ASSUME NEW op, Served(op) PROVE OnlyOpen'
  BY <1>0 DEF Served, OnlyOpen, Open
<1>1. CASE FinalNext
  <2>1. PICK u \in Users, e \in Estates :
            TenantCancelCommit(u, e) \/ \E r \in Requests : FinalStep(r, u, e)
    BY <1>1 DEF FinalNext
  <2>2. ASSUME NEW r \in Requests, FinalStep(r, u, e)
        PROVE  OnlyOpen'
    <3>1. CASE RequestUserCommit(r, u, e) \/ FindExpiredCommit(r, u, e) \/ FinalConfirm(r, u, e)
      BY <3>1, BeginOpen DEF RequestUserCommit, FindExpiredCommit, FinalConfirm, Accepts, Open
    <3>2. CASE End(r)
      BY <3>2, EndOpen
    <3>. QED
      BY <2>2, <3>1, <3>2
         DEF FinalStep, RequestFinalConfirm, MoveExpiredFinalConfirmToTop, HandleFinalMatch
  <2>. QED
    BY <1>0, <2>1, <2>2 DEF TenantCancelCommit
<1>2. CASE MarketNext
  <2>1. ASSUME NEW r \in Requests, NEW e \in Estates,
               Unpublish(r, e) \/ \E retain \in BOOLEAN : Publish(r, e, retain)
        PROVE  OnlyOpen'
    <3>1. req'[r].op \in Open
      BY <2>1 DEF Publish, Unpublish, Accepts, Begin, NewCall, TypeOK, Open
    <3>. QED
      BY <3>1, OneOpen
  <2>. QED
    BY <1>0, <1>2, <2>1, EndOpen
       DEF MarketNext, Extend, OffMarketPublish, Deactivate, StorePublish, StoreUnpublish
<1>. QED
  BY <1>1, <1>2

\* Every step of CurrentTenants.
LEMMA TenantOpen ==
    ASSUME TypeOK, OneAtATime, OnlyOpen, TenantNext
    PROVE  OnlyOpen'
<1>1. PICK e \in Estates :
          \/ \E i \in Rows : AddCurrentTenant(e, i)
          \/ \E r \in Requests :
                \/ InvitationStep(r, e)
                \/ \E i \in Rows : LandlordStep(r, e, i)
                \/ \E u \in Users, i, j \in Rows : AcceptOutsideTenant(r, u, e, i, j)
  BY DEF TenantNext
<1>2. CASE \E i \in Rows : AddCurrentTenant(e, i)
  BY <1>2 DEF AddCurrentTenant, Served, OnlyOpen, Open
<1>3. ASSUME NEW r \in Requests, InvitationStep(r, e)
      PROVE  OnlyOpen'
  <2>1. CASE SingleInvitation(r, e)
    BY <2>1, BeginOpen DEF SingleInvitation, Accepts, Open
  <2>2. CASE FindInvitee(r, e)
    <3>1. PICK c \in Call : c = req[r]
      BY <2>2, ServingType DEF FindInvitee
    <3>2. req'[r] \in {Idle, [c EXCEPT !.op = "sendLink"]}
      BY <2>2, <3>1 DEF FindInvitee, TypeOK
    <3>3. [c EXCEPT !.op = "sendLink"].op = "sendLink"
      BY DEF Call
    <3>. QED
      BY <3>2, <3>3, OneOpen DEF Open
  <2>3. CASE End(r)
    BY <2>3, EndOpen
  <2>. QED
    BY <1>3, <2>1, <2>2, <2>3
       DEF InvitationStep, CreateDynamicLink, StoreRevokeInvitation, StoreExpire, StoreDelete,
           StoreAccept, StoreDisconnect
<1>4. ASSUME NEW r \in Requests, NEW i \in Rows, LandlordStep(r, e, i)
      PROVE  OnlyOpen'
  <2>1. CASE StoreSingleInvitation(r, e, i)
    <3>1. PICK c \in Call : c = req[r]
      BY <2>1, ServingType DEF StoreSingleInvitation
    <3>2. req'[r] = [c EXCEPT !.op = "findInvitee", !.row = i]
      BY <2>1, <3>1 DEF StoreSingleInvitation, TypeOK
    <3>3. [c EXCEPT !.op = "findInvitee", !.row = i].op = "findInvitee"
      BY DEF Call
    <3>. QED
      BY <3>2, <3>3, OneOpen DEF Open
  <2>2. CASE InviteTenantToApp(r, e, i) \/ RevokeInvitation(r, e, i) \/ Disconnect(r, e, i)
    <3>1. req'[r].op \in Open
      BY <2>2 DEF InviteTenantToApp, RevokeInvitation, Disconnect, Accepts, Begin, NewCall,
                  TypeOK, Open
    <3>. QED
      BY <3>1, OneOpen
  <2>3. CASE Expire(r, e, i) \/ HandleDelete(r, e, i)
    <3>1. req'[r].op \in Open
      BY <2>3 DEF Expire, HandleDelete, Accepts, Begin, NewCall, TypeOK, Open
    <3>. QED
      BY <3>1, OneOpen
  <2>. QED
    BY <1>4, <2>1, <2>2, <2>3 DEF LandlordStep
<1>5. ASSUME NEW r \in Requests, NEW u \in Users, NEW i \in Rows, NEW j \in Rows,
             AcceptOutsideTenant(r, u, e, i, j)
      PROVE  OnlyOpen'
  <2>1. req'[r].op \in Open
    BY <1>5 DEF AcceptOutsideTenant, Accepts, Begin, NewCall, TypeOK, Open
  <2>. QED
    BY <2>1, OneOpen
<1>. QED
  BY <1>1, <1>2, <1>3, <1>4, <1>5

\* Nothing is in flight but what the endpoints of the instance began.
LEMMA SpecOpen ==
    ASSUME OneAtATime
    PROVE  Spec => []OnlyOpen
<1>1. Init => OnlyOpen
  BY DEF Init, OnlyOpen
<1>2. TypeOK /\ OnlyOpen /\ [Next]_vars => OnlyOpen'
  <2>. SUFFICES ASSUME TypeOK, OnlyOpen, [Next]_vars
                PROVE  OnlyOpen'
    OBVIOUS
  <2>1. CASE Next
    BY <2>1, FlowOpen, FinalOpen, TenantOpen DEF Next
  <2>2. CASE UNCHANGED vars
    BY <2>2 DEF OnlyOpen, Open, vars
  <2>. QED
    BY <2>1, <2>2
<1>. QED
  BY <1>1, <1>2, TypeCorrect, PTL DEF Spec

-----------------------------------------------------------------------------
(* Appointments.                                                           *)

\* Appointments are only made by bookings, and units only go with a slot that is
\* removed or changed.
LEMMA CalendarKept ==
    ASSUME TypeOK, [Next]_vars
    PROVE  \/ /\ \A p \in Pairs : visit'[p] \in {visit[p], None}
              /\ \A e \in Estates : slots[e] \subseteq slots'[e]
           \/ \E r \in Requests, u \in Users, e \in Estates : StoreVisit(r, u, e)
           \/ \E r \in Requests, e \in Estates : StoreRemoveSlot(r, e) \/ StoreUpdateSlot(r, e)
<1>1. CASE UNCHANGED <<visit, slots>>
  BY <1>1
<1>2. CASE FlowNext
  <2>1. ASSUME NEW u, NEW e, TransactionalStep(u, e)
        PROVE  UNCHANGED <<visit, slots>>
    BY <2>1 DEF TransactionalStep, AddLike, RemoveLike, AddDislike, RemoveDislike, ToTop,
                RespondToSharing, pipelineVars
  <2>2. ASSUME NEW r, NEW u, NEW e, CheckStep(r, u, e)
        PROVE  UNCHANGED tables
    BY <2>2 DEF CheckStep, AddBuddy, KnockEstate, CancelKnock, MoveToNewEstate, Invite,
         FindInvited, CancelInvite, BookTimeslot, CancelVisit, CancelVisitByLandlord, Share,
         CancelShare, RemoveFromTop, CancelTop, CancelAction, Begin
  <2>3. ASSUME NEW r \in Requests, NEW u \in Users, NEW e \in Estates, StoreStep(r, u, e)
        PROVE  \/ UNCHANGED slots /\ \A p \in Pairs : visit'[p] \in {visit[p], None}
               \/ StoreVisit(r, u, e)
    <3>1. CASE StoreCancelVisit(r, u, e) \/ LandlordDeletesVisit(r, u, e) \/ CancelTopVisit(r, u, e)
      BY <3>1 DEF StoreCancelVisit, LandlordDeletesVisit, CancelTopVisit, TypeOK
    <3>2. CASE \/ CreateBuddyMatch(r, u, e) \/ StoreKnock(r, u, e) \/ StoreCancelKnock(r, u, e)
               \/ StoreMove(r, u, e) \/ StoreInvite(r, u, e) \/ StoreCancelInvite(r, u, e)
               \/ LandlordMovesToInvite(r, u, e) \/ StoreShare(r, u, e) \/ StoreCancelShare(r, u, e)
               \/ StoreRemoveFromTop(r, u, e) \/ CancelTopMatch(r, u, e)
               \/ CancelTopDislike(r, u, e) \/ StoreCancelAction(r, u, e)
      <4>1. UNCHANGED <<visit, slots>>
        BY <3>2 DEF CreateBuddyMatch, StoreKnock, StoreCancelKnock, StoreMove, StoreInvite,
             StoreCancelInvite, LandlordMovesToInvite, StoreShare, StoreCancelShare,
             StoreRemoveFromTop, CancelTopMatch, CancelTopDislike, StoreCancelAction,
             pipelineVars
      <4>. QED
        BY <4>1
    <3>. QED
      BY <2>3, <3>1, <3>2 DEF StoreStep
  <2>4. ASSUME NEW r, MatchingStep(r)
        PROVE  UNCHANGED <<visit, slots>>
    BY <2>4 DEF MatchingStep, SearchEstates, FindOldMatches, CreateNewMatches, ScoreTenants,
         DeleteNewMatches, InsertNewMatches, Begin, tables, pipelineVars
  <2>5. ASSUME NEW e \in Estates, CalendarStep(e)
        PROVE  UNCHANGED visit /\ \A f \in Estates : slots[f] \subseteq slots'[f]
    <3>1. ASSUME NEW s \in Slots, CreateSlot(e, s)
          PROVE  UNCHANGED visit /\ \A f \in Estates : slots[f] \subseteq slots'[f]
      BY <3>1 DEF CreateSlot
    <3>2. ASSUME NEW r \in Requests, NEW s \in Slots,
                 RemoveSlot(r, e, s) \/ \E relength \in BOOLEAN : UpdateSlot(r, e, s, relength)
          PROVE  UNCHANGED <<visit, slots>>
      BY <3>2 DEF RemoveSlot, UpdateSlot, Begin, tables, pipelineVars
    <3>. QED
      BY <2>5, <3>1, <3>2 DEF CalendarStep
  <2>6. CASE \E u \in Users, e \in Estates :
                \E r \in Requests : CheckStep(r, u, e) \/ StoreStep(r, u, e)
    BY <2>2, <2>3, <2>6 DEF tables, pipelineVars
  <2>. QED
    BY <1>2, <2>1, <2>4, <2>5, <2>6 DEF FlowNext
<1>3. CASE FinalNext
  <2>1. UNCHANGED pipelineVars
    BY <1>3 DEF FinalNext, TenantCancelCommit, CancelCommit, FinalStep, RequestUserCommit,
         RequestFinalConfirm, FindExpiredCommit, MoveExpiredFinalConfirmToTop, FinalConfirm,
         HandleFinalMatch, Begin, tables
  <2>. QED
    BY <1>1, <2>1 DEF pipelineVars
<1>4. CASE TenantNext
  <2>1. ASSUME NEW e, NEW i, AddCurrentTenant(e, i)
        PROVE  UNCHANGED pipelineVars
    BY <2>1 DEF AddCurrentTenant
  <2>2. ASSUME NEW r, NEW e, NEW i, LandlordStep(r, e, i)
        PROVE  UNCHANGED pipelineVars
    BY <2>2 DEF LandlordStep, StoreSingleInvitation, InviteTenantToApp, RevokeInvitation,
         Disconnect, Expire, HandleDelete, Begin, tables
  <2>3. ASSUME NEW r, NEW e, InvitationStep(r, e)
        PROVE  UNCHANGED pipelineVars
    BY <2>3 DEF InvitationStep, SingleInvitation, FindInvitee, CreateDynamicLink,
         StoreRevokeInvitation, StoreExpire, StoreDelete, StoreAccept, StoreDisconnect,
         Begin, tables
  <2>4. ASSUME NEW r, NEW u, NEW e, NEW i, NEW j, AcceptOutsideTenant(r, u, e, i, j)
        PROVE  UNCHANGED pipelineVars
    BY <2>4 DEF AcceptOutsideTenant, Begin, tables
  <2>. QED
    BY <1>1, <1>4, <2>1, <2>2, <2>3, <2>4 DEF TenantNext, pipelineVars
<1>5. CASE MarketNext
  <2>1. UNCHANGED slots
    BY <1>5 DEF MarketNext, Extend, OffMarketPublish, Deactivate, Publish, StorePublish,
         Unpublish, StoreUnpublish, Begin, tables, pipelineVars
  <2>2. ASSUME NEW p \in Pairs
        PROVE  visit'[p] \in {visit[p], None}
    BY <1>5 DEF MarketNext, Extend, OffMarketPublish, Deactivate, Publish, StorePublish,
         Unpublish, StoreUnpublish, Begin, tables, pipelineVars
  <2>. QED
    BY <2>1, <2>2
<1>6. CASE UNCHANGED vars
  BY <1>1, <1>6 DEF vars, tables, pipelineVars
<1>. QED
  BY <1>2, <1>3, <1>4, <1>5, <1>6 DEF Next

\* No appointment outside the calendar of its estate, handlers one after the other,
\* unless the ends or the unit length of a slot are changed: updateSlot keeps the
\* visits of the prospects who are past VISIT by then, and all visits at the other
\* units of the building.
THEOREM VisitsInCalendar ==
    ASSUME OneAtATime, "updateSlot" \notin Endpoints
    PROVE  Spec => []VisitInCalendar
<1>1. Init => VisitInCalendar
  BY DEF Init, VisitInCalendar, Pairs
<1>2. TypeOK /\ StillTrue /\ OnlyOpen /\ VisitInCalendar /\ [Next]_vars => VisitInCalendar'
  <2>. SUFFICES ASSUME TypeOK, StillTrue, OnlyOpen, VisitInCalendar, [Next]_vars,
                       NEW u \in Users, NEW e \in Estates, visit'[<<u, e>>] # None
                PROVE  visit'[<<u, e>>] \in slots'[e]
    BY DEF VisitInCalendar
  <2>p. <<u, e>> \in Pairs /\ visit[<<u, e>>] \in slots[e] \cup {None}
    BY DEF VisitInCalendar, Pairs
  <2>1. CASE /\ \A p \in Pairs : visit'[p] \in {visit[p], None}
             /\ \A f \in Estates : slots[f] \subseteq slots'[f]
    BY <2>1, <2>p
  <2>2. ASSUME NEW r \in Requests, NEW v \in Users, NEW f \in Estates, StoreVisit(r, v, f)
        PROVE  visit'[<<u, e>>] \in slots'[e]
    <3>1. req[r].slot \in slots[f]
      BY <2>2, KnownStage DEF StoreVisit
    <3>2. UNCHANGED slots
      BY <2>2 DEF StoreVisit
    <3>3. \/ visit'[<<u, e>>] = visit[<<u, e>>]
          \/ <<u, e>> = <<v, f>> /\ visit'[<<u, e>>] = req[r].slot
      BY <2>2, <2>p DEF StoreVisit, TypeOK
    <3>. QED
      BY <2>p, <3>1, <3>2, <3>3
  <2>3. ASSUME NEW r \in Requests, NEW f \in Estates, StoreRemoveSlot(r, f)
        PROVE  visit'[<<u, e>>] \in slots'[e]
    <3>1. req[r].pairs = BookedAt(req[r].estates, req[r].slot)
      <4>1. Serving(r, "removeSlot", None, f)
        BY <2>3 DEF StoreRemoveSlot
      <4>2. Checked(req[r]) /\ req[r].op = "removeSlot"
        BY <4>1 DEF StillTrue, Serving
      <4>. QED
        BY <4>2 DEF Checked
    <3>2. visit'[<<u, e>>] = visit[<<u, e>>] /\ <<u, e>> \notin req[r].pairs
      BY <2>3, <2>p DEF StoreRemoveSlot, VisitsToInvites
    <3>3. e \in req[r].estates => visit[<<u, e>>] # req[r].slot
      BY <3>1, <3>2 DEF BookedAt
    <3>4. slots'[e] = IF e \in req[r].estates THEN slots[e] \ {req[r].slot} ELSE slots[e]
      BY <2>3 DEF StoreRemoveSlot, WithoutSlot
    <3>. QED
      BY <2>p, <3>2, <3>3, <3>4
  <2>4. ASSUME NEW r \in Requests, NEW f \in Estates, StoreUpdateSlot(r, f)
        PROVE  FALSE
    <3>1. req[r] # Idle /\ req[r].op = "updateSlot"
      BY <2>4 DEF StoreUpdateSlot, Serving
    <3>. QED
      BY <3>1 DEF OnlyOpen, Open
  <2>. QED
    BY <2>1, <2>2, <2>3, <2>4, CalendarKept
<1>. QED
  BY <1>1, <1>2, TypeCorrect, ChecksStayTrue, SpecOpen, PTL DEF Spec

-----------------------------------------------------------------------------
(* What a step makes of the stage of a match.                              *)

\* The store steps above, and what the calendar, the tenants and the market
\* do to the matches of a user or of an estate.
StageMove(p) ==
    \/ Onward(p)
    \/ \E r \in Requests, u \in Users, e \in Estates : Elsewhere(r, u, e, p)
    \/ \E r \in Requests, e \in Estates :
          /\ StoreRemoveSlot(r, e) \/ StoreUpdateSlot(r, e)
          /\ p \in req[r].pairs /\ match'[p].status = "invite" /\ visit'[p] = None
    \/ \E r \in Requests, u \in Users, e \in Estates :
          /\ StoreAccept(r, u, e) \/ \E i \in Rows : HandleFinalMatch(r, u, e, i)
          /\ p = <<u, e>> /\ match'[p].status = "finish"
    \/ \E r \in Requests, u \in Users, e \in Estates :
          /\ StoreDisconnect(r, u, e) /\ p = <<u, e>>
          /\ match[p].status = "finish" /\ match'[p].status = "new"
    \/ \E r \in Requests, e \in Estates :
          StorePublish(r, e) /\ p[2] = e /\ match'[p].status = "none"
    \/ \E e \in Estates : /\ Deactivate(e) /\ p[2] = e
                          /\ match[p].status # "finish" /\ match'[p].status = "none"

\* The computation of NEW matches goes along the arrows.
LEMMA MatchingMoves ==
    ASSUME TypeOK, StillTrue, NEW r \in Requests, MatchingStep(r), NEW p \in Pairs
    PROVE  Onward(p)
<1>s. [match[p] EXCEPT !.status = "new"].status = "new"
  BY MatchRow, StatusUpdate DEF Stages
<1>n. NoRow.status = "none" /\ [NoRow EXCEPT !.status = "new"].status = "new"
  BY NoRowType, StatusUpdate DEF NoRow, Stages
<1>1. CASE UNCHANGED match
  BY <1>1 DEF Onward
<1>2. CASE \E u \in Users : CreateNewMatches(r, u)
  <2>1. PICK u \in Users : CreateNewMatches(r, u)
    BY <1>2
  <2>2. Checked(req[r]) /\ req[r].op = "newMatches" /\ req[r].user = u
    BY <2>1 DEF CreateNewMatches, Serving, StillTrue
  <2>3. /\ \A e \in req[r].estates : match[<<u, e>>].status \in {"none", "new"}
        /\ \A q \in req[r].pairs : match[q].status = "new"
    BY <2>2 DEF Checked, Candidates, StatusOf
  <2>4. \/ match'[p] = match[p]
        \/ p \in req[r].pairs /\ match'[p] = NoRow
        \/ p \in {u} \X req[r].estates /\ match'[p] = [match[p] EXCEPT !.status = "new"]
    BY <2>1 DEF CreateNewMatches
  <2>5. p \in {u} \X req[r].estates => match[p].status \in {"none", "new"}
    BY <2>3
  <2>. QED
    BY <1>s, <1>n, <2>3, <2>4, <2>5 DEF Onward, Arrows
<1>3. CASE \E e \in Estates : DeleteNewMatches(r, e)
  <2>1. PICK e \in Estates : DeleteNewMatches(r, e)
    BY <1>3
  <2>2. \/ match'[p] = match[p]
        \/ match[p].status = "new" /\ match'[p] = NoRow
    BY <2>1 DEF DeleteNewMatches
  <2>. QED
    BY <1>n, <2>2 DEF Onward, Arrows
<1>4. CASE \E e \in Estates : InsertNewMatches(r, e)
  <2>1. PICK e \in Estates : InsertNewMatches(r, e)
    BY <1>4
  <2>2. \/ match'[p] = match[p]
        \/ match[p].status = "none" /\ match'[p] = [NoRow EXCEPT !.status = "new"]
    BY <2>1 DEF InsertNewMatches
  <2>. QED
    BY <1>n, <2>2 DEF Onward, Arrows
<1>. QED
  BY <1>1, <1>2, <1>3, <1>4 DEF MatchingStep, SearchEstates, FindOldMatches, ScoreTenants,
     Begin, tables

\* Everything that happens before COMMIT.
LEMMA FlowMoves ==
    ASSUME TypeOK, StillTrue, FlowNext, NEW p \in Pairs
    PROVE  StageMove(p)
<1>1. ASSUME NEW u \in Users, NEW e \in Estates, TransactionalStep(u, e)
      PROVE  Onward(p)
  <2>1. CASE UNCHANGED match
    BY <2>1 DEF Onward
  <2>2. CASE ToTop(u, e)
    <3>1. StatusOf(u, e) \in {"share", "visit"} /\ match' = WithStatus(u, e, "top")
      BY <2>2 DEF ToTop
    <3>2. match'[p].status = IF p = <<u, e>> /\ match[p].status # "none"
                             THEN "top" ELSE match[p].status
      BY <3>1, UpdatedStatus DEF Stages
    <3>. QED
      BY <3>1, <3>2 DEF Onward, Arrows, StatusOf
  <2>3. CASE \E answer \in BOOLEAN : RespondToSharing(u, e, answer)
    <3>1. PICK answer \in BOOLEAN : RespondToSharing(u, e, answer)
      BY <2>3
    <3>2. [match[p] EXCEPT !.share = answer].status = match[p].status
      BY MatchRow DEF Row
    <3>3. match'[p].status = match[p].status
      BY <3>1, <3>2 DEF RespondToSharing, TypeOK
    <3>. QED
      BY <3>3 DEF Onward
  <2>. QED
    BY <1>1, <2>1, <2>2, <2>3 DEF TransactionalStep, AddLike, RemoveLike, AddDislike, RemoveDislike
<1>2. ASSUME NEW r, NEW u, NEW e, CheckStep(r, u, e)
      PROVE  Onward(p)
  <2>1. UNCHANGED match
    BY <1>2 DEF CheckStep, AddBuddy, KnockEstate, CancelKnock, MoveToNewEstate, Invite,
       FindInvited, CancelInvite, BookTimeslot, CancelVisit, CancelVisitByLandlord, Share,
       CancelShare, RemoveFromTop, CancelTop, CancelAction, Begin, tables
  <2>. QED
    BY <2>1 DEF Onward
<1>3. ASSUME NEW r \in Requests, NEW u \in Users, NEW e \in Estates, StoreStep(r, u, e)
      PROVE  StageMove(p)
  BY <1>3, StoreArrows DEF StageMove
<1>4. ASSUME NEW e \in Estates, CalendarStep(e)
      PROVE  Onward(p)
  <2>1. UNCHANGED match
    BY <1>4 DEF CalendarStep, CreateSlot, RemoveSlot, UpdateSlot, Begin, tables
  <2>. QED
    BY <2>1 DEF Onward
<1>5. ASSUME NEW r \in Requests, NEW e \in Estates, StoreRemoveSlot(r, e) \/ StoreUpdateSlot(r, e)
      PROVE  StageMove(p)
  <2>1. VisitsToInvites(req[r].pairs)
    BY <1>5 DEF StoreRemoveSlot, StoreUpdateSlot
  <2>2. [match[p] EXCEPT !.status = "invite"].status = "invite"
    BY MatchRow, StatusUpdate DEF Stages
  <2>3. \/ match'[p].status = match[p].status
        \/ p \in req[r].pairs /\ match'[p].status = "invite" /\ visit'[p] = None
    BY <2>1, <2>2 DEF VisitsToInvites
  <2>. QED
    BY <1>5, <2>3 DEF StageMove, Onward
<1>. QED
  BY <1>1, <1>2, <1>3, <1>4, <1>5, MatchingMoves DEF FlowNext, StageMove

\* Every step.
LEMMA NextMoves ==
    ASSUME TypeOK, StillTrue, [Next]_vars, NEW p \in Pairs
    PROVE  StageMove(p)
<1>1. CASE UNCHANGED match
  BY <1>1 DEF StageMove, Onward
<1>2. CASE FinalNext
  <2>1. ASSUME NEW u \in Users, NEW e \in Estates, CancelCommit(u, e)
        PROVE  Onward(p)
    <3>1. \/ match' = match
          \/ StatusOf(u, e) = "commit" /\ match' = WithStatus(u, e, "top")
      BY <2>1 DEF CancelCommit
    <3>2. \/ match'[p].status = match[p].status
          \/ StatusOf(u, e) = "commit" /\ p = <<u, e>> /\ match'[p].status = "top"
      BY <3>1, UpdatedStatus DEF Stages
    <3>. QED
      BY <3>2 DEF Onward, Arrows, StatusOf
  <2>2. ASSUME NEW r \in Requests, NEW u \in Users, NEW e \in Estates, RequestFinalConfirm(r, u, e)
        PROVE  Onward(p)
    <3>1. \/ match' = match
          \/ StatusOf(u, e) = "top" /\ match' = WithStatus(u, e, "commit")
      BY <2>2 DEF RequestFinalConfirm
    <3>2. \/ match'[p].status = match[p].status
          \/ StatusOf(u, e) = "top" /\ p = <<u, e>> /\ match'[p].status = "commit"
      BY <3>1, UpdatedStatus DEF Stages
    <3>. QED
      BY <3>2 DEF Onward, Arrows, StatusOf
  <2>3. ASSUME NEW r \in Requests, NEW u \in Users, NEW e \in Estates, NEW i \in Rows,
               HandleFinalMatch(r, u, e, i)
        PROVE  StageMove(p)
    <3>1. match' = match \/ match' = WithStatus(u, e, "finish")
      BY <2>3 DEF HandleFinalMatch
    <3>2. \/ match'[p].status = match[p].status
          \/ p = <<u, e>> /\ match'[p].status = "finish"
      BY <3>1, UpdatedStatus DEF Stages
    <3>. QED
      BY <2>3, <3>2 DEF StageMove, Onward
  <2>. QED
    BY <1>1, <1>2, <2>1, <2>2, <2>3 DEF FinalNext, TenantCancelCommit, FinalStep,
       RequestUserCommit, FindExpiredCommit, FinalConfirm, MoveExpiredFinalConfirmToTop,
       Begin, tables, StageMove
<1>3. CASE TenantNext
  <2>1. ASSUME NEW r \in Requests, NEW u \in Users, NEW e \in Estates, StoreAccept(r, u, e)
        PROVE  StageMove(p)
    <3>1. \/ match' = match
          \/ match' = [match EXCEPT ![<<u, e>>].status = "finish"]
      BY <2>1 DEF StoreAccept
    <3>2. [match[p] EXCEPT !.status = "finish"].status = "finish"
      BY MatchRow, StatusUpdate DEF Stages
    <3>3. \/ match'[p].status = match[p].status
          \/ p = <<u, e>> /\ match'[p].status = "finish"
      BY <3>1, <3>2 DEF TypeOK
    <3>. QED
      BY <2>1, <3>3 DEF StageMove, Onward
  <2>2. ASSUME NEW r \in Requests, NEW u \in Users \cup {None}, NEW e \in Estates,
               StoreDisconnect(r, u, e)
        PROVE  StageMove(p)
    <3>1. match'[p] = IF p = <<u, e>> /\ match[p].status = "finish"
                      THEN [match[p] EXCEPT !.status = "new"] ELSE match[p]
      BY <2>2 DEF StoreDisconnect
    <3>2. [match[p] EXCEPT !.status = "new"].status = "new"
      BY MatchRow, StatusUpdate DEF Stages
    <3>3. \/ match'[p].status = match[p].status
          \/ p = <<u, e>> /\ match[p].status = "finish" /\ match'[p].status = "new"
      BY <3>1, <3>2
    <3>4. p = <<u, e>> => u \in Users
      BY DEF Pairs
    <3>. QED
      BY <2>2, <3>3, <3>4 DEF StageMove, Onward
  <2>3. ASSUME NEW e, NEW i, AddCurrentTenant(e, i)
        PROVE  UNCHANGED match
    BY <2>3 DEF AddCurrentTenant
  <2>4. ASSUME NEW r, NEW e, NEW i, LandlordStep(r, e, i)
        PROVE  UNCHANGED match
    BY <2>4 DEF LandlordStep, StoreSingleInvitation, InviteTenantToApp, RevokeInvitation,
         Disconnect, Expire, HandleDelete, Begin, tables
  <2>5. ASSUME NEW r, NEW e,
               \/ SingleInvitation(r, e) \/ FindInvitee(r, e) \/ CreateDynamicLink(r, e)
               \/ StoreRevokeInvitation(r, e) \/ StoreExpire(r, e) \/ StoreDelete(r, e)
        PROVE  UNCHANGED match
    BY <2>5 DEF SingleInvitation, FindInvitee, CreateDynamicLink,
         StoreRevokeInvitation, StoreExpire, StoreDelete, Begin, tables
  <2>6. ASSUME NEW r, NEW u, NEW e, NEW i, NEW j, AcceptOutsideTenant(r, u, e, i, j)
        PROVE  UNCHANGED match
    BY <2>6 DEF AcceptOutsideTenant, Begin, tables
  <2>. QED
    BY <1>1, <1>3, <2>1, <2>2, <2>3, <2>4, <2>5, <2>6 DEF TenantNext, InvitationStep
<1>4. CASE MarketNext
  <2>1. ASSUME NEW r \in Requests, NEW e \in Estates, StorePublish(r, e)
        PROVE  StageMove(p)
    <3>1. \/ match'[p] = match[p]
          \/ p[2] = e /\ match'[p] = NoRow
      BY <2>1 DEF StorePublish
    <3>. QED
      BY <2>1, <3>1 DEF StageMove, Onward, NoRow
  <2>2. ASSUME NEW e \in Estates, Deactivate(e)
        PROVE  StageMove(p)
    <3>1. \/ match'[p] = match[p]
          \/ p[2] = e /\ match[p].status # "finish" /\ match'[p] = NoRow
      BY <2>2 DEF Deactivate
    <3>. QED
      BY <2>2, <3>1 DEF StageMove, Onward, NoRow
  <2>. QED
    BY <1>1, <1>4, <2>1, <2>2 DEF MarketNext, Extend, OffMarketPublish, Publish, Unpublish,
       StoreUnpublish, Begin, tables
<1>. QED
  BY <1>1, <1>2, <1>3, <1>4, FlowMoves DEF Next, vars, tables

-----------------------------------------------------------------------------
(* Who can book.                                                           *)

Booked == {"visit", "share", "top", "commit", "finish"}

\* A handler of Takes that has not deleted the visit yet.
Taking(r, p) ==
    /\ Serving(r, "landlordCancel", p[1], p[2]) \/ Serving(r, "cancelTop", p[1], p[2])
    /\ "visit" \in req[r].todo

\* Appointments belong to matches from VISIT on, until a handler that takes them has
\* deleted them.
AppointedAreBooked ==
    \A p \in Pairs : visit[p] # None =>
        match[p].status \in Booked \/ \E r \in Requests : Taking(r, p)

\* While such a handler is served, only its own statements change its request.
LEMMA TakingSteps ==
    ASSUME TypeOK, OneAtATime, [Next]_vars, NEW r \in Requests, req[r] # Idle,
           req[r].op \in Takes, req'[r] # req[r]
    PROVE  \E u \in Users, e \in Estates :
               \/ LandlordDeletesVisit(r, u, e) \/ LandlordMovesToInvite(r, u, e)
               \/ CancelTopMatch(r, u, e) \/ CancelTopVisit(r, u, e)
               \/ CancelTopDislike(r, u, e)
<1>1. \A s \in Requests : s = r
  BY DEF OneAtATime
<1>2. CASE FlowNext
  <2>1. ASSUME NEW u \in Users, NEW e \in Estates, TransactionalStep(u, e)
        PROVE  FALSE
    BY <2>1 DEF TransactionalStep, AddLike, RemoveLike, AddDislike, RemoveDislike, ToTop,
                RespondToSharing, Served, Takes
  <2>2. ASSUME NEW s \in Requests, NEW u \in Users, NEW e \in Estates, CheckStep(s, u, e)
        PROVE  FALSE
    BY <1>1, <2>2 DEF CheckStep, AddBuddy, KnockEstate, CancelKnock, MoveToNewEstate, Invite,
       FindInvited, CancelInvite, BookTimeslot, CancelVisit, CancelVisitByLandlord, Share,
       CancelShare, RemoveFromTop, CancelTop, CancelAction, Accepts, Serving, Takes
  <2>3. ASSUME NEW s \in Requests, NEW u \in Users, NEW e \in Estates,
               \/ CreateBuddyMatch(s, u, e) \/ StoreKnock(s, u, e) \/ StoreCancelKnock(s, u, e)
               \/ StoreMove(s, u, e) \/ StoreInvite(s, u, e) \/ StoreCancelInvite(s, u, e)
               \/ StoreVisit(s, u, e) \/ StoreCancelVisit(s, u, e)
               \/ StoreShare(s, u, e) \/ StoreCancelShare(s, u, e)
               \/ StoreRemoveFromTop(s, u, e) \/ StoreCancelAction(s, u, e)
        PROVE  FALSE
    BY <1>1, <2>3 DEF CreateBuddyMatch, StoreKnock, StoreCancelKnock, StoreMove, StoreInvite,
       StoreCancelInvite, StoreVisit, StoreCancelVisit, StoreShare, StoreCancelShare,
       StoreRemoveFromTop, StoreCancelAction, Serving, Takes
  <2>4. ASSUME NEW s \in Requests, MatchingStep(s)
        PROVE  FALSE
    BY <1>1, <2>4 DEF MatchingStep, SearchEstates, FindOldMatches, CreateNewMatches,
       ScoreTenants, DeleteNewMatches, InsertNewMatches, Accepts, Serving, Takes
  <2>5. ASSUME NEW e \in Estates, CalendarStep(e)
        PROVE  FALSE
    BY <1>1, <2>5 DEF CalendarStep, CreateSlot, RemoveSlot, UpdateSlot, Accepts, Served, Takes
  <2>6. ASSUME NEW s \in Requests, NEW e \in Estates, StoreRemoveSlot(s, e) \/ StoreUpdateSlot(s, e)
        PROVE  FALSE
    BY <1>1, <2>6 DEF StoreRemoveSlot, StoreUpdateSlot, Serving, Takes
  <2>7. PICK s \in Requests, u \in Users, e \in Estates : StoreStep(s, u, e)
    BY <1>2, <2>1, <2>2, <2>4, <2>5, <2>6 DEF FlowNext
  <2>. QED
    BY <1>1, <2>3, <2>7 DEF StoreStep
<1>3. CASE FinalNext
  <2>. QED
    BY <1>1, <1>3 DEF FinalNext, TenantCancelCommit, FinalStep, RequestUserCommit,
       RequestFinalConfirm, FindExpiredCommit, MoveExpiredFinalConfirmToTop, FinalConfirm,
       HandleFinalMatch, Accepts, Serving, Served, Takes
<1>4. CASE TenantNext
  <2>1. ASSUME NEW e, NEW i, AddCurrentTenant(e, i)
        PROVE  FALSE
    BY <2>1 DEF AddCurrentTenant, Served, Takes
  <2>2. ASSUME NEW s \in Requests, NEW e, NEW i, LandlordStep(s, e, i)
        PROVE  FALSE
    BY <1>1, <2>2 DEF LandlordStep, StoreSingleInvitation, InviteTenantToApp, RevokeInvitation,
         Disconnect, Expire, HandleDelete, Accepts, Serving, Takes
  <2>3. ASSUME NEW s \in Requests, NEW e, InvitationStep(s, e)
        PROVE  FALSE
    BY <1>1, <2>3 DEF InvitationStep, SingleInvitation, FindInvitee, CreateDynamicLink,
         StoreRevokeInvitation, StoreExpire, StoreDelete, StoreAccept, StoreDisconnect,
         Accepts, Serving, Takes
  <2>4. ASSUME NEW s \in Requests, NEW u, NEW e, NEW i, NEW j, AcceptOutsideTenant(s, u, e, i, j)
        PROVE  FALSE
    BY <1>1, <2>4 DEF AcceptOutsideTenant, Accepts, Takes
  <2>. QED
    BY <1>4, <2>1, <2>2, <2>3, <2>4 DEF TenantNext
<1>5. CASE MarketNext
  <2>. QED
    BY <1>1, <1>5 DEF MarketNext, Extend, OffMarketPublish, Deactivate, Publish, StorePublish,
       Unpublish, StoreUnpublish, Accepts, Serving, Served, Takes
<1>. QED
  BY <1>2, <1>3, <1>4, <1>5 DEF Next, vars

\* What such a handler has not deleted yet stays to be deleted.
LEMMA TakingStays ==
    ASSUME TypeOK, OneAtATime, [Next]_vars, NEW r \in Requests, NEW p \in Pairs, Taking(r, p),
           visit'[p] # None
    PROVE  Taking(r, p)'
<1>1. CASE req'[r] = req[r]
  BY <1>1 DEF Taking, Serving
<1>2. CASE req'[r] # req[r]
  <2>1. /\ req[r] # Idle /\ req[r].op \in Takes
        /\ p = <<req[r].user, req[r].estate>> /\ req[r] \in Call
        /\ "visit" \in req[r].todo
    BY DEF Taking, Serving, Pairs, TypeOK, Takes
  <2>2. PICK u \in Users, e \in Estates :
               \/ LandlordDeletesVisit(r, u, e) \/ LandlordMovesToInvite(r, u, e)
               \/ CancelTopMatch(r, u, e) \/ CancelTopVisit(r, u, e)
               \/ CancelTopDislike(r, u, e)
    BY <1>2, <2>1, TakingSteps
  <2>3. p = <<u, e>>
    BY <2>1, <2>2 DEF LandlordDeletesVisit, LandlordMovesToInvite, CancelTopMatch,
       CancelTopVisit, CancelTopDislike, Serving
  <2>4. ~LandlordDeletesVisit(r, u, e) /\ ~CancelTopVisit(r, u, e)
    BY <2>3 DEF LandlordDeletesVisit, CancelTopVisit, TypeOK
  <2>5. PICK write \in {"match", "dislike"} : Done(r, write)
    BY <2>2, <2>4 DEF LandlordMovesToInvite, CancelTopMatch, CancelTopDislike
  <2>6. PICK c \in Call : c = req[r]
    BY <2>1
  <2>7. req'[r] = [c EXCEPT !.todo = @ \ {write}]
    <3>1. req[r].todo # {write}
      BY <2>1, <2>5
    <3>2. req' = [req EXCEPT ![r].todo = @ \ {write}]
      BY <2>5, <3>1 DEF Done
    <3>. QED
      BY <2>6, <3>2 DEF TypeOK
  <2>d. PICK d \in Call : d = [c EXCEPT !.todo = @ \ {write}]
    BY GoesOnTodo
  <2>8. /\ req'[r].op = c.op /\ req'[r].user = c.user /\ req'[r].estate = c.estate
        /\ req'[r].todo = c.todo \ {write} /\ req'[r] \in Call
    <3>1. /\ d.op = c.op /\ d.user = c.user /\ d.estate = c.estate
          /\ d.todo = c.todo \ {write}
      BY <2>d, GoesOnTodo
    <3>. QED
      BY <2>7, <2>d, <3>1
  <2>9. req'[r] # Idle
    BY <2>8, IdleAssumption
  <2>. QED
    BY <2>1, <2>5, <2>6, <2>8, <2>9 DEF Taking, Serving
<1>. QED
  BY <1>1, <1>2

\* Handlers one after the other, whoever is invited can book, where likes alone do not
\* knock and nobody is moved, reset, published again or disconnected with his visit
\* left behind; the categories are single estates.
THEOREM InvitationsCanBeBooked ==
    ASSUME OneAtATime, \A e \in Estates : Category[e] = {e},
           Endpoints \cap {"like", "knockAnyway", "move", "cancelAction", "publish",
                           "disconnect"} = {}
    PROVE  Spec => []InvitedCanBook
<1> DEFINE Inv == AppointedAreBooked /\ likes = {}
<1>1. Init => Inv
  BY DEF Init, AppointedAreBooked
<1>2. TypeOK /\ StillTrue /\ OnlyOpen /\ Inv /\ [Next]_vars => Inv'
  <2>. SUFFICES ASSUME TypeOK, StillTrue, OnlyOpen, Inv, [Next]_vars
                PROVE  Inv'
    OBVIOUS
  <2>1. likes' = {}
    <3>1. likes' \subseteq likes \/ Served("like")
      BY NextMarks DEF MarksStep
    <3>. QED
      BY <3>1 DEF Served
  <2>2. ASSUME NEW p \in Pairs, visit'[p] # None
        PROVE  match'[p].status \in Booked \/ \E r \in Requests : Taking(r, p)'
    <3>1. CASE visit'[p] = visit[p]
      <4>1. ASSUME NEW r \in Requests, Taking(r, p)
            PROVE  Taking(r, p)'
        BY <2>2, <4>1, TakingStays
      <4>2. CASE match[p].status \in Booked
        <5>1. CASE Onward(p)
          BY <4>2, <5>1 DEF Onward, Arrows, Booked
        <5>2. ASSUME NEW r \in Requests, NEW u \in Users, NEW e \in Estates,
                     Elsewhere(r, u, e, p)
              PROVE  match'[p].status \in Booked \/ Taking(r, p)'
          <6>1. CASE StoreCancelVisit(r, u, e) /\ p = <<u, e>>
            BY <2>2, <6>1 DEF StoreCancelVisit, TypeOK
          <6>2. CASE /\ CancelTopMatch(r, u, e) \/ LandlordMovesToInvite(r, u, e)
                     /\ p = <<u, e>>
            <7>1. Serving(r, "cancelTop", u, e) \/ Serving(r, "landlordCancel", u, e)
              BY <6>2 DEF CancelTopMatch, LandlordMovesToInvite
            <7>2. "visit" \notin req[r].todo => visit[<<u, e>>] = None
              BY <7>1 DEF StillTrue, Checked, Serving
            <7>3. Taking(r, p)
              BY <2>2, <3>1, <6>2, <7>1, <7>2 DEF Taking
            <7>. QED
              BY <4>1, <7>3
          <6>3. CASE StoreKnock(r, u, e) /\ p[1] = u /\ p[2] \in SameCategory(e)
            <7>1. p = <<u, e>>
              BY <6>3 DEF SameCategory, Pairs
            <7>2. Checked(req[r]) /\ req[r].op = "knock" /\ req[r].user = u /\ req[r].estate = e
              BY <6>3 DEF StoreKnock, Serving, StillTrue
            <7>3. StatusOf(u, e) = "new"
              BY <7>2 DEF Checked, At
            <7>. QED
              BY <4>2, <7>1, <7>3 DEF StatusOf, Booked
          <6>4. CASE StoreMove(r, u, e) \/ StoreCancelAction(r, u, e)
            BY <6>4 DEF StoreMove, StoreCancelAction, Serving, OnlyOpen, Open
          <6>5. CASE StoreCancelShare(r, u, e) /\ match'[p].status = "visit"
            BY <6>5 DEF Booked
          <6>6. CASE match[p].status \in {"knock", "new"}
            BY <4>2, <6>6 DEF Booked
          <6>. QED
            BY <5>2, <6>1, <6>2, <6>3, <6>4, <6>5, <6>6 DEF Elsewhere
        <5>3. ASSUME NEW r \in Requests, NEW u, NEW e,
                     StoreDisconnect(r, u, e) \/ StorePublish(r, e)
              PROVE  FALSE
          BY <5>3 DEF StoreDisconnect, StorePublish, Serving, OnlyOpen, Open
        <5>4. ASSUME NEW e \in Estates, Deactivate(e), p[2] = e
              PROVE  FALSE
          BY <2>2, <5>4 DEF Deactivate
        <5>5. match'[p].status = "finish" => match'[p].status \in Booked
          BY DEF Booked
        <5>6. StageMove(p)
          BY NextMoves
        <5>. QED
          BY <2>2, <5>1, <5>2, <5>3, <5>4, <5>5, <5>6 DEF StageMove
      <4>. QED
        BY <2>2, <3>1, <4>1, <4>2 DEF AppointedAreBooked
    <3>2. ASSUME NEW r \in Requests, NEW u \in Users, NEW e \in Estates, StoreVisit(r, u, e),
                 visit'[p] # visit[p]
          PROVE  match'[p].status \in Booked
      <4>1. p = <<u, e>> /\ match' = WithStatus(u, e, "visit")
        BY <3>2 DEF StoreVisit, TypeOK
      <4>2. StatusOf(u, e) = "invite"
        BY <3>2, KnownStage DEF StoreVisit
      <4>3. match'[p].status = "visit"
        BY <4>1, <4>2, UpdatedStatus DEF Stages, StatusOf
      <4>. QED
        BY <4>3 DEF Booked
    <3>3. ASSUME NEW r \in Requests, NEW e \in Estates,
                 StoreRemoveSlot(r, e) \/ StoreUpdateSlot(r, e)
          PROVE  visit'[p] \in {visit[p], None}
      BY <3>3 DEF StoreRemoveSlot, StoreUpdateSlot, VisitsToInvites
    <3>. QED
      BY <2>2, <3>1, <3>2, <3>3, CalendarKept
  <2>. QED
    BY <2>1, <2>2 DEF AppointedAreBooked
<1>3. Inv => InvitedCanBook
  BY DEF AppointedAreBooked, InvitedCanBook, Quiet, Taking, Serving, Booked
<1>. QED
  BY <1>1, <1>2, <1>3, TypeCorrect, ChecksStayTrue, SpecOpen, PTL DEF Spec

-----------------------------------------------------------------------------
(* Estates and buddies.                                                    *)

\* How a step may change whether e is offered and whether it is let.
EstateStep(e) ==
    \/ status'[e] = status[e] /\ (e \in let' <=> e \in let)
    \/ status'[e] = "draft" /\ (e \in let => e \in let')
    \/ status'[e] \in {"active", "expire"} /\ e \notin let /\ e \notin let'
    \/ /\ status[e] \in {"active", "expire"} /\ status'[e] = "active"
       /\ e \in let' <=> e \in let
    \/ Served("offMarket") /\ (e \in let' <=> e \in let)
    \/ /\ \E r \in Requests, f \in Estates : StoreDelete(r, f)
       /\ status'[e] = status[e] /\ (e \in let' => e \in let)

LEMMA EstateKept ==
    ASSUME TypeOK, StillTrue, [Next]_vars, NEW e \in Estates
    PROVE  EstateStep(e)
<1>1. CASE UNCHANGED estateVars
  BY <1>1 DEF estateVars, EstateStep
<1>2. CASE FlowNext
  <2>1. ASSUME NEW u, NEW f, TransactionalStep(u, f)
        PROVE  UNCHANGED estateVars
    BY <2>1 DEF TransactionalStep, AddLike, RemoveLike, AddDislike, RemoveDislike, ToTop,
                RespondToSharing
  <2>2. ASSUME NEW r, NEW u, NEW f, CheckStep(r, u, f)
        PROVE  UNCHANGED estateVars
    BY <2>2 DEF CheckStep, AddBuddy, KnockEstate, CancelKnock, MoveToNewEstate, Invite,
         FindInvited, CancelInvite, BookTimeslot, CancelVisit, CancelVisitByLandlord, Share,
         CancelShare, RemoveFromTop, CancelTop, CancelAction, Begin, tables
  <2>3. ASSUME NEW r, NEW u, NEW f, StoreStep(r, u, f)
        PROVE  UNCHANGED estateVars
    BY <2>3 DEF StoreStep, CreateBuddyMatch, StoreKnock, StoreCancelKnock, StoreMove,
         StoreInvite, StoreCancelInvite, StoreVisit, StoreCancelVisit, LandlordDeletesVisit,
         LandlordMovesToInvite, StoreShare, StoreCancelShare, StoreRemoveFromTop,
         CancelTopMatch, CancelTopVisit, CancelTopDislike, StoreCancelAction
  <2>4. ASSUME NEW r, MatchingStep(r)
        PROVE  UNCHANGED estateVars
    BY <2>4 DEF MatchingStep, SearchEstates, FindOldMatches, CreateNewMatches, ScoreTenants,
         DeleteNewMatches, InsertNewMatches, Begin, tables
  <2>5. ASSUME NEW f, CalendarStep(f)
        PROVE  UNCHANGED estateVars
    BY <2>5 DEF CalendarStep, CreateSlot, RemoveSlot, UpdateSlot, Begin, tables
  <2>6. ASSUME NEW r, NEW f, StoreRemoveSlot(r, f) \/ StoreUpdateSlot(r, f)
        PROVE  UNCHANGED estateVars
    BY <2>6 DEF StoreRemoveSlot, StoreUpdateSlot
  <2>. QED
    BY <1>1, <1>2, <2>1, <2>2, <2>3, <2>4, <2>5, <2>6 DEF FlowNext
<1>3. ASSUME NEW f \in Estates, Rented(f)
      PROVE  EstateStep(e)
  BY <1>3 DEF Rented, EstateStep, TypeOK
<1>4. CASE FinalNext
  BY <1>1, <1>3, <1>4 DEF FinalNext, TenantCancelCommit, CancelCommit, FinalStep,
     RequestUserCommit, RequestFinalConfirm, FindExpiredCommit, MoveExpiredFinalConfirmToTop,
     FinalConfirm, HandleFinalMatch, Begin, tables
<1>5. CASE TenantNext
  <2>1. ASSUME NEW f, NEW i, AddCurrentTenant(f, i)
        PROVE  UNCHANGED estateVars
    BY <2>1 DEF AddCurrentTenant
  <2>2. ASSUME NEW r, NEW f \in Estates, NEW i, LandlordStep(r, f, i)
        PROVE  EstateStep(e)
    BY <1>1, <1>3, <2>2 DEF LandlordStep, StoreSingleInvitation, InviteTenantToApp,
         RevokeInvitation, Disconnect, Expire, HandleDelete, Begin, tables
  <2>3. ASSUME NEW r \in Requests, NEW f \in Estates, StoreDelete(r, f)
        PROVE  EstateStep(e)
    BY <2>3 DEF StoreDelete, EstateStep
  <2>4. ASSUME NEW r, NEW f \in Estates, InvitationStep(r, f), ~StoreDelete(r, f)
        PROVE  EstateStep(e)
    BY <1>1, <1>3, <2>4 DEF InvitationStep, SingleInvitation, FindInvitee, CreateDynamicLink,
         StoreRevokeInvitation, StoreExpire, StoreAccept, StoreDisconnect, Begin, tables
  <2>5. ASSUME NEW r, NEW u, NEW f, NEW i, NEW j, AcceptOutsideTenant(r, u, f, i, j)
        PROVE  UNCHANGED estateVars
    BY <2>5 DEF AcceptOutsideTenant, Begin, tables
  <2>. QED
    BY <1>1, <1>5, <2>1, <2>2, <2>3, <2>4, <2>5 DEF TenantNext
<1>6. CASE MarketNext
  <2>1. ASSUME NEW f \in Estates, Extend(f)
        PROVE  EstateStep(e)
    BY <2>1 DEF Extend, EstateStep, TypeOK
  <2>2. ASSUME NEW f \in Estates, OffMarketPublish(f)
        PROVE  EstateStep(e)
    BY <2>2 DEF OffMarketPublish, EstateStep
  <2>3. ASSUME NEW f \in Estates, Deactivate(f)
        PROVE  EstateStep(e)
    BY <2>3 DEF Deactivate, EstateStep, TypeOK
  <2>4. ASSUME NEW r \in Requests, NEW f \in Estates, StorePublish(r, f)
        PROVE  EstateStep(e)
    <3>1. f \notin let
      BY <2>4, KnownStage DEF StorePublish
    <3>. QED
      BY <2>4, <3>1 DEF StorePublish, EstateStep, TypeOK
  <2>5. ASSUME NEW r \in Requests, NEW f \in Estates, StoreUnpublish(r, f)
        PROVE  EstateStep(e)
    <3>1. req[r].flag <=> f \in let
      BY <2>5, KnownStage DEF StoreUnpublish
    <3>. QED
      BY <2>5, <3>1 DEF StoreUnpublish, EstateStep, TypeOK
  <2>6. ASSUME NEW r, NEW f, Unpublish(r, f) \/ \E retain \in BOOLEAN : Publish(r, f, retain)
        PROVE  UNCHANGED estateVars
    BY <2>6 DEF Publish, Unpublish, Begin, tables
  <2>. QED
    BY <1>1, <1>6, <2>1, <2>2, <2>3, <2>4, <2>5, <2>6 DEF MarketNext
<1>. QED
  BY <1>1, <1>2, <1>4, <1>5, <1>6 DEF Next, vars, tables

\* Updates of the stage, with or without the answer about the profile, leave it open
\* whether the row is a buddy's.
LEMMA BuddyUpdate ==
    ASSUME NEW row \in Row, NEW s, NEW share
    PROVE  /\ [row EXCEPT !.status = s].buddy = row.buddy
           /\ [row EXCEPT !.share = share].buddy = row.buddy
           /\ [row EXCEPT !.status = s, !.share = share].buddy = row.buddy
BY DEF Row

\* Only those who follow a landlord's link become buddies.
LEMMA BuddyKept ==
    ASSUME TypeOK, [Next]_vars, NEW p \in Pairs, match'[p].buddy
    PROVE  match[p].buddy \/ \E r \in Requests, u \in Users, e \in Estates : CreateBuddyMatch(r, u, e)
<1>b. \A s, share : /\ [match[p] EXCEPT !.status = s].buddy = match[p].buddy
                    /\ [match[p] EXCEPT !.share = share].buddy = match[p].buddy
  BY MatchRow, BuddyUpdate
<1>n. NoRow.buddy = FALSE /\ [NoRow EXCEPT !.status = "new"].buddy = FALSE
  BY DEF NoRow
<1>c. ASSUME NEW s, NEW share, match'[p] = [match[p] EXCEPT !.status = s, !.share = share]
      PROVE  match[p].buddy
  <2>1. PICK row \in Row : row = match[p]
    BY MatchRow
  <2>2. match'[p] = [row EXCEPT !.status = s, !.share = share]
    BY <1>c, <2>1
  <2>3. [row EXCEPT !.status = s, !.share = share].buddy = row.buddy
    BY BuddyUpdate
  <2>. QED
    BY <2>1, <2>2, <2>3
<1>w. ASSUME NEW u, NEW e, NEW s, match' = WithStatus(u, e, s)
      PROVE  match[p].buddy
  <2>1. match'[p] \in {match[p], [match[p] EXCEPT !.status = s]}
    BY <1>w DEF WithStatus, TypeOK
  <2>. QED
    BY <1>b, <2>1
<1>1. CASE UNCHANGED match
  BY <1>1
<1>2. CASE FlowNext
  <2>1. ASSUME NEW u, NEW e, TransactionalStep(u, e)
        PROVE  match[p].buddy
    <3>1. CASE \E answer \in BOOLEAN : RespondToSharing(u, e, answer)
      <4>1. PICK answer \in BOOLEAN : match' = [match EXCEPT ![<<u, e>>].share = answer]
        BY <3>1 DEF RespondToSharing
      <4>2. match'[p] \in {match[p], [match[p] EXCEPT !.share = answer]}
        BY <4>1 DEF TypeOK
      <4>. QED
        BY <1>b, <4>2
    <3>. QED
      BY <1>1, <1>w, <2>1, <3>1 DEF TransactionalStep, AddLike, RemoveLike, AddDislike,
                RemoveDislike, ToTop
  <2>2. ASSUME NEW r, NEW u, NEW e, CheckStep(r, u, e)
        PROVE  UNCHANGED match
    BY <2>2 DEF CheckStep, AddBuddy, KnockEstate, CancelKnock, MoveToNewEstate, Invite,
         FindInvited, CancelInvite, BookTimeslot, CancelVisit, CancelVisitByLandlord, Share,
         CancelShare, RemoveFromTop, CancelTop, CancelAction, Begin, tables
  <2>3. ASSUME NEW r, NEW u, NEW e, StoreStep(r, u, e), ~CreateBuddyMatch(r, u, e)
        PROVE  match[p].buddy
    <3>1. CASE StoreKnock(r, u, e)
      <4>1. match'[p] \in {match[p], [match[p] EXCEPT !.status = "knock"]}
        BY <3>1 DEF StoreKnock
      <4>. QED
        BY <1>b, <4>1
    <3>2. CASE StoreCancelKnock(r, u, e) \/ CancelTopMatch(r, u, e)
      <4>1. match'[p] \in {match[p], NoRow}
        BY <3>2 DEF StoreCancelKnock, CancelTopMatch, TypeOK
      <4>. QED
        BY <1>n, <4>1
    <3>3. CASE StoreMove(r, u, e)
      <4>1. match'[p] \in {match[p], NoRow, [match[p] EXCEPT !.status = "knock"]}
        BY <3>3 DEF StoreMove
      <4>. QED
        BY <1>b, <1>n, <4>1
    <3>4. CASE StoreInvite(r, u, e)
      <4> DEFINE s == IF e \in NotShown THEN "top" ELSE "invite"
                 share == req[r].flag /\ e \in NotShown
      <4>1. match'[p] \in {match[p], NoRow, [match[p] EXCEPT !.status = s, !.share = share]}
        BY <3>4 DEF StoreInvite
      <4>. HIDE DEF s, share
      <4>. QED
        BY <1>c, <1>n, <4>1
    <3>5. CASE StoreShare(r, u, e)
      <4>1. match'[p] \in {match[p], [match[p] EXCEPT !.status = "share", !.share = TRUE]}
        BY <3>5 DEF StoreShare, TypeOK
      <4>. QED
        BY <1>c, <4>1
    <3>6. CASE StoreCancelShare(r, u, e)
      <4>1. match'[p] \in {match[p], [match[p] EXCEPT !.status = "visit", !.share = FALSE]}
        BY <3>6 DEF StoreCancelShare, TypeOK
      <4>. QED
        BY <1>c, <4>1
    <3>7. CASE StoreCancelAction(r, u, e)
      <4>1. match'[p] \in {match[p], [match[p] EXCEPT !.status = "new"]}
        BY <3>7 DEF StoreCancelAction
      <4>. QED
        BY <1>b, <4>1
    <3>8. CASE \/ StoreCancelInvite(r, u, e) \/ StoreVisit(r, u, e) \/ StoreCancelVisit(r, u, e)
               \/ LandlordDeletesVisit(r, u, e) \/ LandlordMovesToInvite(r, u, e)
               \/ StoreRemoveFromTop(r, u, e) \/ CancelTopVisit(r, u, e)
               \/ CancelTopDislike(r, u, e)
      BY <1>1, <1>w, <3>8 DEF StoreCancelInvite, StoreVisit, StoreCancelVisit,
         LandlordDeletesVisit, LandlordMovesToInvite, StoreRemoveFromTop, CancelTopVisit,
         CancelTopDislike
    <3>. QED
      BY <2>3, <3>1, <3>2, <3>3, <3>4, <3>5, <3>6, <3>7, <3>8 DEF StoreStep
  <2>4. ASSUME NEW r, MatchingStep(r)
        PROVE  match[p].buddy
    <3>1. \/ match'[p] \in {match[p], NoRow, [match[p] EXCEPT !.status = "new"]}
          \/ match'[p] = [NoRow EXCEPT !.status = "new"]
      BY <2>4 DEF MatchingStep, SearchEstates, FindOldMatches, CreateNewMatches, ScoreTenants,
         DeleteNewMatches, InsertNewMatches, Begin, tables
    <3>. QED
      BY <1>b, <1>n, <3>1
  <2>5. ASSUME NEW e, CalendarStep(e)
        PROVE  UNCHANGED match
    BY <2>5 DEF CalendarStep, CreateSlot, RemoveSlot, UpdateSlot, Begin, tables
  <2>6. ASSUME NEW r, NEW e, StoreRemoveSlot(r, e) \/ StoreUpdateSlot(r, e)
        PROVE  match[p].buddy
    <3>1. match'[p] \in {match[p], [match[p] EXCEPT !.status = "invite"]}
      BY <2>6 DEF StoreRemoveSlot, StoreUpdateSlot, VisitsToInvites
    <3>. QED
      BY <1>b, <3>1
  <2>. QED
    BY <1>1, <1>2, <2>1, <2>2, <2>3, <2>4, <2>5, <2>6 DEF FlowNext
<1>3. CASE FinalNext
  BY <1>1, <1>3, <1>w DEF FinalNext, TenantCancelCommit, CancelCommit, FinalStep,
     RequestUserCommit, RequestFinalConfirm, FindExpiredCommit, MoveExpiredFinalConfirmToTop,
     FinalConfirm, HandleFinalMatch, Begin, tables
<1>4. CASE TenantNext
  <2>1. ASSUME NEW e, NEW i, AddCurrentTenant(e, i)
        PROVE  UNCHANGED match
    BY <2>1 DEF AddCurrentTenant
  <2>2. ASSUME NEW r, NEW e, NEW i, LandlordStep(r, e, i)
        PROVE  UNCHANGED match
    BY <2>2 DEF LandlordStep, StoreSingleInvitation, InviteTenantToApp, RevokeInvitation,
         Disconnect, Expire, HandleDelete, Begin, tables
  <2>3. ASSUME NEW r, NEW e, InvitationStep(r, e)
        PROVE  match[p].buddy
    <3>1. CASE \E u \in Users : StoreAccept(r, u, e)
      <4>1. match'[p] \in {match[p], [match[p] EXCEPT !.status = "finish"]}
        BY <3>1 DEF StoreAccept, TypeOK
      <4>. QED
        BY <1>b, <4>1
    <3>2. CASE \E u \in Users \cup {None} : StoreDisconnect(r, u, e)
      <4>1. match'[p] \in {match[p], [match[p] EXCEPT !.status = "new"]}
        BY <3>2 DEF StoreDisconnect
      <4>. QED
        BY <1>b, <4>1
    <3>. QED
      BY <1>1, <2>3, <3>1, <3>2 DEF InvitationStep, SingleInvitation, FindInvitee,
         CreateDynamicLink, StoreRevokeInvitation, StoreExpire, StoreDelete, Begin, tables
  <2>4. ASSUME NEW r, NEW u, NEW e, NEW i, NEW j, AcceptOutsideTenant(r, u, e, i, j)
        PROVE  UNCHANGED match
    BY <2>4 DEF AcceptOutsideTenant, Begin, tables
  <2>. QED
    BY <1>1, <1>4, <2>1, <2>2, <2>3, <2>4 DEF TenantNext
<1>5. CASE MarketNext
  <2>1. match'[p] \in {match[p], NoRow}
    BY <1>5 DEF MarketNext, Extend, OffMarketPublish, Deactivate, Publish, StorePublish,
       Unpublish, StoreUnpublish, Begin, tables
  <2>. QED
    BY <1>n, <2>1
<1>. QED
  BY <1>1, <1>2, <1>3, <1>4, <1>5 DEF Next, vars, tables

-----------------------------------------------------------------------------
(* One unit of a category.                                                 *)

Handled == {"invite", "visit", "share", "top", "commit"}
AtRest == {"none", "new", "finish"}

\* A prospect who is handled at a unit has nothing under way at the others, which
\* also keeps a second invitation from them.
Solo ==
    \A u \in Users, e \in Estates : \A f \in Category[e] \ {e} :
        StatusOf(u, e) \in Handled => StatusOf(u, f) \in AtRest

NoOffline == \A e \in Estates : status[e] # "offline"
NoBuddy == \A p \in Pairs : ~match[p].buddy

\* Neither invitations nor knocks, nor the endpoints that take a match to VISIT or
\* INVITE from any stage: then nobody is handled who was not, and whoever is at rest
\* stays so.
LEMMA CalmMove ==
    ASSUME TypeOK, StillTrue, OnlyOpen, [Next]_vars, NEW p \in Pairs,
           Endpoints \cap {"move", "landlordCancel", "removeSlot", "cancelShare"} = {},
           ~\E r \in Requests, u \in Users, e \in Estates : StoreInvite(r, u, e) \/ StoreKnock(r, u, e)
    PROVE  /\ match'[p].status \in Handled => match[p].status \in Handled
           /\ match[p].status \in AtRest => match'[p].status \in AtRest
<1>1. CASE Onward(p)
  BY <1>1 DEF Onward, Arrows, Handled, AtRest
<1>2. ASSUME NEW r \in Requests, NEW u \in Users, NEW e \in Estates, Elsewhere(r, u, e, p)
      PROVE  \/ match[p].status = "visit" /\ match'[p].status = "invite"
             \/ match'[p].status \in {"none", "new"}
  <2>1. ~StoreMove(r, u, e) /\ ~LandlordMovesToInvite(r, u, e) /\ ~StoreCancelShare(r, u, e)
    BY DEF StoreMove, LandlordMovesToInvite, StoreCancelShare, Serving, OnlyOpen, Open
  <2>. QED
    BY <1>2, <2>1 DEF Elsewhere
<1>3. ASSUME NEW r \in Requests, NEW e \in Estates, p \in req[r].pairs,
             StoreRemoveSlot(r, e) \/ StoreUpdateSlot(r, e)
      PROVE  match[p].status = "visit"
  <2>1. StoreUpdateSlot(r, e)
    BY <1>3 DEF StoreRemoveSlot, Serving, OnlyOpen, Open
  <2>2. Checked(req[r]) /\ req[r].op = "updateSlot"
    BY <2>1 DEF StoreUpdateSlot, Serving, StillTrue
  <2>. QED
    BY <1>3, <2>2 DEF Checked
<1>4. StageMove(p)
  BY NextMoves
<1>5. \/ Onward(p)
      \/ match[p].status = "visit" /\ match'[p].status = "invite"
      \/ match'[p].status \in {"none", "new", "finish"}
  BY <1>2, <1>3, <1>4 DEF StageMove
<1>. QED
  BY <1>1, <1>5 DEF Handled, AtRest

\* The units that a knock or an invitation reaches.
LEMMA WholeCategory ==
    ASSUME TypeOK, NoOffline, NEW e \in Estates
    PROVE  SameCategory(e) = Category[e]
BY TablesAssumption DEF SameCategory, MatchEstate, NoOffline, TypeOK, EstateStatus

\* The invitation of a prospect who knocked removes his other knocks.
LEMMA InviteSolo ==
    ASSUME TypeOK, StillTrue, Solo, NoOffline, NoBuddy, NEW r \in Requests, NEW v \in Users,
           NEW g \in Estates, StoreInvite(r, v, g)
    PROVE  Solo'
<1>. SUFFICES ASSUME NEW u \in Users, NEW e \in Estates, NEW f \in Category[e] \ {e},
                     match'[<<u, e>>].status \in Handled
              PROVE  match'[<<u, f>>].status \in AtRest
  BY DEF Solo, StatusOf
<1>p. f \in Estates /\ <<u, e>> \in Pairs /\ <<u, f>> \in Pairs /\ <<v, g>> \in Pairs
  BY TablesAssumption DEF Pairs
<1>c. SameCategory(g) = Category[g]
  BY WholeCategory
<1>n. NoRow.status = "none"
  BY DEF NoRow
<1>1. match[<<v, g>>].status = "knock" /\ req[r].flag
  <2>1. /\ Checked(req[r]) /\ req[r].op = "inviteAfter"
        /\ req[r].user = v /\ req[r].estate = g
    BY DEF StoreInvite, Serving, StillTrue
  <2>. QED
    BY <2>1, <1>p DEF Checked, At, StatusOf, NoBuddy
<1>2. ASSUME NEW q \in Pairs, q # <<v, g>>
      PROVE  /\ match'[q].status \in {match[q].status, "none"}
             /\ q[1] = v /\ q[2] \in Category[g] /\ match[q].status = "knock"
                  => match'[q].status = "none"
  <2>1. match'[q] = IF q[1] = v /\ q[2] \in SameCategory(g) \ {g} /\ match[q].status = "knock"
                    THEN NoRow ELSE match[q]
    BY <1>1, <1>2 DEF StoreInvite, Exists, StatusOf
  <2>2. q[1] = v => q[2] # g
    BY <1>2 DEF Pairs
  <2>. QED
    BY <1>c, <1>n, <2>1, <2>2
<1>s. /\ match[<<u, e>>].status \in Handled => match[<<u, f>>].status \in AtRest
      /\ match[<<u, f>>].status \in Handled => match[<<u, e>>].status \in AtRest
  <2>1. e \in Category[f] \ {f}
    BY TablesAssumption, <1>p
  <2>. QED
    BY <1>p, <2>1 DEF Solo, StatusOf
<1>3. CASE <<u, e>> = <<v, g>>
  <2>1. match[<<u, f>>].status \notin Handled
    BY <1>1, <1>3, <1>s DEF AtRest
  <2>2. match[<<u, f>>].status \in Stages \cup {"none"}
    BY <1>p, MatchRow DEF Row
  <2>. QED
    BY <1>2, <1>3, <1>p, <2>1, <2>2 DEF Handled, AtRest, Stages
<1>4. CASE <<u, e>> # <<v, g>>
  <2>1. match[<<u, e>>].status \in Handled
    BY <1>2, <1>4, <1>p DEF Handled
  <2>2. <<u, f>> # <<v, g>>
    BY <1>1, <1>s, <2>1 DEF AtRest
  <2>. QED
    BY <1>2, <1>p, <1>s, <2>1, <2>2 DEF AtRest
<1>. QED
  BY <1>3, <1>4

\* A knock resets the prospect at all units of the category.
LEMMA KnockSolo ==
    ASSUME TypeOK, Solo, NoOffline, NEW r \in Requests, NEW v \in Users,
           NEW g \in Estates, StoreKnock(r, v, g)
    PROVE  Solo'
<1>. SUFFICES ASSUME NEW u \in Users, NEW e \in Estates, NEW f \in Category[e] \ {e},
                     match'[<<u, e>>].status \in Handled
              PROVE  match'[<<u, f>>].status \in AtRest
  BY DEF Solo, StatusOf
<1>p. f \in Estates /\ <<u, e>> \in Pairs /\ <<u, f>> \in Pairs
  BY TablesAssumption DEF Pairs
<1>c. SameCategory(g) = Category[g]
  BY WholeCategory
<1>1. \A x \in Estates : match'[<<u, x>>] = IF u = v /\ x \in Category[g]
                            THEN [match[<<u, x>>] EXCEPT !.status = "knock"] ELSE match[<<u, x>>]
  BY <1>c DEF StoreKnock, Pairs
<1>2. [match[<<u, e>>] EXCEPT !.status = "knock"].status = "knock"
  BY <1>p, MatchRow, StatusUpdate DEF Stages
<1>3. ~(u = v /\ e \in Category[g])
  BY <1>1, <1>2 DEF Handled
<1>4. f \in Category[g] => e \in Category[g]
  BY TablesAssumption, <1>p
<1>5. match'[<<u, e>>] = match[<<u, e>>] /\ match'[<<u, f>>] = match[<<u, f>>]
  BY <1>1, <1>3, <1>4, <1>p
<1>. QED
  BY <1>5 DEF Solo, StatusOf

\* Handlers one after the other, a prospect who is handled at one unit of a category
\* waits at no other, as long as units are not taken offline and nobody follows a
\* buddy link, is moved between units or is taken back to INVITE or VISIT from any stage.
THEOREM OneUnitPerCategory ==
    ASSUME OneAtATime,
           Endpoints \cap {"addBuddy", "offMarket", "move", "landlordCancel", "removeSlot",
                           "cancelShare"} = {}
    PROVE  Spec => []OneStagePerCategory
<1> DEFINE Inv == Solo /\ NoOffline /\ NoBuddy
<1>1. Init => Inv
  <2>. SUFFICES ASSUME Init
                PROVE  Inv
    OBVIOUS
  <2>1. \A p \in Pairs : match[p].status = "none" /\ ~match[p].buddy
    BY DEF Init, NoRow
  <2>2. \A u \in Users, e \in Estates : StatusOf(u, e) = "none"
    BY <2>1 DEF StatusOf, Pairs
  <2>3. Solo
    BY <2>2 DEF Solo, Handled
  <2>. QED
    BY <2>1, <2>3 DEF Init, NoOffline, NoBuddy
<1>2. TypeOK /\ StillTrue /\ OnlyOpen /\ Inv /\ [Next]_vars => Inv'
  <2>. SUFFICES ASSUME TypeOK, StillTrue, OnlyOpen, Inv, [Next]_vars
                PROVE  Inv'
    OBVIOUS
  <2>1. NoOffline'
    <3>. SUFFICES ASSUME NEW e \in Estates
                  PROVE  status'[e] # "offline"
      BY DEF NoOffline
    <3>1. EstateStep(e) /\ ~Served("offMarket") /\ status[e] # "offline"
      BY EstateKept DEF Served, NoOffline
    <3>. QED
      BY <3>1 DEF EstateStep
  <2>2. NoBuddy'
    <3>1. ASSUME NEW r \in Requests, NEW u, NEW e, CreateBuddyMatch(r, u, e)
          PROVE  FALSE
      BY <3>1 DEF CreateBuddyMatch, Serving, OnlyOpen, Open
    <3>. QED
      BY <3>1, BuddyKept DEF NoBuddy
  <2>3. Solo'
    <3>1. CASE \E r \in Requests, u \in Users, e \in Estates : StoreInvite(r, u, e)
      BY <3>1, InviteSolo
    <3>2. CASE \E r \in Requests, u \in Users, e \in Estates : StoreKnock(r, u, e)
      BY <3>2, KnockSolo
    <3>3. CASE ~\E r \in Requests, u \in Users, e \in Estates :
                  StoreInvite(r, u, e) \/ StoreKnock(r, u, e)
      <4>1. \A p \in Pairs :
               /\ match'[p].status \in Handled => match[p].status \in Handled
               /\ match[p].status \in AtRest => match'[p].status \in AtRest
        BY <3>3, CalmMove
      <4>. SUFFICES ASSUME NEW u \in Users, NEW e \in Estates, NEW f \in Category[e] \ {e},
                           match'[<<u, e>>].status \in Handled
                    PROVE  match'[<<u, f>>].status \in AtRest
        BY DEF Solo, StatusOf
      <4>2. f \in Estates /\ <<u, e>> \in Pairs /\ <<u, f>> \in Pairs
        BY TablesAssumption DEF Pairs
      <4>3. match[<<u, e>>].status \in Handled => match[<<u, f>>].status \in AtRest
        BY DEF Solo, StatusOf
      <4>. QED
        BY <4>1, <4>2, <4>3
    <3>. QED
      BY <3>1, <3>2, <3>3
  <2>. QED
    BY <2>1, <2>2, <2>3
<1>3. Inv => OneStagePerCategory
  <2>. SUFFICES ASSUME Solo, NEW u \in Users, NEW e \in Estates, NEW f \in Category[e] \ {e},
                       StatusOf(u, e) \in Handled
                PROVE  StatusOf(u, f) # "knock"
    BY DEF OneStagePerCategory, Handled
  <2>. QED
    BY DEF Solo, AtRest
<1>. QED
  BY <1>1, <1>2, <1>3, TypeCorrect, ChecksStayTrue, SpecOpen, PTL DEF Spec

-----------------------------------------------------------------------------
(* Current tenants.                                                        *)

\* The row i keeps its tenant, whatever becomes of his invitation link.
Steady(i) ==
    /\ seat'[i].live <=> seat[i].live
    /\ seat'[i].user = seat[i].user /\ seat'[i].estate = seat[i].estate

\* Rows change by the four handlers that make, connect, disconnect or end a tenant,
\* or an estate without a live row gets one that nobody is connected to.
SeatStep ==
    \/ \A i \in Rows : Steady(i)
    \/ \E i \in Rows, e \in Estates :
          /\ ~seat[i].live /\ LiveSeats(e) = {}
          /\ seat'[i].user = None /\ seat'[i].estate = e
          /\ \A j \in Rows \ {i} : Steady(j)
    \/ \E r \in Requests, u \in Users, e \in Estates, i \in Rows : HandleFinalMatch(r, u, e, i)
    \/ \E r \in Requests, u \in Users, e \in Estates : StoreAccept(r, u, e)
    \/ \E r \in Requests, u \in Users \cup {None}, e \in Estates : StoreDisconnect(r, u, e)
    \/ \E r \in Requests, e \in Estates : StoreExpire(r, e) \/ StoreDelete(r, e)

LEMMA SeatKept ==
    ASSUME TypeOK, [Next]_vars
    PROVE  SeatStep
<1>1. CASE UNCHANGED seat
  BY <1>1 DEF SeatStep, Steady
<1>2. CASE FlowNext
  <2>1. ASSUME NEW u, NEW f, TransactionalStep(u, f)
        PROVE  UNCHANGED seat
    BY <2>1 DEF TransactionalStep, AddLike, RemoveLike, AddDislike, RemoveDislike, ToTop,
                RespondToSharing, finalVars
  <2>2. ASSUME NEW r, NEW u, NEW f, CheckStep(r, u, f)
        PROVE  UNCHANGED seat
    BY <2>2 DEF CheckStep, AddBuddy, KnockEstate, CancelKnock, MoveToNewEstate, Invite,
         FindInvited, CancelInvite, BookTimeslot, CancelVisit, CancelVisitByLandlord, Share,
         CancelShare, RemoveFromTop, CancelTop, CancelAction, Begin, tables, finalVars
  <2>3. ASSUME NEW r, NEW u, NEW f, StoreStep(r, u, f)
        PROVE  UNCHANGED seat
    BY <2>3 DEF StoreStep, CreateBuddyMatch, StoreKnock, StoreCancelKnock, StoreMove,
         StoreInvite, StoreCancelInvite, StoreVisit, StoreCancelVisit, LandlordDeletesVisit,
         LandlordMovesToInvite, StoreShare, StoreCancelShare, StoreRemoveFromTop,
         CancelTopMatch, CancelTopVisit, CancelTopDislike, StoreCancelAction, finalVars
  <2>4. ASSUME NEW r, MatchingStep(r)
        PROVE  UNCHANGED seat
    BY <2>4 DEF MatchingStep, SearchEstates, FindOldMatches, CreateNewMatches, ScoreTenants,
         DeleteNewMatches, InsertNewMatches, Begin, tables, finalVars
  <2>5. ASSUME NEW f, CalendarStep(f)
        PROVE  UNCHANGED seat
    BY <2>5 DEF CalendarStep, CreateSlot, RemoveSlot, UpdateSlot, Begin, tables, finalVars
  <2>6. ASSUME NEW r, NEW f, StoreRemoveSlot(r, f) \/ StoreUpdateSlot(r, f)
        PROVE  UNCHANGED seat
    BY <2>6 DEF StoreRemoveSlot, StoreUpdateSlot, finalVars
  <2>. QED
    BY <1>1, <1>2, <2>1, <2>2, <2>3, <2>4, <2>5, <2>6 DEF FlowNext
<1>3. CASE FinalNext
  <2>1. ASSUME NEW u, NEW e, TenantCancelCommit(u, e)
        PROVE  UNCHANGED seat
    BY <2>1 DEF TenantCancelCommit, CancelCommit
  <2>2. ASSUME NEW r \in Requests, NEW u \in Users, NEW e \in Estates, FinalStep(r, u, e)
        PROVE  UNCHANGED seat \/ \E i \in Rows : HandleFinalMatch(r, u, e, i)
    BY <2>2 DEF FinalStep, RequestUserCommit, RequestFinalConfirm, FindExpiredCommit,
         MoveExpiredFinalConfirmToTop, CancelCommit, FinalConfirm, Begin, tables, finalVars
  <2>. QED
    BY <1>1, <1>3, <2>1, <2>2 DEF FinalNext, SeatStep
<1>4. CASE TenantNext
  <2>1. ASSUME NEW e \in Estates, NEW i \in Rows, LiveSeats(e) = {}, Insert(i, e)
        PROVE  SeatStep
    <3>1. /\ [NoSeat EXCEPT !.estate = e, !.live = TRUE].user = None
          /\ [NoSeat EXCEPT !.estate = e, !.live = TRUE].estate = e
      BY DEF NoSeat
    <3>2. seat'[i].user = None /\ seat'[i].estate = e /\ ~seat[i].live
      BY <2>1, <3>1 DEF Insert, Unused, TypeOK
    <3>3. \A j \in Rows \ {i} : Steady(j)
      BY <2>1 DEF Insert, TypeOK, Steady
    <3>. QED
      BY <2>1, <3>2, <3>3 DEF SeatStep
  <2>2. ASSUME NEW e \in Estates, NEW i \in Rows, AddCurrentTenant(e, i)
        PROVE  SeatStep
    BY <2>1, <2>2 DEF AddCurrentTenant
  <2>3. ASSUME NEW r \in Requests, NEW e \in Estates, NEW i \in Rows, LandlordStep(r, e, i)
        PROVE  SeatStep
    BY <1>1, <2>1, <2>3 DEF LandlordStep, StoreSingleInvitation, InviteTenantToApp,
         RevokeInvitation, Disconnect, Expire, HandleDelete, Begin, tables, finalVars
  <2>4. ASSUME NEW r \in Requests, NEW e \in Estates,
               CreateDynamicLink(r, e) \/ StoreRevokeInvitation(r, e)
        PROVE  SeatStep
    <3>k. PICK k : seat' = [seat EXCEPT ![k].code = TRUE] \/ seat' = [seat EXCEPT ![k].code = FALSE]
      BY <2>4 DEF CreateDynamicLink, StoreRevokeInvitation
    <3>1. PICK code \in BOOLEAN : seat' = [seat EXCEPT ![k].code = code]
      BY <3>k
    <3>2. ASSUME NEW i \in Rows
          PROVE  Steady(i)
      <4>1. PICK row \in Seat : row = seat[i]
        BY DEF TypeOK
      <4>2. seat'[i] \in {row, [row EXCEPT !.code = code]}
        BY <3>1, <4>1 DEF TypeOK
      <4>3. LET new == [row EXCEPT !.code = code]
            IN  (new.live <=> row.live) /\ new.user = row.user /\ new.estate = row.estate
        BY DEF Seat
      <4>. QED
        BY <4>1, <4>2, <4>3 DEF Steady
    <3>. QED
      BY <3>2 DEF SeatStep
  <2>5. ASSUME NEW r \in Requests, NEW e \in Estates, InvitationStep(r, e)
        PROVE  SeatStep
    <3>1. CASE SingleInvitation(r, e) \/ FindInvitee(r, e)
      BY <1>1, <3>1 DEF SingleInvitation, FindInvitee, Begin, tables, finalVars
    <3>2. CASE StoreExpire(r, e) \/ StoreDelete(r, e)
      BY <3>2 DEF SeatStep
    <3>3. CASE \E u \in Users : StoreAccept(r, u, e)
      BY <3>3 DEF SeatStep
    <3>4. CASE \E u \in Users \cup {None} : StoreDisconnect(r, u, e)
      BY <3>4 DEF SeatStep
    <3>. QED
      BY <2>4, <2>5, <3>1, <3>2, <3>3, <3>4 DEF InvitationStep
  <2>6. ASSUME NEW r, NEW u, NEW e, NEW i, NEW j, AcceptOutsideTenant(r, u, e, i, j)
        PROVE  UNCHANGED seat
    BY <2>6 DEF AcceptOutsideTenant, Begin, tables, finalVars
  <2>. QED
    BY <1>1, <1>4, <2>2, <2>3, <2>5, <2>6 DEF TenantNext
<1>5. CASE MarketNext
  <2>1. UNCHANGED seat
    BY <1>5 DEF MarketNext, Extend, OffMarketPublish, Deactivate, Publish, StorePublish,
       Unpublish, StoreUnpublish, Begin, tables, finalVars
  <2>. QED
    BY <1>1, <2>1
<1>. QED
  BY <1>1, <1>2, <1>3, <1>4, <1>5 DEF Next, vars, tables, finalVars

\* Where a tenant lives the estate is let and his match is final, every final match
\* lives somewhere, and what is let is off the market.
OneSeat ==
    \A i, j \in Rows : seat[i].live /\ seat[j].live /\ seat[i].estate = seat[j].estate => i = j
SeatedInLet ==
    \A i \in Rows : seat[i].live /\ seat[i].user # None =>
        seat[i].estate \in let /\ StatusOf(seat[i].user, seat[i].estate) = "finish"
FinishIsSeated ==
    \A u \in Users, e \in Estates : StatusOf(u, e) = "finish" =>
        \E i \in Rows : seat[i].live /\ seat[i].estate = e /\ seat[i].user = u
LetIsDraft == \A e \in let : status[e] = "draft"
TenancyInv == OneSeat /\ SeatedInLet /\ FinishIsSeated /\ LetIsDraft

\* Handlers one after the other, single estates, and none of the endpoints that leave a
\* final match for another stage, a tenant without ending his match, or let estates
\* offline.
LastingTenancies ==
    /\ OneAtATime
    /\ \A e \in Estates : Category[e] = {e}
    /\ Endpoints \cap {"offMarket", "cancelAction", "cancelShare", "landlordCancel",
                       "removeSlot", "expireTenant", "deleteTenant"} = {}

\* Final matches are off the market.
LEMMA FinishIsLet ==
    ASSUME TenancyInv, NEW u \in Users, NEW e \in Estates, StatusOf(u, e) = "finish"
    PROVE  e \in let /\ status[e] = "draft"
<1>1. PICK i \in Rows : seat[i].live /\ seat[i].estate = e /\ seat[i].user = u
  BY DEF TenancyInv, FinishIsSeated
<1>2. u # None
  BY TablesAssumption
<1>3. seat[i].estate \in let
  BY <1>1, <1>2 DEF TenancyInv, SeatedInLet
<1>. QED
  BY <1>1, <1>3 DEF TenancyInv, LetIsDraft

\* Nobody else makes a match final, or takes it from FINISH: knocks and publications
\* find an estate that is not let.
LEMMA FinishKept ==
    ASSUME LastingTenancies, TypeOK, StillTrue, OnlyOpen, TenancyInv, [Next]_vars, NEW p \in Pairs,
           ~\E r \in Requests, u \in Users, e \in Estates :
               \/ StoreAccept(r, u, e) \/ StoreDisconnect(r, u, e)
               \/ \E i \in Rows : HandleFinalMatch(r, u, e, i)
    PROVE  match'[p].status = "finish" <=> match[p].status = "finish"
<1>p. p[1] \in Users /\ p[2] \in Estates /\ p = <<p[1], p[2]>>
  BY DEF Pairs
<1>f. match[p].status = "finish" => p[2] \in let /\ status[p[2]] = "draft"
  <2>1. StatusOf(p[1], p[2]) = match[p].status
    BY <1>p DEF StatusOf
  <2>. QED
    BY <1>p, <2>1, FinishIsLet
<1>1. CASE Onward(p)
  BY <1>1 DEF Onward, Arrows
<1>2. ASSUME NEW r \in Requests, NEW u \in Users, NEW e \in Estates, Elsewhere(r, u, e, p)
      PROVE  match'[p].status # "finish" /\ match[p].status # "finish"
  <2>1. /\ ~LandlordMovesToInvite(r, u, e) /\ ~StoreCancelShare(r, u, e)
        /\ ~StoreCancelAction(r, u, e)
    BY DEF LastingTenancies, LandlordMovesToInvite, StoreCancelShare, StoreCancelAction,
           Serving, OnlyOpen, Open
  <2>2. CASE CancelTopMatch(r, u, e) /\ p = <<u, e>> /\ match'[p].status = "none"
    <3>1. match[p].status = "top" \/ match'[p] = match[p]
      BY <2>2 DEF CancelTopMatch, StatusOf
    <3>. QED
      BY <2>2, <3>1
  <2>3. CASE StoreKnock(r, u, e) /\ p[1] = u /\ p[2] \in SameCategory(e)
             /\ match'[p].status = "knock"
    <3>1. p[2] = e
      BY <2>3 DEF SameCategory, LastingTenancies
    <3>2. Checked(req[r]) /\ req[r].op = "knock" /\ req[r].estate = e
      BY <2>3 DEF StoreKnock, Serving, StillTrue
    <3>3. status[e] # "draft"
      BY <3>2 DEF Checked, ActiveById
    <3>. QED
      BY <1>f, <2>3, <3>1, <3>3
  <2>4. CASE \/ match[p].status \in {"knock", "new"} /\ match'[p].status \in {"invite", "top"}
             \/ match[p].status = "visit" /\ match'[p].status = "invite"
             \/ match'[p].status \in {"none", "knock"} /\ match[p].status # "finish"
    BY <2>4
  <2>. QED
    BY <1>2, <2>1, <2>2, <2>3, <2>4 DEF Elsewhere
<1>3. ASSUME NEW r \in Requests, NEW e \in Estates, p \in req[r].pairs,
             StoreRemoveSlot(r, e) \/ StoreUpdateSlot(r, e)
      PROVE  match[p].status = "visit"
  <2>1. StoreUpdateSlot(r, e)
    BY <1>3 DEF LastingTenancies, StoreRemoveSlot, Serving, OnlyOpen, Open
  <2>2. Checked(req[r]) /\ req[r].op = "updateSlot"
    BY <2>1 DEF StoreUpdateSlot, Serving, StillTrue
  <2>. QED
    BY <1>3, <2>2 DEF Checked
<1>4. ASSUME NEW r \in Requests, NEW e \in Estates, StorePublish(r, e), p[2] = e
      PROVE  match[p].status # "finish"
  <2>1. e \notin let
    BY <1>4, KnownStage DEF StorePublish
  <2>. QED
    BY <1>f, <1>4, <2>1
<1>5. StageMove(p)
  BY NextMoves
<1>6. \/ Onward(p)
      \/ match'[p].status # "finish" /\ match[p].status # "finish"
  BY <1>2, <1>3, <1>4, <1>5 DEF StageMove
<1>. QED
  BY <1>1, <1>6

\* The final match makes the tenant, in an estate that had none.
LEMMA FinalTenancy ==
    ASSUME TypeOK, StillTrue, TenancyInv, NEW r \in Requests, NEW u \in Users, NEW e \in Estates,
           NEW i \in Rows, HandleFinalMatch(r, u, e, i)
    PROVE  TenancyInv'
<1>1. StatusOf(u, e) = "commit" /\ e \notin let
  BY KnownStage DEF HandleFinalMatch, Rentable
<1>2. ~seat[i].live
  BY DEF HandleFinalMatch, Unused
<1>3. \A v \in Users, f \in Estates :
         StatusOf(v, f)' = IF v = u /\ f = e THEN "finish" ELSE StatusOf(v, f)
  <2>1. match' = WithStatus(u, e, "finish")
    BY <1>1 DEF HandleFinalMatch
  <2>. SUFFICES ASSUME NEW v \in Users, NEW f \in Estates
                PROVE  match'[<<v, f>>].status = IF v = u /\ f = e THEN "finish"
                                                 ELSE match[<<v, f>>].status
    BY DEF StatusOf
  <2>2. <<v, f>> \in Pairs
    BY DEF Pairs
  <2>. QED
    BY <1>1, <2>1, <2>2, UpdatedStatus DEF Stages, StatusOf
<1>4. \A v \in Users : StatusOf(v, e) # "finish"
  BY <1>1, FinishIsLet
<1>5. /\ seat'[i].live /\ seat'[i].user = u /\ seat'[i].estate = e
      /\ \A j \in Rows \ {i} : /\ seat'[j].live => seat[j].live /\ seat[j].estate # e
                               /\ seat[j].estate # e => seat'[j] = seat[j]
  <2>1. seat'[i] = SeatOf(u, e)
    BY DEF HandleFinalMatch
  <2>2. \A j \in Rows \ {i} : seat'[j] = IF seat[j].estate = e THEN [seat[j] EXCEPT !.live = FALSE]
                                         ELSE seat[j]
    BY DEF HandleFinalMatch
  <2>3. seat'[i].live /\ seat'[i].user = u /\ seat'[i].estate = e
    BY <2>1 DEF SeatOf
  <2>4. ASSUME NEW j \in Rows \ {i}
        PROVE  /\ seat'[j].live => seat[j].live /\ seat[j].estate # e
               /\ seat[j].estate # e => seat'[j] = seat[j]
    <3>1. PICK s \in Seat : s = seat[j]
      BY DEF TypeOK
    <3>2. ~[s EXCEPT !.live = FALSE].live
      BY DEF Seat
    <3>3. seat'[j] = IF s.estate = e THEN [s EXCEPT !.live = FALSE] ELSE s
      BY <2>2, <3>1
    <3>. QED
      BY <3>1, <3>2, <3>3
  <2>. QED
    BY <2>3, <2>4
<1>6. let' = let \cup {e} /\ \A f \in Estates : status'[f] = IF f = e THEN "draft" ELSE status[f]
  BY DEF HandleFinalMatch, Rented, TypeOK
<1>7. OneSeat'
  BY <1>5 DEF TenancyInv, OneSeat
<1>8. SeatedInLet'
  <2>. SUFFICES ASSUME NEW j \in Rows, seat'[j].live, seat'[j].user # None
                PROVE  seat'[j].estate \in let' /\ StatusOf(seat[j].user, seat[j].estate)' = "finish"
    BY DEF SeatedInLet, StatusOf
  <2>1. CASE j = i
    BY <1>3, <1>5, <1>6, <2>1 DEF StatusOf
  <2>2. CASE j # i
    <3>1. seat'[j] = seat[j] /\ seat[j].live
      BY <1>5, <2>2
    <3>2. seat[j].estate \in let /\ StatusOf(seat[j].user, seat[j].estate) = "finish"
      BY <3>1 DEF TenancyInv, SeatedInLet
    <3>3. PICK v \in Users, f \in Estates : v = seat[j].user /\ f = seat[j].estate
      BY <3>1, <3>2 DEF TypeOK, Seat
    <3>4. StatusOf(v, f)' = "finish"
      BY <1>3, <3>2, <3>3
    <3>. QED
      BY <1>6, <3>1, <3>2, <3>3, <3>4 DEF StatusOf
  <2>. QED
    BY <2>1, <2>2
<1>9. FinishIsSeated'
  <2>. SUFFICES ASSUME NEW v \in Users, NEW f \in Estates, StatusOf(v, f)' = "finish"
                PROVE  \E j \in Rows : seat'[j].live /\ seat'[j].estate = f /\ seat'[j].user = v
    BY DEF FinishIsSeated, StatusOf
  <2>1. CASE v = u /\ f = e
    BY <1>5, <2>1
  <2>2. CASE ~(v = u /\ f = e)
    <3>1. StatusOf(v, f) = "finish" /\ f # e
      BY <1>3, <1>4, <2>2
    <3>2. PICK j \in Rows : seat[j].live /\ seat[j].estate = f /\ seat[j].user = v
      BY <3>1 DEF TenancyInv, FinishIsSeated
    <3>3. j # i
      BY <1>2, <3>2
    <3>. QED
      BY <1>5, <3>1, <3>2, <3>3
  <2>. QED
    BY <2>1, <2>2
<1>10. LetIsDraft'
  BY <1>6 DEF TenancyInv, LetIsDraft, TypeOK
<1>. QED
  BY <1>7, <1>8, <1>9, <1>10 DEF TenancyInv

\* What connecting and disconnecting leave of a row.
LEMMA SeatUser ==
    ASSUME NEW s \in Seat, NEW u
    PROVE  LET t == [s EXCEPT !.user = u, !.code = FALSE]
           IN  (t.live <=> s.live) /\ t.user = u /\ t.estate = s.estate
BY DEF Seat

\* Accepting the invitation link makes the tenant, in an estate that had none.
LEMMA AcceptedTenancy ==
    ASSUME TypeOK, StillTrue, TenancyInv, NEW r \in Requests, NEW u \in Users, NEW e \in Estates,
           StoreAccept(r, u, e)
    PROVE  TenancyInv'
<1>1. PICK i \in Rows : i = req[r].row /\ seat[i].live /\ seat[i].estate = e /\ seat[i].user = None
  BY KnownStage DEF StoreAccept, LiveSeats
<1>2. StatusOf(u, e) = req[r].stage
  BY KnownStage DEF StoreAccept
<1>3. /\ match' = [match EXCEPT ![<<u, e>>].status = "finish"]
      /\ Rented(e)
      /\ seat' = [seat EXCEPT ![i].user = u, ![i].code = FALSE]
  BY <1>1, <1>2 DEF StoreAccept, Exists
<1>4. \A v \in Users, f \in Estates :
         StatusOf(v, f)' = IF v = u /\ f = e THEN "finish" ELSE StatusOf(v, f)
  <2>. SUFFICES ASSUME NEW v \in Users, NEW f \in Estates
                PROVE  match'[<<v, f>>].status = IF v = u /\ f = e THEN "finish"
                                                 ELSE match[<<v, f>>].status
    BY DEF StatusOf
  <2>2. <<v, f>> \in Pairs
    BY DEF Pairs
  <2>3. [match[<<v, f>>] EXCEPT !.status = "finish"].status = "finish"
    BY <2>2, MatchRow, StatusUpdate DEF Stages
  <2>. QED
    BY <1>3, <2>2, <2>3 DEF TypeOK
<1>5. \A v \in Users : StatusOf(v, e) # "finish"
  BY <1>1, TablesAssumption DEF TenancyInv, FinishIsSeated, OneSeat
<1>6. /\ seat'[i].live /\ seat'[i].user = u /\ seat'[i].estate = e
      /\ \A j \in Rows \ {i} : seat'[j] = seat[j]
  <2>1. PICK s \in Seat : s = seat[i]
    BY DEF TypeOK
  <2>2. seat'[i] = [s EXCEPT !.user = u, !.code = FALSE]
    BY <1>3, <2>1 DEF TypeOK
  <2>3. seat'[i].live /\ seat'[i].user = u /\ seat'[i].estate = e
    BY <1>1, <2>1, <2>2, SeatUser
  <2>. QED
    BY <1>3, <2>3 DEF TypeOK
<1>7. let' = let \cup {e} /\ \A f \in Estates : status'[f] = IF f = e THEN "draft" ELSE status[f]
  BY <1>3 DEF Rented, TypeOK
<1>8. OneSeat'
  BY <1>1, <1>6 DEF TenancyInv, OneSeat
<1>9. SeatedInLet'
  <2>. SUFFICES ASSUME NEW j \in Rows, seat'[j].live, seat'[j].user # None
                PROVE  seat'[j].estate \in let' /\ StatusOf(seat[j].user, seat[j].estate)' = "finish"
    BY DEF SeatedInLet, StatusOf
  <2>1. CASE j = i
    BY <1>4, <1>6, <1>7, <2>1 DEF StatusOf
  <2>2. CASE j # i
    <3>1. seat'[j] = seat[j] /\ seat[j].live
      BY <1>6, <2>2
    <3>2. seat[j].estate \in let /\ StatusOf(seat[j].user, seat[j].estate) = "finish"
      BY <3>1 DEF TenancyInv, SeatedInLet
    <3>3. PICK v \in Users, f \in Estates : v = seat[j].user /\ f = seat[j].estate
      BY <3>1, <3>2 DEF TypeOK, Seat
    <3>4. StatusOf(v, f)' = "finish"
      BY <1>4, <3>2, <3>3
    <3>. QED
      BY <1>7, <3>1, <3>2, <3>3, <3>4 DEF StatusOf
  <2>. QED
    BY <2>1, <2>2
<1>10. FinishIsSeated'
  <2>. SUFFICES ASSUME NEW v \in Users, NEW f \in Estates, StatusOf(v, f)' = "finish"
                PROVE  \E j \in Rows : seat'[j].live /\ seat'[j].estate = f /\ seat'[j].user = v
    BY DEF FinishIsSeated, StatusOf
  <2>1. CASE v = u /\ f = e
    BY <1>6, <2>1
  <2>2. CASE ~(v = u /\ f = e)
    <3>1. StatusOf(v, f) = "finish" /\ f # e
      BY <1>4, <1>5, <2>2
    <3>2. PICK j \in Rows : seat[j].live /\ seat[j].estate = f /\ seat[j].user = v
      BY <3>1 DEF TenancyInv, FinishIsSeated
    <3>3. j # i
      BY <1>1, <3>1, <3>2
    <3>. QED
      BY <1>6, <3>2, <3>3
  <2>. QED
    BY <2>1, <2>2
<1>11. LetIsDraft'
  BY <1>7 DEF TenancyInv, LetIsDraft, TypeOK
<1>. QED
  BY <1>8, <1>9, <1>10, <1>11 DEF TenancyInv

\* Disconnecting the tenant ends his match with his tenancy.
LEMMA DisconnectedTenancy ==
    ASSUME TypeOK, StillTrue, TenancyInv, NEW r \in Requests, NEW u \in Users \cup {None},
           NEW e \in Estates, StoreDisconnect(r, u, e)
    PROVE  TenancyInv'
<1>0. req[r].row \in LiveSeats(e) /\ seat[req[r].row].user = u
  <2>1. Serving(r, "disconnect", u, e)
    BY DEF StoreDisconnect
  <2>. QED
    BY <2>1, KnownStage
<1>1. PICK i \in Rows : i = req[r].row /\ seat[i].live /\ seat[i].estate = e /\ seat[i].user = u
  BY <1>0 DEF LiveSeats
<1>2. seat' = [seat EXCEPT ![i].user = None, ![i].code = FALSE] /\ UNCHANGED <<status, let>>
  BY <1>1 DEF StoreDisconnect, estateVars
<1>3. \A v \in Users, f \in Estates :
         StatusOf(v, f)' = "finish" <=> StatusOf(v, f) = "finish" /\ ~(v = u /\ f = e)
  <2>. SUFFICES ASSUME NEW v \in Users, NEW f \in Estates
                PROVE  match'[<<v, f>>].status = "finish"
                           <=> match[<<v, f>>].status = "finish" /\ ~(v = u /\ f = e)
    BY DEF StatusOf
  <2>2. <<v, f>> \in Pairs
    BY DEF Pairs
  <2>3. [match[<<v, f>>] EXCEPT !.status = "new"].status = "new"
    BY <2>2, MatchRow, StatusUpdate DEF Stages
  <2>4. match'[<<v, f>>] = IF v = u /\ f = e /\ match[<<v, f>>].status = "finish"
                           THEN [match[<<v, f>>] EXCEPT !.status = "new"] ELSE match[<<v, f>>]
    BY <2>2 DEF StoreDisconnect
  <2>. QED
    BY <2>3, <2>4
<1>6. /\ seat'[i].live /\ seat'[i].user = None /\ seat'[i].estate = e
      /\ \A j \in Rows \ {i} : seat'[j] = seat[j]
  <2>1. PICK s \in Seat : s = seat[i]
    BY DEF TypeOK
  <2>2. seat'[i] = [s EXCEPT !.user = None, !.code = FALSE]
    BY <1>2, <2>1 DEF TypeOK
  <2>3. seat'[i].live /\ seat'[i].user = None /\ seat'[i].estate = e
    BY <1>1, <2>1, <2>2, SeatUser
  <2>. QED
    BY <1>2, <2>3 DEF TypeOK
<1>8. OneSeat'
  BY <1>1, <1>6 DEF TenancyInv, OneSeat
<1>9. SeatedInLet'
  <2>. SUFFICES ASSUME NEW j \in Rows, seat'[j].live, seat'[j].user # None
                PROVE  seat'[j].estate \in let' /\ StatusOf(seat[j].user, seat[j].estate)' = "finish"
    BY DEF SeatedInLet, StatusOf
  <2>2. j # i
    BY <1>6
  <2>3. seat'[j] = seat[j] /\ seat[j].live
    BY <1>6, <2>2
  <2>4. seat[j].estate \in let /\ StatusOf(seat[j].user, seat[j].estate) = "finish"
    BY <2>3 DEF TenancyInv, SeatedInLet
  <2>5. PICK v \in Users, f \in Estates : v = seat[j].user /\ f = seat[j].estate
    BY <2>3, <2>4 DEF TypeOK, Seat
  <2>6. f # e
    BY <1>1, <2>2, <2>3, <2>5 DEF TenancyInv, OneSeat
  <2>7. StatusOf(v, f)' = "finish"
    BY <1>3, <2>4, <2>5, <2>6
  <2>8. seat'[j].user = v /\ seat'[j].estate = f /\ f \in let'
    BY <1>2, <2>3, <2>4, <2>5
  <2>. QED
    BY <2>7, <2>8 DEF StatusOf
<1>10. FinishIsSeated'
  <2>. SUFFICES ASSUME NEW v \in Users, NEW f \in Estates, StatusOf(v, f)' = "finish"
                PROVE  \E j \in Rows : seat'[j].live /\ seat'[j].estate = f /\ seat'[j].user = v
    BY DEF FinishIsSeated, StatusOf
  <2>1. StatusOf(v, f) = "finish" /\ ~(v = u /\ f = e)
    BY <1>3
  <2>2. PICK j \in Rows : seat[j].live /\ seat[j].estate = f /\ seat[j].user = v
    BY <2>1 DEF TenancyInv, FinishIsSeated
  <2>3. j # i
    BY <1>1, <2>1, <2>2
  <2>. QED
    BY <1>6, <2>2, <2>3
<1>11. LetIsDraft'
  BY <1>2 DEF TenancyInv, LetIsDraft
<1>. QED
  BY <1>8, <1>9, <1>10, <1>11 DEF TenancyInv

\* Nothing else makes or unmakes a tenancy: a new row has no tenant, and what is let
\* stays let and off the market.
LEMMA OtherTenancy ==
    ASSUME LastingTenancies, TypeOK, TypeOK', StillTrue, OnlyOpen, TenancyInv, [Next]_vars,
           ~\E r \in Requests, u \in Users, e \in Estates :
               \/ StoreAccept(r, u, e) \/ StoreDisconnect(r, u, e)
               \/ \E i \in Rows : HandleFinalMatch(r, u, e, i),
           ~\E r \in Requests, e \in Estates : StoreDisconnect(r, None, e)
    PROVE  TenancyInv'
<1>1. \A u \in Users, e \in Estates : StatusOf(u, e)' = "finish" <=> StatusOf(u, e) = "finish"
  <2>. SUFFICES ASSUME NEW u \in Users, NEW e \in Estates
                PROVE  match'[<<u, e>>].status = "finish" <=> match[<<u, e>>].status = "finish"
    BY DEF StatusOf
  <2>1. <<u, e>> \in Pairs
    BY DEF Pairs
  <2>. QED
    BY <2>1, FinishKept
<1>2. ASSUME NEW r \in Requests, NEW e \in Estates, StoreExpire(r, e) \/ StoreDelete(r, e)
      PROVE  FALSE
  BY <1>2 DEF StoreExpire, StoreDelete, Serving, LastingTenancies, OnlyOpen, Open
<1>3. \A e \in Estates : /\ e \in let => e \in let'
                         /\ e \in let' => status'[e] = "draft"
  <2>. SUFFICES ASSUME NEW e \in Estates
                PROVE  /\ e \in let => e \in let'
                       /\ e \in let' => status'[e] = "draft"
    OBVIOUS
  <2>1. EstateStep(e)
    BY EstateKept
  <2>2. ~Served("offMarket")
    BY DEF Served, LastingTenancies, OnlyOpen, Open
  <2>3. e \in let => status[e] = "draft"
    BY DEF TenancyInv, LetIsDraft
  <2>. QED
    BY <1>2, <2>1, <2>2, <2>3 DEF EstateStep
<1>4. \/ \A i \in Rows : Steady(i)
      \/ \E i \in Rows, e \in Estates :
            /\ ~seat[i].live /\ LiveSeats(e) = {}
            /\ seat'[i].user = None /\ seat'[i].estate = e
            /\ \A j \in Rows \ {i} : Steady(j)
  BY <1>2, SeatKept DEF SeatStep
<1>5. ASSUME NEW i \in Rows
      PROVE  \/ Steady(i)
             \/ /\ ~seat[i].live /\ seat'[i].user = None
                /\ \A j \in Rows \ {i} : /\ Steady(j)
                                         /\ seat[j].live => seat[j].estate # seat'[i].estate
  BY <1>4 DEF LiveSeats
<1>6. OneSeat'
  <2>. SUFFICES ASSUME NEW i \in Rows, NEW j \in Rows, i # j,
                       seat'[i].live, seat'[j].live, seat'[i].estate = seat'[j].estate
                PROVE  FALSE
    BY DEF OneSeat
  <2>1. ~(Steady(i) /\ Steady(j))
    BY DEF TenancyInv, OneSeat, Steady
  <2>. QED
    BY <1>5, <2>1 DEF Steady
<1>7. SeatedInLet'
  <2>. SUFFICES ASSUME NEW i \in Rows, seat'[i].live, seat'[i].user # None
                PROVE  seat'[i].estate \in let' /\ StatusOf(seat[i].user, seat[i].estate)' = "finish"
    BY DEF SeatedInLet, StatusOf
  <2>1. seat[i].live /\ seat'[i].user = seat[i].user /\ seat'[i].estate = seat[i].estate
    BY <1>5 DEF Steady
  <2>2. seat[i].estate \in let /\ StatusOf(seat[i].user, seat[i].estate) = "finish"
    BY <2>1 DEF TenancyInv, SeatedInLet
  <2>3. PICK v \in Users, f \in Estates : v = seat[i].user /\ f = seat[i].estate
    BY <2>1, <2>2 DEF TypeOK, Seat
  <2>4. StatusOf(v, f)' = "finish" /\ f \in let'
    BY <1>1, <1>3, <2>2, <2>3
  <2>. QED
    BY <2>1, <2>3, <2>4 DEF StatusOf
<1>8. FinishIsSeated'
  <2>. SUFFICES ASSUME NEW u \in Users, NEW e \in Estates, StatusOf(u, e)' = "finish"
                PROVE  \E i \in Rows : seat'[i].live /\ seat'[i].estate = e /\ seat'[i].user = u
    BY DEF FinishIsSeated, StatusOf
  <2>1. StatusOf(u, e) = "finish"
    BY <1>1
  <2>2. PICK i \in Rows : seat[i].live /\ seat[i].estate = e /\ seat[i].user = u
    BY <2>1 DEF TenancyInv, FinishIsSeated
  <2>. QED
    BY <1>5, <2>2 DEF Steady
<1>9. LetIsDraft'
  <2>1. let' \subseteq Estates
    BY DEF TypeOK
  <2>. QED
    BY <1>3, <2>1 DEF LetIsDraft
<1>. QED
  BY <1>6, <1>7, <1>8, <1>9 DEF TenancyInv

\* The tenancies of one handler after the other.
THEOREM TenanciesLast ==
    ASSUME LastingTenancies
    PROVE  Spec => []TenancyInv
<1>1. Init => TenancyInv
  <2>. SUFFICES ASSUME Init
                PROVE  TenancyInv
    OBVIOUS
  <2>1. \A i \in Rows : ~seat[i].live
    BY DEF Init, NoSeat
  <2>2. \A u \in Users, e \in Estates : StatusOf(u, e) = "none"
    BY DEF Init, NoRow, StatusOf, Pairs
  <2>3. let = {}
    BY DEF Init
  <2>. QED
    BY <2>1, <2>2, <2>3 DEF TenancyInv, OneSeat, SeatedInLet, FinishIsSeated, LetIsDraft
<1>2. TypeOK /\ TypeOK' /\ StillTrue /\ OnlyOpen /\ TenancyInv /\ [Next]_vars => TenancyInv'
  BY FinalTenancy, AcceptedTenancy, DisconnectedTenancy, OtherTenancy
<1>3. OneAtATime
  BY DEF LastingTenancies
<1>. QED
  BY <1>1, <1>2, <1>3, TypeCorrect, ChecksStayTrue, SpecOpen, PTL DEF Spec

\* Where a tenant lives he is the final match and nobody else is, when handlers run one
\* after the other on single estates: finalConfirm and the invitation link find no
\* earlier final match, and disconnecting ends it.
THEOREM TenantsAreFinal ==
    ASSUME LastingTenancies
    PROVE  Spec => []SeatedIsFinal
<1>1. TypeOK /\ TenancyInv => SeatedIsFinal
  <2>. SUFFICES ASSUME TypeOK, TenancyInv, NEW i \in Rows, seat[i].live, seat[i].user # None
                PROVE  {v \in Users : StatusOf(v, seat[i].estate) = "finish"} = {seat[i].user}
    BY DEF SeatedIsFinal
  <2>1. PICK u \in Users, e \in Estates : u = seat[i].user /\ e = seat[i].estate
    BY DEF TypeOK, Seat, TenancyInv, SeatedInLet
  <2>2. StatusOf(u, e) = "finish"
    BY <2>1 DEF TenancyInv, SeatedInLet
  <2>3. \A v \in Users : StatusOf(v, e) = "finish" => v = u
    <3>. SUFFICES ASSUME NEW v \in Users, StatusOf(v, e) = "finish"
                  PROVE  v = u
      OBVIOUS
    <3>1. PICK j \in Rows : seat[j].live /\ seat[j].estate = e /\ seat[j].user = v
      BY DEF TenancyInv, FinishIsSeated
    <3>. QED
      BY <2>1, <3>1 DEF TenancyInv, OneSeat
  <2>. QED
    BY <2>1, <2>2, <2>3
<1>. QED
  BY <1>1, TypeCorrect, TenanciesLast, PTL

\* An estate has one current tenant at a time, registered or not, when handlers run one
\* after the other on single estates.
THEOREM OneTenantAtATime ==
    ASSUME LastingTenancies
    PROVE  Spec => []OneCurrentTenant
<1>1. TenancyInv => OneCurrentTenant
  <2>. SUFFICES ASSUME TenancyInv, NEW e \in Estates
                PROVE  Cardinality(LiveSeats(e)) <= 1
    BY DEF OneCurrentTenant
  <2>1. LiveSeats(e) = {} \/ \E i \in Rows : LiveSeats(e) = {i}
    BY DEF TenancyInv, OneSeat, LiveSeats
  <2>2. Cardinality(LiveSeats(e)) \in {0, 1}
    BY <2>1, FS_EmptySet, FS_Singleton
  <2>. QED
    BY <2>2
<1>. QED
  BY <1>1, TenanciesLast, PTL

\* "You can't rent this property because this property already has been delete or rented
\* by someone else": one handler after the other, an estate is rented once.
THEOREM RentedOnce ==
    ASSUME LastingTenancies
    PROVE  Spec => []OneFinalMatch
<1>1. TenancyInv => OneFinalMatch
  <2>. SUFFICES ASSUME TenancyInv, NEW e \in Estates
                PROVE  Cardinality({u \in Users : StatusOf(u, e) = "finish"}) <= 1
    BY DEF OneFinalMatch
  <2> DEFINE Finals == {u \in Users : StatusOf(u, e) = "finish"}
  <2>1. Finals = {} \/ \E u \in Users : Finals = {u}
    <3>1. ASSUME NEW u \in Finals, NEW v \in Finals
          PROVE  u = v
      <4>1. PICK i \in Rows : seat[i].live /\ seat[i].estate = e /\ seat[i].user = u
        BY DEF TenancyInv, FinishIsSeated
      <4>2. PICK j \in Rows : seat[j].live /\ seat[j].estate = e /\ seat[j].user = v
        BY DEF TenancyInv, FinishIsSeated
      <4>. QED
        BY <4>1, <4>2 DEF TenancyInv, OneSeat
    <3>. QED
      BY <3>1
  <2>2. Cardinality(Finals) \in {0, 1}
    BY <2>1, FS_EmptySet, FS_Singleton
  <2>. QED
    BY <2>2
<1>. QED
  BY <1>1, TenanciesLast, PTL

\* A tenant is not displaced by somebody else's confirmation or invitation, when
\* handlers run one after the other on single estates.
THEOREM TenantsStay ==
    ASSUME LastingTenancies
    PROVE  Spec => NoTenantDisplaced
<1>1. TypeOK /\ StillTrue /\ OnlyOpen /\ TenancyInv /\ [Next]_vars =>
      [\A i \in Rows :
          seat[i].live /\ seat[i].user # None
            => \/ seat'[i].live /\ seat'[i].user = seat[i].user
               \/ \E r \in Requests :
                     /\ req[r] # Idle
                     /\ req[r].op \in {"disconnect", "expireTenant", "deleteTenant"}]_vars
  <2>. SUFFICES ASSUME TypeOK, StillTrue, OnlyOpen, TenancyInv, [Next]_vars, NEW i \in Rows,
                       seat[i].live, seat[i].user # None,
                       ~\E r \in Requests :
                           /\ req[r] # Idle
                           /\ req[r].op \in {"disconnect", "expireTenant", "deleteTenant"}
                PROVE  seat'[i].live /\ seat'[i].user = seat[i].user
    OBVIOUS
  <2>1. seat[i].estate \in let
    BY DEF TenancyInv, SeatedInLet
  <2>2. ASSUME NEW r \in Requests, NEW u \in Users, NEW e \in Estates, NEW j \in Rows,
               HandleFinalMatch(r, u, e, j)
        PROVE  seat'[i].live /\ seat'[i].user = seat[i].user
    <3>1. e \notin let
      BY <2>2, KnownStage DEF HandleFinalMatch, Rentable
    <3>2. j # i /\ seat[i].estate # e
      BY <2>1, <2>2, <3>1 DEF HandleFinalMatch, Unused
    <3>3. seat'[i] = seat[i]
      BY <2>2, <3>2 DEF HandleFinalMatch
    <3>. QED
      BY <3>3
  <2>3. ASSUME NEW r \in Requests, NEW u \in Users, NEW e \in Estates, StoreAccept(r, u, e)
        PROVE  seat'[i].live /\ seat'[i].user = seat[i].user
    <3>1. seat[req[r].row].user = None
      BY <2>3, KnownStage DEF StoreAccept
    <3>2. \/ seat' = [seat EXCEPT ![req[r].row].user = u, ![req[r].row].code = FALSE]
          \/ seat' = seat
      BY <2>3 DEF StoreAccept
    <3>3. seat'[i] = seat[i]
      BY <3>1, <3>2 DEF TypeOK
    <3>. QED
      BY <3>3
  <2>4. ASSUME NEW r \in Requests, NEW u, NEW e \in Estates,
               StoreDisconnect(r, u, e) \/ StoreExpire(r, e) \/ StoreDelete(r, e)
        PROVE  FALSE
    BY <2>4 DEF StoreDisconnect, StoreExpire, StoreDelete, Serving
  <2>. QED
    BY <2>2, <2>3, <2>4, SeatKept DEF SeatStep, Steady
<1>2. OneAtATime
  BY DEF LastingTenancies
<1>. QED
  BY <1>1, <1>2, TypeCorrect, ChecksStayTrue, SpecOpen, TenanciesLast, PTL DEF Spec, NoTenantDisplaced
=============================================================================
