----------------------------- MODULE MatchFlow -----------------------------
(***************************************************************************)
(* The stages of a match from NEW to TOP: what prospects and landlords do  *)
(* with MatchService before a rental is requested.                         *)
(***************************************************************************)
EXTENDS MatchTables

-----------------------------------------------------------------------------
(* Likes and dislikes.  They cover the whole building of the estate.       *)

BuildingOf(u, e) == {u} \X Building[e]

\* Mutant: only the dislike of the estate itself goes.
AddLikeOnce(u, e) ==
    /\ Served("like")
    /\ likes' = likes \cup BuildingOf(u, e)
    /\ dislikes' = dislikes \ {<<u, e>>}
    /\ UNCHANGED <<match, visit, slots, estateVars, finalVars>>

AddLike(u, e) ==
    /\ Served("like")
    /\ likes' = likes \cup BuildingOf(u, e)
    /\ dislikes' = dislikes \ BuildingOf(u, e)
    /\ UNCHANGED <<match, visit, slots, estateVars, finalVars>>

AddDislike(u, e) ==
    /\ Served("dislike")
    /\ dislikes' = dislikes \cup BuildingOf(u, e)
    /\ likes' = likes \ BuildingOf(u, e)
    /\ UNCHANGED <<match, visit, slots, estateVars, finalVars>>

RemoveLike(u, e) ==
    /\ Served("removeLike")
    /\ likes' = likes \ BuildingOf(u, e)
    /\ UNCHANGED <<match, visit, dislikes, slots, estateVars, finalVars>>

RemoveDislike(u, e) ==
    /\ Served("removeDislike")
    /\ dislikes' = dislikes \ BuildingOf(u, e)
    /\ UNCHANGED <<match, visit, likes, slots, estateVars, finalVars>>

-----------------------------------------------------------------------------
(* Matching: NEW rows are computed, by prospect or by estate.              *)

\* The estates that a search may return: active, neither liked nor disliked,
\* and without a match beyond NEW.
Candidates(u) ==
    {e \in Estates : /\ status[e] = "active"
                     /\ StatusOf(u, e) \in {"none", "new"}
                     /\ <<u, e>> \notin likes \cup dislikes}

\* The zone and the filters of the prospect leave any part of the candidates.
SearchEstates(r, u, found) ==
    /\ Accepts(r, "matchByUser")
    /\ found \subseteq Candidates(u)
    /\ Begin(r, [NewCall("matchByUser", u, None) EXCEPT !.estates = found])

\* NEW rows that the search did not find any more, but those of buddies.
FindOldMatches(r, u) ==
    /\ Serving(r, "matchByUser", u, None)
    /\ req' = [req EXCEPT
                 ![r].op = "newMatches",
                 ![r].pairs = {p \in {u} \X (Estates \ req[r].estates) :
                                  match[p].status = "new" /\ ~match[p].buddy}]
    /\ UNCHANGED tables

\* They go by their ids, whatever stage they have by now (a row that was deleted
\* and inserted again is not told apart), and what was found is upserted:
\* ON CONFLICT overwrites the status.
CreateNewMatches(r, u) ==
    /\ Serving(r, "newMatches", u, None)
    /\ match' = [p \in Pairs |->
                    IF p \in {u} \X req[r].estates THEN [match[p] EXCEPT !.status = "new"]
                    ELSE IF p \in req[r].pairs THEN NoRow
                    ELSE match[p]]
    /\ End(r)
    /\ UNCHANGED <<pipelineVars, estateVars, finalVars>>

\* After a publication; found are the prospects whose zone holds the estate.
ScoreTenants(r, e, found) ==
    /\ Accepts(r, "matchByEstate")
    /\ found \subseteq ActiveTenants
    /\ Begin(r, [NewCall("matchByEstate", None, e) EXCEPT
                    !.pairs = found \X {e}, !.todo = {"match"}])

DeleteNewMatches(r, e) ==
    /\ Serving(r, "matchByEstate", None, e)
    /\ req[r].todo # {}
    /\ match' = [p \in Pairs |->
                    IF p[2] = e /\ match[p].status = "new" THEN NoRow ELSE match[p]]
    /\ req' = [req EXCEPT ![r].todo = {}]
    /\ UNCHANGED <<pipelineVars, estateVars, finalVars>>

InsertNewMatches(r, e) ==
    /\ Serving(r, "matchByEstate", None, e)
    /\ req[r].todo = {}
    /\ match' = [p \in Pairs |->
                    IF p \in req[r].pairs /\ match[p].status = "none"
                    THEN [NoRow EXCEPT !.status = "new"] ELSE match[p]]
    /\ End(r)
    /\ UNCHANGED <<pipelineVars, estateVars, finalVars>>

\* A prospect follows a landlord's invitation link.  The row read decides
\* between an insert, which the unique key may refuse, and an update.
AddBuddy(r, u, e) ==
    /\ Accepts(r, "addBuddy")
    /\ status[e] # "offline"
    /\ ~match[<<u, e>>].buddy
    /\ Begin(r, [NewCall("addBuddy", u, e) EXCEPT !.flag = Exists(u, e)])

CreateBuddyMatch(r, u, e) ==
    /\ Serving(r, "addBuddy", u, e)
    /\ match' = CASE req[r].flag /\ Exists(u, e) -> [match EXCEPT ![<<u, e>>].buddy = TRUE]
                  [] ~req[r].flag /\ ~Exists(u, e) ->
                        [match EXCEPT ![<<u, e>>] =
                            [status |-> "new", share |-> FALSE, buddy |-> TRUE]]
                  [] OTHER -> match
    /\ End(r)
    /\ UNCHANGED <<pipelineVars, estateVars, finalVars>>

-----------------------------------------------------------------------------
(* KNOCK.                                                                  *)

\* The invitation link of an estate offline knocks with share_profile and
\* knock_anyway; the other knocks come from the prospect.
KnockEstate(r, u, e, share, anyway) ==
    /\ Accepts(r, IF anyway \/ share THEN "knockAnyway" ELSE "knock")
    /\ ActiveById(e)
    /\ share => e \in NotShown \/ status[e] = "offline"
    /\ u \in ActiveTenants \/ anyway
    /\ StatusOf(u, e) = "new" \/ <<u, e>> \in likes \/ anyway \/ share
    /\ Begin(r, NewCall("knock", u, e))

\* One row per estate of the category, whatever stage those rows have.
StoreKnock(r, u, e) ==
    /\ Serving(r, "knock", u, e)
    /\ match' = [p \in Pairs |-> IF p[1] = u /\ p[2] \in SameCategory(e)
                                 THEN [match[p] EXCEPT !.status = "knock"] ELSE match[p]]
    /\ dislikes' = dislikes \ ({u} \X SameCategory(e))
    /\ End(r)
    /\ UNCHANGED <<visit, likes, slots, estateVars, finalVars>>

CancelKnock(r, u, e) ==
    /\ Accepts(r, "cancelKnock")
    /\ StatusOf(u, e) = "knock"
    /\ Begin(r, NewCall("cancelKnock", u, e))

StoreCancelKnock(r, u, e) ==
    /\ Serving(r, "cancelKnock", u, e)
    /\ match' = [match EXCEPT ![<<u, e>>] = NoRow]
    /\ dislikes' = dislikes \cup BuildingOf(u, e)
    /\ likes' = likes \ BuildingOf(u, e)
    /\ End(r)
    /\ UNCHANGED <<visit, slots, estateVars, finalVars>>

\* The landlord moves the prospect to another unit, where his row becomes a
\* KNOCK; the save writes the status only if the row read had another one.
\* A visit of the first unit stays.
MoveToNewEstate(r, u, e, f) ==
    /\ Accepts(r, "move")
    /\ e # f /\ MatchEstate(e) /\ MatchEstate(f)
    /\ StatusOf(u, e) \notin {"none", "finish"}
    /\ Level[StatusOf(u, f)] < Level[StatusOf(u, e)]
    /\ Begin(r, [NewCall("move", u, e) EXCEPT
                    !.estates = {f}, !.flag = Exists(u, f),
                    !.todo = IF StatusOf(u, f) = "knock" THEN {} ELSE {"match"}])

\* The row is inserted, which the unique key may refuse, or updated.
StoreMove(r, u, e) ==
    /\ Serving(r, "move", u, e)
    /\ \E f \in req[r].estates :
        match' = IF ~req[r].flag /\ Exists(u, f) THEN match
                 ELSE [p \in Pairs |->
                        IF p = <<u, e>> THEN NoRow
                        ELSE IF p = <<u, f>> /\ req[r].todo # {}
                                             /\ (req[r].flag => Exists(u, f))
                             THEN [match[p] EXCEPT !.status = "knock"]
                        ELSE match[p]]
    /\ End(r)
    /\ UNCHANGED <<pipelineVars, estateVars, finalVars>>

-----------------------------------------------------------------------------
(* INVITE.                                                                 *)

Invite(r, u, e) ==
    /\ Accepts(r, "invite")
    /\ MatchEstate(e)
    /\ \/ StatusOf(u, e) = "knock"
       \/ StatusOf(u, e) = "new" /\ match[<<u, e>>].buddy
    /\ e \in NotShown \/ FreeSlots(e) # {}
    /\ Begin(r, NewCall("invite", u, e))

\* matchInviteAfter looks the row up again before it writes.
FindInvited(r, u, e) ==
    /\ Serving(r, "invite", u, e)
    /\ req' = [req EXCEPT ![r].op = "inviteAfter", ![r].flag = Exists(u, e)]
    /\ UNCHANGED tables

\* Mutant: removeAutoKnockedMatch is forgotten.
StoreInviteOnly(r, u, e) ==
    /\ Serving(r, "inviteAfter", u, e)
    /\ match' = WithStatus(u, e, IF e \in NotShown THEN "top" ELSE "invite")
    /\ task' = IF e \in NotShown THEN WithTask(u, e) ELSE task
    /\ End(r)
    /\ UNCHANGED <<pipelineVars, estateVars, seat, finalIncome>>

\* Without viewing appointments the prospect goes to TOP, with share only if
\* the row existed.  The KNOCKs at the other units of the category go.
StoreInvite(r, u, e) ==
    /\ Serving(r, "inviteAfter", u, e)
    /\ IF ~req[r].flag /\ Exists(u, e) THEN UNCHANGED <<match, task>>
       ELSE /\ match' = [p \in Pairs |->
                  IF p = <<u, e>> /\ (Exists(u, e) \/ ~req[r].flag)
                  THEN [match[p] EXCEPT
                          !.status = IF e \in NotShown THEN "top" ELSE "invite",
                          !.share = req[r].flag /\ e \in NotShown]
                  ELSE IF p[1] = u /\ p[2] \in SameCategory(e) \ {e}
                                   /\ match[p].status = "knock"
                       THEN NoRow
                  ELSE match[p]]
            /\ task' = IF e \in NotShown THEN WithTask(u, e) ELSE task
    /\ End(r)
    /\ UNCHANGED <<pipelineVars, estateVars, seat, finalIncome>>

\* By the landlord, or by the prospect, for whom no estate is looked up.
CancelInvite(r, u, e) ==
    /\ Accepts(r, "cancelInvite")
    /\ StatusOf(u, e) = "invite"
    /\ Begin(r, NewCall("cancelInvite", u, e))

StoreCancelInvite(r, u, e) ==
    /\ Serving(r, "cancelInvite", u, e)
    /\ match' = WithStatus(u, e, "knock")
    /\ End(r)
    /\ UNCHANGED <<pipelineVars, estateVars, finalVars>>

-----------------------------------------------------------------------------
(* VISIT.                                                                  *)

BookTimeslot(r, u, e, s) ==
    /\ Accepts(r, "book")
    /\ status[e] = "active"
    /\ StatusOf(u, e) = "invite"
    /\ visit[<<u, e>>] = None
    /\ s \in slots[e]
    /\ Begin(r, [NewCall("book", u, e) EXCEPT !.slot = s])

\* The unique key on user and estate refuses a second visit.
StoreVisit(r, u, e) ==
    /\ Serving(r, "book", u, e)
    /\ IF visit[<<u, e>>] # None THEN UNCHANGED <<match, visit>>
       ELSE /\ visit' = [visit EXCEPT ![<<u, e>>] = req[r].slot]
            /\ match' = WithStatus(u, e, "visit")
    /\ End(r)
    /\ UNCHANGED <<likes, dislikes, slots, estateVars, finalVars>>

CancelVisit(r, u, e) ==
    /\ Accepts(r, "cancelVisit")
    /\ StatusOf(u, e) = "visit"
    /\ Begin(r, NewCall("cancelVisit", u, e))

\* Mutant: the visit row is kept.
StoreCancelVisitKeeping(r, u, e) ==
    /\ Serving(r, "cancelVisit", u, e)
    /\ match' = WithStatus(u, e, "invite")
    /\ End(r)
    /\ UNCHANGED <<pipelineVars, estateVars, finalVars>>

StoreCancelVisit(r, u, e) ==
    /\ Serving(r, "cancelVisit", u, e)
    /\ visit' = [visit EXCEPT ![<<u, e>>] = None]
    /\ match' = WithStatus(u, e, "invite")
    /\ End(r)
    /\ UNCHANGED <<likes, dislikes, slots, estateVars, finalVars>>

\* The landlord only needs a visit row; the two statements are independent.
CancelVisitByLandlord(r, u, e) ==
    /\ Accepts(r, "landlordCancel")
    /\ visit[<<u, e>>] # None
    /\ Begin(r, [NewCall("landlordCancel", u, e) EXCEPT !.todo = {"visit", "match"}])

\* One statement of a Promise.all is done; the request ends with the last one.
Done(r, write) ==
    /\ write \in req[r].todo
    /\ IF req[r].todo = {write} THEN End(r)
       ELSE req' = [req EXCEPT ![r].todo = @ \ {write}]

LandlordDeletesVisit(r, u, e) ==
    /\ Serving(r, "landlordCancel", u, e)
    /\ Done(r, "visit")
    /\ visit' = [visit EXCEPT ![<<u, e>>] = None]
    /\ UNCHANGED <<match, likes, dislikes, slots, estateVars, finalVars>>

LandlordMovesToInvite(r, u, e) ==
    /\ Serving(r, "landlordCancel", u, e)
    /\ Done(r, "match")
    /\ match' = WithStatus(u, e, "invite")
    /\ UNCHANGED <<pipelineVars, estateVars, finalVars>>

-----------------------------------------------------------------------------
(* The calendar.  Its operations cover the slots of the whole building.    *)

CreateSlot(e, s) ==
    /\ Served("createSlot")
    /\ \A f \in Building[e] : s \notin slots[f]
    /\ slots' = [f \in Estates |-> IF f \in Building[e] THEN slots[f] \cup {s} ELSE slots[f]]
    /\ UNCHANGED <<match, visit, likes, dislikes, estateVars, finalVars>>

Offering(e, s) == {f \in Building[e] : s \in slots[f]}
BookedAt(estates, s) == {p \in Users \X estates : visit[p] = s}

\* The visits that are gone with a unit; their users are invited again,
\* whatever stage they have by now.
VisitsToInvites(pairs) ==
    /\ visit' = [p \in Pairs |-> IF p \in pairs THEN None ELSE visit[p]]
    /\ match' = [p \in Pairs |->
                    IF p \in pairs /\ match[p].status # "none"
                    THEN [match[p] EXCEPT !.status = "invite"] ELSE match[p]]

WithoutSlot(estates, s) ==
    [f \in Estates |-> IF f \in estates THEN slots[f] \ {s} ELSE slots[f]]

\* Removing a slot takes every visit that it held ...
RemoveSlot(r, e, s) ==
    /\ Accepts(r, "removeSlot")
    /\ s \in slots[e]
    /\ Begin(r, [NewCall("removeSlot", None, e) EXCEPT
                    !.slot = s, !.estates = Offering(e, s),
                    !.pairs = BookedAt(Offering(e, s), s)])

\* Mutant: the visits are left alone.
StoreRemoveSlotOnly(r, e) ==
    /\ Serving(r, "removeSlot", None, e)
    /\ slots' = WithoutSlot(req[r].estates, req[r].slot)
    /\ End(r)
    /\ UNCHANGED <<match, visit, likes, dislikes, estateVars, finalVars>>

StoreRemoveSlot(r, e) ==
    /\ Serving(r, "removeSlot", None, e)
    /\ VisitsToInvites(req[r].pairs)
    /\ slots' = WithoutSlot(req[r].estates, req[r].slot)
    /\ End(r)
    /\ UNCHANGED <<likes, dislikes, estateVars, finalVars>>

\* ... moving its ends, or changing its unit length, only those of matches that
\* are at VISIT, and only at the estate of the request: updateSlotMany hands its
\* estate_id to every slot of the building.  With another length the unit itself is
\* still offered.
UpdateSlot(r, e, s, relength) ==
    /\ Accepts(r, "updateSlot")
    /\ s \in slots[e]
    /\ Begin(r, [NewCall("updateSlot", None, e) EXCEPT
                    !.slot = s, !.flag = relength, !.estates = Offering(e, s),
                    !.pairs = {p \in BookedAt({e}, s) : match[p].status = "visit"}])

StoreUpdateSlot(r, e) ==
    /\ Serving(r, "updateSlot", None, e)
    /\ VisitsToInvites(req[r].pairs)
    /\ slots' = IF req[r].flag THEN slots ELSE WithoutSlot(req[r].estates, req[r].slot)
    /\ End(r)
    /\ UNCHANGED <<likes, dislikes, estateVars, finalVars>>

-----------------------------------------------------------------------------
(* SHARE and TOP.                                                          *)

Share(r, u, e) ==
    /\ Accepts(r, "share")
    /\ MatchEstate(e)
    /\ StatusOf(u, e) = "visit"
    /\ Begin(r, NewCall("share", u, e))

StoreShare(r, u, e) ==
    /\ Serving(r, "share", u, e)
    /\ match' = IF Exists(u, e)
                THEN [match EXCEPT ![<<u, e>>].status = "share", ![<<u, e>>].share = TRUE]
                ELSE match
    /\ End(r)
    /\ UNCHANGED <<pipelineVars, estateVars, finalVars>>

\* Any stage that has shared goes back to VISIT.
CancelShare(r, u, e) ==
    /\ Accepts(r, "cancelShare")
    /\ match[<<u, e>>].share
    /\ Begin(r, NewCall("cancelShare", u, e))

StoreCancelShare(r, u, e) ==
    /\ Serving(r, "cancelShare", u, e)
    /\ match' = IF Exists(u, e)
                THEN [match EXCEPT ![<<u, e>>].status = "visit", ![<<u, e>>].share = FALSE]
                ELSE match
    /\ End(r)
    /\ UNCHANGED <<pipelineVars, estateVars, finalVars>>

\* The prospect answers a landlord's request to share his profile.
RespondToSharing(u, e, answer) ==
    /\ Served("respond")
    /\ Exists(u, e)
    /\ match' = [match EXCEPT ![<<u, e>>].share = answer]
    /\ UNCHANGED <<pipelineVars, estateVars, finalVars>>

ToTop(u, e) ==
    /\ Served("top")
    /\ MatchEstate(e)
    /\ match[<<u, e>>].share /\ StatusOf(u, e) \in {"share", "visit"}
    /\ match' = WithStatus(u, e, "top")
    /\ task' = WithTask(u, e)
    /\ UNCHANGED <<pipelineVars, estateVars, seat, finalIncome>>

RemoveFromTop(r, u, e) ==
    /\ Accepts(r, "removeFromTop")
    /\ MatchEstate(e)
    /\ StatusOf(u, e) = "top"
    /\ Begin(r, [NewCall("removeFromTop", u, e) EXCEPT !.flag = match[<<u, e>>].share])

StoreRemoveFromTop(r, u, e) ==
    /\ Serving(r, "removeFromTop", u, e)
    /\ match' = WithStatus(u, e, IF req[r].flag THEN "share" ELSE "visit")
    /\ End(r)
    /\ UNCHANGED <<pipelineVars, estateVars, finalVars>>

\* The prospect steps back: three independent statements and no check at all.
CancelTop(r, u, e) ==
    /\ Accepts(r, "cancelTop")
    /\ Begin(r, [NewCall("cancelTop", u, e) EXCEPT !.todo = {"match", "visit", "dislike"}])

\* Mutant: the chat goes with the match.
CancelTopMatchAndTask(r, u, e) ==
    /\ Serving(r, "cancelTop", u, e)
    /\ Done(r, "match")
    /\ match' = IF StatusOf(u, e) = "top" THEN [match EXCEPT ![<<u, e>>] = NoRow] ELSE match
    /\ task' = IF StatusOf(u, e) = "top" THEN [task EXCEPT ![<<u, e>>] = "none"] ELSE task
    /\ UNCHANGED <<pipelineVars, estateVars, seat, finalIncome>>

CancelTopMatch(r, u, e) ==
    /\ Serving(r, "cancelTop", u, e)
    /\ Done(r, "match")
    /\ match' = IF StatusOf(u, e) = "top" THEN [match EXCEPT ![<<u, e>>] = NoRow] ELSE match
    /\ UNCHANGED <<pipelineVars, estateVars, finalVars>>

CancelTopVisit(r, u, e) ==
    /\ Serving(r, "cancelTop", u, e)
    /\ Done(r, "visit")
    /\ visit' = [visit EXCEPT ![<<u, e>>] = None]
    /\ UNCHANGED <<match, likes, dislikes, slots, estateVars, finalVars>>

CancelTopDislike(r, u, e) ==
    /\ Serving(r, "cancelTop", u, e)
    /\ Done(r, "dislike")
    /\ IF <<u, e>> \in dislikes THEN UNCHANGED <<likes, dislikes>>
       ELSE /\ dislikes' = dislikes \cup BuildingOf(u, e)
            /\ likes' = likes \ BuildingOf(u, e)
    /\ UNCHANGED <<match, visit, slots, estateVars, finalVars>>

-----------------------------------------------------------------------------
\* An administrator takes back a knock, a like or a dislike at an estate or in
\* its building, where a match exists: any stage becomes NEW.
CancelAction(r, u, e, action, scope) ==
    /\ Accepts(r, "cancelAction")
    /\ scope \in {{e}, Building[e]}
    /\ \E f \in scope : Exists(u, f)
    /\ Begin(r, [NewCall("cancelAction", u, e) EXCEPT
                    !.todo = {action}, !.estates = {f \in scope : Exists(u, f)}])

StoreCancelAction(r, u, e) ==
    /\ Serving(r, "cancelAction", u, e)
    /\ LET rows == {u} \X req[r].estates
           without(action, pairs) == IF req[r].todo = {action} THEN pairs \ rows ELSE pairs
       IN  /\ match' = [p \in Pairs |->
                           IF req[r].todo = {"match"} /\ p \in rows /\ match[p].status # "none"
                           THEN [match[p] EXCEPT !.status = "new"] ELSE match[p]]
           /\ likes' = without("like", likes)
           /\ dislikes' = without("dislike", dislikes)
    /\ End(r)
    /\ UNCHANGED <<visit, slots, estateVars, finalVars>>

-----------------------------------------------------------------------------
TransactionalStep(u, e) ==
    \/ AddLike(u, e) \/ RemoveLike(u, e)
    \/ AddDislike(u, e) \/ RemoveDislike(u, e)
    \/ ToTop(u, e)
    \/ \E answer \in BOOLEAN : RespondToSharing(u, e, answer)

CheckStep(r, u, e) ==
    \/ AddBuddy(r, u, e)
    \/ \E share, anyway \in BOOLEAN : KnockEstate(r, u, e, share, anyway)
    \/ CancelKnock(r, u, e)
    \/ \E f \in Estates : MoveToNewEstate(r, u, e, f)
    \/ Invite(r, u, e) \/ FindInvited(r, u, e)
    \/ CancelInvite(r, u, e)
    \/ \E s \in Slots : BookTimeslot(r, u, e, s)
    \/ CancelVisit(r, u, e) \/ CancelVisitByLandlord(r, u, e)
    \/ Share(r, u, e) \/ CancelShare(r, u, e)
    \/ RemoveFromTop(r, u, e) \/ CancelTop(r, u, e)
    \/ \E action \in {"match", "like", "dislike"}, scope \in SUBSET Estates :
          CancelAction(r, u, e, action, scope)

StoreStep(r, u, e) ==
    \/ CreateBuddyMatch(r, u, e)
    \/ StoreKnock(r, u, e) \/ StoreCancelKnock(r, u, e)
    \/ StoreMove(r, u, e)
    \/ StoreInvite(r, u, e) \/ StoreCancelInvite(r, u, e)
    \/ StoreVisit(r, u, e) \/ StoreCancelVisit(r, u, e)
    \/ LandlordDeletesVisit(r, u, e) \/ LandlordMovesToInvite(r, u, e)
    \/ StoreShare(r, u, e) \/ StoreCancelShare(r, u, e)
    \/ StoreRemoveFromTop(r, u, e)
    \/ CancelTopMatch(r, u, e) \/ CancelTopVisit(r, u, e)
    \/ CancelTopDislike(r, u, e) \/ StoreCancelAction(r, u, e)

MatchingStep(r) ==
    \/ \E u \in Users :
          \/ \E found \in SUBSET Candidates(u) : SearchEstates(r, u, found)
          \/ FindOldMatches(r, u) \/ CreateNewMatches(r, u)
    \/ \E e \in Estates :
          \/ \E found \in SUBSET Users : ScoreTenants(r, e, found)
          \/ DeleteNewMatches(r, e) \/ InsertNewMatches(r, e)

CalendarStep(e) ==
    \E s \in Slots :
        \/ CreateSlot(e, s)
        \/ \E r \in Requests :
              \/ RemoveSlot(r, e, s)
              \/ \E relength \in BOOLEAN : UpdateSlot(r, e, s, relength)

FlowNext ==
    \/ \E u \in Users, e \in Estates :
          \/ TransactionalStep(u, e)
          \/ \E r \in Requests : CheckStep(r, u, e) \/ StoreStep(r, u, e)
    \/ \E r \in Requests : MatchingStep(r)
    \/ \E e \in Estates :
          \/ CalendarStep(e)
          \/ \E r \in Requests : StoreRemoveSlot(r, e) \/ StoreUpdateSlot(r, e)
=============================================================================
