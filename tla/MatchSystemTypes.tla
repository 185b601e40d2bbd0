------------------------- MODULE MatchSystemTypes -------------------------
(***************************************************************************)
(* Type correctness of MatchSystem for any number of users, estates,       *)
(* calendar slots, tenant rows and handlers in flight.                     *)
(***************************************************************************)
EXTENDS MatchSystem, TLAPS

-----------------------------------------------------------------------------
(* Requests in flight are well-formed calls.                               *)

\* A fresh call names an operation, a user or none, and an estate or none.
LEMMA NewCallType ==
    ASSUME NEW op \in Handlers, NEW u \in Users \cup {None}, NEW e \in Estates \cup {None}
    PROVE  NewCall(op, u, e) \in Call
BY DEF NewCall, Call

\* The updates of a call by a condition that was read.
LEMMA CallFlag ==
    ASSUME NEW c \in Call, NEW flag \in BOOLEAN
    PROVE  [c EXCEPT !.flag = flag] \in Call
BY DEF Call

\* The same for a handler that goes on with its next part.
LEMMA CallOpFlag ==
    ASSUME NEW c \in Call, NEW op \in Handlers, NEW flag \in BOOLEAN
    PROVE  [c EXCEPT !.op = op, !.flag = flag] \in Call
BY DEF Call

\* The same for a move to another estate.
LEMMA CallMove ==
    ASSUME NEW c \in Call, NEW estates \in SUBSET Estates, NEW flag \in BOOLEAN,
           NEW todo \in SUBSET Writes
    PROVE  [c EXCEPT !.estates = estates, !.flag = flag, !.todo = todo] \in Call
BY DEF Call

\* A check step changes nothing but the request slot it occupies.
LEMMA BeginType ==
    ASSUME TypeOK, NEW r \in Requests, NEW call \in Call, Begin(r, call)
    PROVE  TypeOK'
BY DEF TypeOK, Begin, tables, pipelineVars, estateVars, finalVars

\* A handler that begins with a fresh call keeps the types.
LEMMA BeginFresh ==
    ASSUME TypeOK, NEW r \in Requests, NEW op \in Handlers,
           NEW u \in Users \cup {None}, NEW e \in Estates \cup {None},
           Begin(r, NewCall(op, u, e))
    PROVE  TypeOK'
BY NewCallType, BeginType

\* A handler that is served is in flight; when it ends, its slot is idle.
LEMMA ServingType ==
    ASSUME TypeOK, NEW r \in Requests, NEW op, NEW u, NEW e, Serving(r, op, u, e)
    PROVE  req[r] \in Call
BY DEF TypeOK, Serving

\* A handler that ends leaves its slot idle.
LEMMA EndType ==
    ASSUME TypeOK, NEW r \in Requests, End(r)
    PROVE  req' \in [Requests -> Call \cup {Idle}]
BY DEF TypeOK, End

\* A statement that is done leaves the others to do.
LEMMA DoneType ==
    ASSUME TypeOK, NEW r \in Requests, req[r] \in Call, NEW write, Done(r, write)
    PROVE  req' \in [Requests -> Call \cup {Idle}]
<1>1. CASE End(r)
  BY <1>1, EndType
<1>2. CASE req' = [req EXCEPT ![r].todo = @ \ {write}]
  <2>1. [req[r] EXCEPT !.todo = @ \ {write}] \in Call
    BY DEF Call
  <2>. QED
    BY <1>2, <2>1 DEF TypeOK
<1>. QED
  BY <1>1, <1>2 DEF Done

\* Updates of one stage keep the shape of the rows.
LEMMA WithStatusType ==
    ASSUME TypeOK, NEW u \in Users, NEW e \in Estates, NEW s \in Stages \cup {"none"}
    PROVE  WithStatus(u, e, s) \in [Pairs -> Row]
BY DEF TypeOK, WithStatus, Exists, StatusOf, Row, Pairs

\* So does an answer about the profile.
LEMMA ShareType ==
    ASSUME TypeOK, NEW u \in Users, NEW e \in Estates, NEW answer \in BOOLEAN
    PROVE  [match EXCEPT ![<<u, e>>].share = answer] \in [Pairs -> Row]
<1>1. <<u, e>> \in Pairs /\ match[<<u, e>>] \in Row
  BY DEF TypeOK, Pairs
<1>2. [match[<<u, e>>] EXCEPT !.share = answer] \in Row
  BY <1>1 DEF Row
<1>. QED
  BY <1>1, <1>2 DEF TypeOK

\* So does the creation of a system task.
LEMMA WithTaskType ==
    ASSUME TypeOK, NEW u \in Users, NEW e \in Estates
    PROVE  WithTask(u, e) \in [Pairs -> TaskStatus]
BY DEF TypeOK, WithTask, Pairs, TaskStatus

\* The operations that are one transaction.
LEMMA TransactionalType ==
    ASSUME TypeOK, NEW u \in Users, NEW e \in Estates, TransactionalStep(u, e)
    PROVE  TypeOK'
<1>b. BuildingOf(u, e) \subseteq Pairs
  BY TablesAssumption DEF BuildingOf, Pairs
<1>1. CASE AddLike(u, e)
  BY <1>1, <1>b DEF AddLike, TypeOK, Served, estateVars, finalVars
<1>2. CASE RemoveLike(u, e)
  BY <1>2 DEF RemoveLike, TypeOK, Served, estateVars, finalVars
<1>3. CASE AddDislike(u, e)
  BY <1>3, <1>b DEF AddDislike, TypeOK, Served, estateVars, finalVars
<1>4. CASE RemoveDislike(u, e)
  BY <1>4 DEF RemoveDislike, TypeOK, Served, estateVars, finalVars
<1>5. CASE ToTop(u, e)
  <2>1. match' \in [Pairs -> Row]
    BY <1>5, WithStatusType DEF ToTop, Stages
  <2>2. task' \in [Pairs -> TaskStatus]
    BY <1>5, WithTaskType DEF ToTop
  <2>. QED
    BY <1>5, <2>1, <2>2 DEF ToTop, TypeOK, Served, pipelineVars, estateVars
<1>6. CASE \E answer \in BOOLEAN : RespondToSharing(u, e, answer)
  <2>1. PICK answer \in BOOLEAN : RespondToSharing(u, e, answer)
    BY <1>6
  <2>2. match' \in [Pairs -> Row]
    BY <2>1, ShareType DEF RespondToSharing
  <2>. QED
    BY <2>1, <2>2 DEF RespondToSharing, TypeOK, Served, pipelineVars, estateVars, finalVars
<1>. QED
  BY <1>1, <1>2, <1>3, <1>4, <1>5, <1>6 DEF TransactionalStep

-----------------------------------------------------------------------------
(* The check steps: a handler has read, and nothing is written.            *)

\* A check step keeps the types.
LEMMA CheckType ==
    ASSUME TypeOK, NEW r \in Requests, NEW u \in Users, NEW e \in Estates,
           CheckStep(r, u, e)
    PROVE  TypeOK'
<1>u. u \in Users \cup {None} /\ e \in Estates \cup {None}
  OBVIOUS
<1>1. CASE AddBuddy(r, u, e)
  <2>1. PICK c \in Call : c = NewCall("addBuddy", u, e)
    BY <1>u, NewCallType DEF Handlers
  <2>2. Begin(r, [c EXCEPT !.flag = Exists(u, e)])
    BY <1>1, <2>1 DEF AddBuddy
  <2>3. Exists(u, e) \in BOOLEAN
    BY DEF Exists
  <2>4. [c EXCEPT !.flag = Exists(u, e)] \in Call
    BY <2>3, CallFlag
  <2>. QED
    BY <2>2, <2>4, BeginType
<1>2. CASE \E share, anyway \in BOOLEAN : KnockEstate(r, u, e, share, anyway)
  <2>1. PICK share \in BOOLEAN, anyway \in BOOLEAN : KnockEstate(r, u, e, share, anyway)
    BY <1>2
  <2>2. Begin(r, NewCall("knock", u, e))
    BY <2>1 DEF KnockEstate
  <2>. QED
    BY <2>2, <1>u, BeginFresh DEF Handlers
<1>3. CASE CancelKnock(r, u, e)
  BY <1>3, <1>u, BeginFresh DEF CancelKnock, Handlers
<1>4. CASE \E f \in Estates : MoveToNewEstate(r, u, e, f)
  <2>0. PICK f \in Estates : MoveToNewEstate(r, u, e, f)
    BY <1>4
  <2>1. PICK c \in Call : c = NewCall("move", u, e)
    BY <1>u, NewCallType DEF Handlers
  <2>2. Begin(r, [c EXCEPT !.estates = {f}, !.flag = Exists(u, f),
                    !.todo = IF StatusOf(u, f) = "knock" THEN {} ELSE {"match"}])
    BY <2>0, <2>1 DEF MoveToNewEstate
  <2>3. Exists(u, f) \in BOOLEAN
    BY DEF Exists
  <2>4. (IF StatusOf(u, f) = "knock" THEN {} ELSE {"match"}) \in SUBSET Writes
    BY DEF Writes
  <2>5. [c EXCEPT !.estates = {f}, !.flag = Exists(u, f),
                    !.todo = IF StatusOf(u, f) = "knock" THEN {} ELSE {"match"}] \in Call
    BY <2>3, <2>4, CallMove
  <2>. QED
    BY <2>2, <2>5, BeginType
<1>5. CASE Invite(r, u, e)
  BY <1>5, <1>u, BeginFresh DEF Invite, Handlers
<1>6. CASE FindInvited(r, u, e)
  <2>1. req[r] \in Call
    BY <1>6, ServingType DEF FindInvited
  <2>2. Exists(u, e) \in BOOLEAN
    BY DEF Exists
  <2>3. PICK c \in Call : c = req[r]
    BY <2>1
  <2>4. [c EXCEPT !.op = "inviteAfter", !.flag = Exists(u, e)] \in Call
    BY <2>2, CallOpFlag DEF Handlers
  <2>5. req' \in [Requests -> Call \cup {Idle}]
    BY <1>6, <2>3, <2>4 DEF FindInvited, TypeOK
  <2>. QED
    BY <1>6, <2>5 DEF FindInvited, TypeOK, tables, pipelineVars, estateVars, finalVars
<1>7. CASE CancelInvite(r, u, e)
  BY <1>7, <1>u, BeginFresh DEF CancelInvite, Handlers
<1>8. CASE \E s \in Slots : BookTimeslot(r, u, e, s)
  <2>0. PICK s \in Slots : BookTimeslot(r, u, e, s)
    BY <1>8
  <2>1. PICK c \in Call : c = NewCall("book", u, e)
    BY <1>u, NewCallType DEF Handlers
  <2>2. Begin(r, [c EXCEPT !.slot = s])
    BY <2>0, <2>1 DEF BookTimeslot
  <2>3. [c EXCEPT !.slot = s] \in Call
    BY DEF Call
  <2>. QED
    BY <2>2, <2>3, BeginType
<1>9. CASE CancelVisit(r, u, e)
  BY <1>9, <1>u, BeginFresh DEF CancelVisit, Handlers
<1>10. CASE CancelVisitByLandlord(r, u, e)
  <2>1. PICK c \in Call : c = NewCall("landlordCancel", u, e)
    BY <1>u, NewCallType DEF Handlers
  <2>2. Begin(r, [c EXCEPT !.todo = {"visit", "match"}])
    BY <1>10, <2>1 DEF CancelVisitByLandlord
  <2>3. [c EXCEPT !.todo = {"visit", "match"}] \in Call
    BY DEF Call, Writes
  <2>. QED
    BY <2>2, <2>3, BeginType
<1>11. CASE Share(r, u, e)
  BY <1>11, <1>u, BeginFresh DEF Share, Handlers
<1>12. CASE CancelShare(r, u, e)
  BY <1>12, <1>u, BeginFresh DEF CancelShare, Handlers
<1>13. CASE RemoveFromTop(r, u, e)
  <2>1. PICK c \in Call : c = NewCall("removeFromTop", u, e)
    BY <1>u, NewCallType DEF Handlers
  <2>2. Begin(r, [c EXCEPT !.flag = match[<<u, e>>].share])
    BY <1>13, <2>1 DEF RemoveFromTop
  <2>3. match[<<u, e>>].share \in BOOLEAN
    BY DEF TypeOK, Row, Pairs
  <2>4. [c EXCEPT !.flag = match[<<u, e>>].share] \in Call
    BY <2>3, CallFlag
  <2>. QED
    BY <2>2, <2>4, BeginType
<1>14. CASE CancelTop(r, u, e)
  <2>1. PICK c \in Call : c = NewCall("cancelTop", u, e)
    BY <1>u, NewCallType DEF Handlers
  <2>2. Begin(r, [c EXCEPT !.todo = {"match", "visit", "dislike"}])
    BY <1>14, <2>1 DEF CancelTop
  <2>3. [c EXCEPT !.todo = {"match", "visit", "dislike"}] \in Call
    BY DEF Call, Writes
  <2>. QED
    BY <2>2, <2>3, BeginType
<1>15. CASE \E action \in {"match", "like", "dislike"}, scope \in SUBSET Estates : CancelAction(r, u, e, action, scope)
  <2>0. PICK action \in {"match", "like", "dislike"}, scope \in SUBSET Estates : CancelAction(r, u, e, action, scope)
    BY <1>15
  <2>1. PICK c \in Call : c = NewCall("cancelAction", u, e)
    BY <1>u, NewCallType DEF Handlers
  <2>2. Begin(r, [c EXCEPT !.todo = {action}, !.estates = {f \in scope : Exists(u, f)}])
    BY <2>0, <2>1 DEF CancelAction
  <2>3. [c EXCEPT !.todo = {action}, !.estates = {f \in scope : Exists(u, f)}] \in Call
    BY DEF Call, Writes
  <2>. QED
    BY <2>2, <2>3, BeginType
<1>. QED
  BY <1>1, <1>2, <1>3, <1>4, <1>5, <1>6, <1>7, <1>8, <1>9, <1>10, <1>11, <1>12, <1>13, <1>14, <1>15 DEF CheckStep
-----------------------------------------------------------------------------
(* The store steps: what was read decides what is written.                 *)

\* Rows keep their shape.
LEMMA RowStatus ==
    ASSUME NEW row \in Row, NEW s \in Stages \cup {"none"}
    PROVE  [row EXCEPT !.status = s] \in Row
BY DEF Row

\* ... also when the answer about the profile changes.
LEMMA RowStatusShare ==
    ASSUME NEW row \in Row, NEW s \in Stages \cup {"none"}, NEW share \in BOOLEAN
    PROVE  [row EXCEPT !.status = s, !.share = share] \in Row
BY DEF Row

\* ... and when the prospect becomes a buddy.
LEMMA RowBuddy ==
    ASSUME NEW row \in Row, NEW buddy \in BOOLEAN
    PROVE  [row EXCEPT !.buddy = buddy] \in Row
BY DEF Row

\* The row that does not exist has the shape of a row.
LEMMA NoRowType == NoRow \in Row
BY DEF NoRow, Row

\* Every entry of matches is a row.
LEMMA MatchRow ==
    ASSUME TypeOK, NEW p \in Pairs
    PROVE  match[p] \in Row
BY DEF TypeOK

\* Following an invitation link keeps the types.
LEMMA CreateBuddyMatchType ==
    ASSUME TypeOK, NEW r \in Requests, NEW u \in Users, NEW e \in Estates,
           CreateBuddyMatch(r, u, e)
    PROVE  TypeOK'
<1>1. <<u, e>> \in Pairs
  BY DEF Pairs
<1>2. [match[<<u, e>>] EXCEPT !.buddy = TRUE] \in Row
  BY <1>1, MatchRow, RowBuddy
<1>3. [status |-> "new", share |-> FALSE, buddy |-> TRUE] \in Row
  BY DEF Row, Stages
<1>4. match' \in [Pairs -> Row]
  BY <1>1, <1>2, <1>3 DEF CreateBuddyMatch, TypeOK
<1>. QED
  BY <1>4, EndType DEF CreateBuddyMatch, TypeOK, pipelineVars, estateVars, finalVars

\* So does a knock.
LEMMA KnockType ==
    ASSUME TypeOK, NEW r \in Requests, NEW u \in Users, NEW e \in Estates,
           StoreKnock(r, u, e)
    PROVE  TypeOK'
<1>1. \A p \in Pairs : [match[p] EXCEPT !.status = "knock"] \in Row
  BY MatchRow, RowStatus DEF Stages
<1>2. match' \in [Pairs -> Row]
  BY <1>1, MatchRow DEF StoreKnock
<1>. QED
  BY <1>2, EndType DEF StoreKnock, TypeOK, estateVars, finalVars

\* So does taking it back.
LEMMA CancelKnockType ==
    ASSUME TypeOK, NEW r \in Requests, NEW u \in Users, NEW e \in Estates,
           StoreCancelKnock(r, u, e)
    PROVE  TypeOK'
<1>1. <<u, e>> \in Pairs /\ BuildingOf(u, e) \subseteq Pairs
  BY TablesAssumption DEF BuildingOf, Pairs
<1>2. match' \in [Pairs -> Row]
  BY <1>1, NoRowType DEF StoreCancelKnock, TypeOK
<1>. QED
  BY <1>1, <1>2, EndType DEF StoreCancelKnock, TypeOK, estateVars, finalVars

\* So does the move of a prospect to another unit.
LEMMA MoveType ==
    ASSUME TypeOK, NEW r \in Requests, NEW u \in Users, NEW e \in Estates,
           StoreMove(r, u, e)
    PROVE  TypeOK'
<1>1. \A p \in Pairs : [match[p] EXCEPT !.status = "knock"] \in Row
  BY MatchRow, RowStatus DEF Stages
<1>2. match' \in [Pairs -> Row]
  BY <1>1, MatchRow, NoRowType DEF StoreMove, TypeOK
<1>. QED
  BY <1>2, EndType DEF StoreMove, TypeOK, pipelineVars, estateVars, finalVars

\* So does an invitation, with or without appointments.
LEMMA InviteType ==
    ASSUME TypeOK, NEW r \in Requests, NEW u \in Users, NEW e \in Estates,
           StoreInvite(r, u, e)
    PROVE  TypeOK'
<1>1. req[r] \in Call
  BY ServingType DEF StoreInvite
<1>2. (req[r].flag /\ e \in NotShown) \in BOOLEAN
  OBVIOUS
<1>3. (IF e \in NotShown THEN "top" ELSE "invite") \in Stages \cup {"none"}
  BY DEF Stages
<1>4. \A p \in Pairs : [match[p] EXCEPT !.status = IF e \in NotShown THEN "top" ELSE "invite",
                                        !.share = req[r].flag /\ e \in NotShown] \in Row
  BY <1>2, <1>3, MatchRow, RowStatusShare
<1>5. match' \in [Pairs -> Row]
  BY <1>4, MatchRow, NoRowType DEF StoreInvite, TypeOK
<1>6. task' \in [Pairs -> TaskStatus]
  <2>1. task' = task \/ task' = WithTask(u, e)
    BY DEF StoreInvite
  <2>. QED
    BY <2>1, WithTaskType DEF TypeOK
<1>. QED
  BY <1>5, <1>6, EndType DEF StoreInvite, TypeOK, pipelineVars, estateVars

\* So does a booking.
LEMMA StoreVisitType ==
    ASSUME TypeOK, NEW r \in Requests, NEW u \in Users, NEW e \in Estates,
           StoreVisit(r, u, e)
    PROVE  TypeOK'
<1>1. req[r].slot \in Slots \cup {None}
  BY ServingType DEF StoreVisit, Call
<1>2. visit' \in [Pairs -> Slots \cup {None}]
  BY <1>1 DEF StoreVisit, TypeOK
<1>3. match' \in [Pairs -> Row]
  BY WithStatusType DEF StoreVisit, TypeOK, Stages
<1>. QED
  BY <1>2, <1>3, EndType DEF StoreVisit, TypeOK, estateVars, finalVars

\* So does what an administrator takes back.
LEMMA CancelActionType ==
    ASSUME TypeOK, NEW r \in Requests, NEW u \in Users, NEW e \in Estates,
           StoreCancelAction(r, u, e)
    PROVE  TypeOK'
<1>1. \A p \in Pairs : [match[p] EXCEPT !.status = "new"] \in Row
  BY MatchRow, RowStatus DEF Stages
<1>2. match' \in [Pairs -> Row]
  BY <1>1, MatchRow DEF StoreCancelAction
<1>3. likes' \subseteq likes /\ dislikes' \subseteq dislikes
  BY DEF StoreCancelAction
<1>. QED
  BY <1>2, <1>3, EndType DEF StoreCancelAction, TypeOK, estateVars, finalVars

\* So does every store step.
LEMMA StoreType ==
    ASSUME TypeOK, NEW r \in Requests, NEW u \in Users, NEW e \in Estates,
           StoreStep(r, u, e)
    PROVE  TypeOK'
<1>p. <<u, e>> \in Pairs /\ BuildingOf(u, e) \subseteq Pairs
  BY TablesAssumption DEF BuildingOf, Pairs
<1>s. \A s \in Stages \cup {"none"} : WithStatus(u, e, s) \in [Pairs -> Row]
  BY WithStatusType
<1>1. CASE CreateBuddyMatch(r, u, e)
  BY <1>1, CreateBuddyMatchType
<1>2. CASE StoreKnock(r, u, e)
  BY <1>2, KnockType
<1>3. CASE StoreCancelKnock(r, u, e)
  BY <1>3, CancelKnockType
<1>4. CASE StoreMove(r, u, e)
  BY <1>4, MoveType
<1>5. CASE StoreInvite(r, u, e)
  BY <1>5, InviteType
<1>6. CASE StoreCancelInvite(r, u, e)
  <2>1. match' \in [Pairs -> Row]
    BY <1>6, <1>s DEF StoreCancelInvite, Stages
  <2>. QED
    BY <1>6, <2>1, EndType DEF StoreCancelInvite, TypeOK, pipelineVars, estateVars, finalVars
<1>7. CASE StoreVisit(r, u, e)
  BY <1>7, StoreVisitType
<1>8. CASE StoreCancelVisit(r, u, e)
  <2>1. match' \in [Pairs -> Row]
    BY <1>8, <1>s DEF StoreCancelVisit, Stages
  <2>2. visit' \in [Pairs -> Slots \cup {None}]
    BY <1>8 DEF StoreCancelVisit, TypeOK
  <2>. QED
    BY <1>8, <2>1, <2>2, EndType DEF StoreCancelVisit, TypeOK, estateVars, finalVars
<1>9. CASE LandlordDeletesVisit(r, u, e)
  <2>1. visit' \in [Pairs -> Slots \cup {None}]
    BY <1>9 DEF LandlordDeletesVisit, TypeOK
  <2>2. req' \in [Requests -> Call \cup {Idle}]
    BY <1>9, ServingType, DoneType DEF LandlordDeletesVisit
  <2>. QED
    BY <1>9, <2>1, <2>2 DEF LandlordDeletesVisit, TypeOK, estateVars, finalVars
<1>10. CASE LandlordMovesToInvite(r, u, e)
  <2>1. match' \in [Pairs -> Row]
    BY <1>10, <1>s DEF LandlordMovesToInvite, Stages
  <2>2. req' \in [Requests -> Call \cup {Idle}]
    BY <1>10, ServingType, DoneType DEF LandlordMovesToInvite
  <2>. QED
    BY <1>10, <2>1, <2>2 DEF LandlordMovesToInvite, TypeOK, pipelineVars, estateVars, finalVars
<1>11. CASE StoreShare(r, u, e)
  <2>1. [match[<<u, e>>] EXCEPT !.status = "share", !.share = TRUE] \in Row
    BY <1>p, MatchRow, RowStatusShare DEF Stages
  <2>2. match' \in [Pairs -> Row]
    BY <1>11, <2>1, <1>p DEF StoreShare, TypeOK
  <2>. QED
    BY <1>11, <2>2, EndType DEF StoreShare, TypeOK, pipelineVars, estateVars, finalVars
<1>12. CASE StoreCancelShare(r, u, e)
  <2>1. [match[<<u, e>>] EXCEPT !.status = "visit", !.share = FALSE] \in Row
    BY <1>p, MatchRow, RowStatusShare DEF Stages
  <2>2. match' \in [Pairs -> Row]
    BY <1>12, <2>1, <1>p DEF StoreCancelShare, TypeOK
  <2>. QED
    BY <1>12, <2>2, EndType DEF StoreCancelShare, TypeOK, pipelineVars, estateVars, finalVars
<1>13. CASE StoreRemoveFromTop(r, u, e)
  <2>1. match' \in [Pairs -> Row]
    BY <1>13, <1>s DEF StoreRemoveFromTop, Stages
  <2>. QED
    BY <1>13, <2>1, EndType DEF StoreRemoveFromTop, TypeOK, pipelineVars, estateVars, finalVars
<1>14. CASE CancelTopMatch(r, u, e)
  <2>1. match' \in [Pairs -> Row]
    BY <1>14, <1>p, NoRowType DEF CancelTopMatch, TypeOK
  <2>2. req' \in [Requests -> Call \cup {Idle}]
    BY <1>14, ServingType, DoneType DEF CancelTopMatch
  <2>. QED
    BY <1>14, <2>1, <2>2 DEF CancelTopMatch, TypeOK, pipelineVars, estateVars, finalVars
<1>15. CASE CancelTopVisit(r, u, e)
  <2>1. visit' \in [Pairs -> Slots \cup {None}]
    BY <1>15 DEF CancelTopVisit, TypeOK
  <2>2. req' \in [Requests -> Call \cup {Idle}]
    BY <1>15, ServingType, DoneType DEF CancelTopVisit
  <2>. QED
    BY <1>15, <2>1, <2>2 DEF CancelTopVisit, TypeOK, estateVars, finalVars
<1>16. CASE CancelTopDislike(r, u, e)
  <2>1. likes' \subseteq Pairs /\ dislikes' \subseteq Pairs
    BY <1>16, <1>p DEF CancelTopDislike, TypeOK
  <2>2. req' \in [Requests -> Call \cup {Idle}]
    BY <1>16, ServingType, DoneType DEF CancelTopDislike
  <2>. QED
    BY <1>16, <2>1, <2>2 DEF CancelTopDislike, TypeOK, estateVars, finalVars
<1>17. CASE StoreCancelAction(r, u, e)
  BY <1>17, CancelActionType
<1>. QED
  BY <1>1, <1>2, <1>3, <1>4, <1>5, <1>6, <1>7, <1>8, <1>9, <1>10, <1>11, <1>12,
     <1>13, <1>14, <1>15, <1>16, <1>17 DEF StoreStep
-----------------------------------------------------------------------------
(* Matching, the calendar and the market.                                  *)

\* So does the computation of NEW matches.
LEMMA MatchingType ==
    ASSUME TypeOK, NEW r \in Requests, MatchingStep(r)
    PROVE  TypeOK'
<1>1. CASE \E u \in Users : \E found \in SUBSET Candidates(u) : SearchEstates(r, u, found)
  <2>1. PICK u \in Users, found \in SUBSET Estates : SearchEstates(r, u, found)
    BY <1>1 DEF Candidates
  <2>2. PICK c \in Call : c = NewCall("matchByUser", u, None)
    BY NewCallType DEF Handlers
  <2>3. Begin(r, [c EXCEPT !.estates = found])
    BY <2>1, <2>2 DEF SearchEstates
  <2>4. [c EXCEPT !.estates = found] \in Call
    BY DEF Call
  <2>. QED
    BY <2>3, <2>4, BeginType
<1>2. CASE \E u \in Users : CreateNewMatches(r, u)
  <2>1. PICK u \in Users : CreateNewMatches(r, u)
    BY <1>2
  <2>2. \A p \in Pairs : [match[p] EXCEPT !.status = "new"] \in Row
    BY MatchRow, RowStatus DEF Stages
  <2>3. match' \in [Pairs -> Row]
    BY <2>1, <2>2, MatchRow, NoRowType DEF CreateNewMatches
  <2>. QED
    BY <2>1, <2>3, EndType DEF CreateNewMatches, TypeOK, pipelineVars, estateVars, finalVars
<1>3. CASE \E e \in Estates : \E found \in SUBSET Users : ScoreTenants(r, e, found)
  <2>1. PICK e \in Estates, found \in SUBSET Users : ScoreTenants(r, e, found)
    BY <1>3
  <2>2. PICK c \in Call : c = NewCall("matchByEstate", None, e)
    BY NewCallType DEF Handlers
  <2>3. Begin(r, [c EXCEPT !.pairs = found \X {e}, !.todo = {"match"}])
    BY <2>1, <2>2 DEF ScoreTenants
  <2>4. found \X {e} \subseteq Pairs
    BY DEF Pairs
  <2>5. [c EXCEPT !.pairs = found \X {e}, !.todo = {"match"}] \in Call
    BY <2>4 DEF Call, Writes
  <2>. QED
    BY <2>3, <2>5, BeginType
<1>4. CASE \E e \in Estates : DeleteNewMatches(r, e)
  <2>1. PICK e \in Estates : DeleteNewMatches(r, e)
    BY <1>4
  <2>2. match' \in [Pairs -> Row]
    BY <2>1, MatchRow, NoRowType DEF DeleteNewMatches
  <2>3. req[r] \in Call
    BY <2>1, ServingType DEF DeleteNewMatches
  <2>4. [req[r] EXCEPT !.todo = {}] \in Call
    BY <2>3 DEF Call
  <2>5. req' \in [Requests -> Call \cup {Idle}]
    BY <2>1, <2>4 DEF DeleteNewMatches, TypeOK
  <2>. QED
    BY <2>1, <2>2, <2>5 DEF DeleteNewMatches, TypeOK, pipelineVars, estateVars, finalVars
<1>5. CASE \E e \in Estates : InsertNewMatches(r, e)
  <2>1. PICK e \in Estates : InsertNewMatches(r, e)
    BY <1>5
  <2>2. [NoRow EXCEPT !.status = "new"] \in Row
    BY NoRowType, RowStatus DEF Stages
  <2>3. match' \in [Pairs -> Row]
    BY <2>1, <2>2, MatchRow DEF InsertNewMatches
  <2>. QED
    BY <2>1, <2>3, EndType DEF InsertNewMatches, TypeOK, pipelineVars, estateVars, finalVars
<1>6. CASE \E u \in Users : FindOldMatches(r, u)
  <2>1. PICK u \in Users : FindOldMatches(r, u)
    BY <1>6
  <2>2. PICK c \in Call : c = req[r]
    BY <2>1, ServingType DEF FindOldMatches
  <2> DEFINE old == {p \in {u} \X (Estates \ req[r].estates) :
                        match[p].status = "new" /\ ~match[p].buddy}
  <2>3. req' = [req EXCEPT ![r].op = "newMatches", ![r].pairs = old]
    BY <2>1 DEF FindOldMatches
  <2>4. old \subseteq Pairs
    BY DEF Pairs
  <2> HIDE DEF old
  <2>5. [c EXCEPT !.op = "newMatches", !.pairs = old] \in Call
    BY <2>4 DEF Call, Handlers
  <2>6. req' \in [Requests -> Call \cup {Idle}]
    BY <2>2, <2>3, <2>5 DEF TypeOK
  <2>. QED
    BY <2>1, <2>6 DEF FindOldMatches, TypeOK, tables, pipelineVars, estateVars, finalVars
<1>. QED
  BY <1>1, <1>2, <1>3, <1>4, <1>5, <1>6 DEF MatchingStep

\* The visits that go with a unit.
LEMMA VisitsType ==
    ASSUME TypeOK, NEW pairs, VisitsToInvites(pairs)
    PROVE  match' \in [Pairs -> Row] /\ visit' \in [Pairs -> Slots \cup {None}]
<1>1. \A p \in Pairs : [match[p] EXCEPT !.status = "invite"] \in Row
  BY MatchRow, RowStatus DEF Stages
<1>2. match' \in [Pairs -> Row]
  BY <1>1, MatchRow DEF VisitsToInvites
<1>3. visit' \in [Pairs -> Slots \cup {None}]
  BY DEF VisitsToInvites, TypeOK
<1>. QED
  BY <1>2, <1>3

\* A calendar without a unit is a calendar.
LEMMA WithoutSlotType ==
    ASSUME TypeOK, NEW estates, NEW s
    PROVE  WithoutSlot(estates, s) \in [Estates -> SUBSET Slots]
BY DEF WithoutSlot, TypeOK

\* The operations of the calendar keep the types.
LEMMA CalendarType ==
    ASSUME TypeOK, NEW e \in Estates, CalendarStep(e)
    PROVE  TypeOK'
<1>1. PICK s \in Slots :
          \/ CreateSlot(e, s)
          \/ \E r \in Requests :
                \/ RemoveSlot(r, e, s)
                \/ \E relength \in BOOLEAN : UpdateSlot(r, e, s, relength)
  BY DEF CalendarStep
<1>2. CASE CreateSlot(e, s)
  BY <1>2 DEF CreateSlot, Served, TypeOK, estateVars, finalVars
<1>3. CASE \E r \in Requests : RemoveSlot(r, e, s)
  <2>1. PICK r \in Requests : RemoveSlot(r, e, s)
    BY <1>3
  <2>2. PICK c \in Call : c = NewCall("removeSlot", None, e)
    BY NewCallType DEF Handlers
  <2>3. Begin(r, [c EXCEPT !.slot = s, !.estates = Offering(e, s),
                           !.pairs = BookedAt(Offering(e, s), s)])
    BY <2>1, <2>2 DEF RemoveSlot
  <2>4. Offering(e, s) \subseteq Estates
    BY TablesAssumption DEF Offering
  <2>5. BookedAt(Offering(e, s), s) \subseteq Pairs
    BY <2>4 DEF BookedAt, Pairs
  <2>6. [c EXCEPT !.slot = s, !.estates = Offering(e, s),
                  !.pairs = BookedAt(Offering(e, s), s)] \in Call
    BY <2>4, <2>5 DEF Call
  <2>. QED
    BY <2>3, <2>6, BeginType
<1>4. CASE \E r \in Requests : \E relength \in BOOLEAN : UpdateSlot(r, e, s, relength)
  <2>1. PICK r \in Requests, relength \in BOOLEAN : UpdateSlot(r, e, s, relength)
    BY <1>4
  <2>2. PICK c \in Call : c = NewCall("updateSlot", None, e)
    BY NewCallType DEF Handlers
  <2> DEFINE pairs == {p \in BookedAt({e}, s) : match[p].status = "visit"}
             estates == Offering(e, s)
  <2>3. Begin(r, [c EXCEPT !.slot = s, !.flag = relength, !.estates = estates,
                           !.pairs = pairs])
    BY <2>1, <2>2 DEF UpdateSlot
  <2>4. estates \subseteq Estates
    BY TablesAssumption DEF Offering
  <2>5. pairs \subseteq Pairs
    BY DEF BookedAt, Pairs
  <2> HIDE DEF pairs, estates
  <2>6. [c EXCEPT !.slot = s, !.flag = relength, !.estates = estates, !.pairs = pairs] \in Call
    BY <2>4, <2>5 DEF Call
  <2>. QED
    BY <2>3, <2>6, BeginType
<1>. QED
  BY <1>1, <1>2, <1>3, <1>4

\* So do the removal and the update of a slot.
LEMMA StoreSlotType ==
    ASSUME TypeOK, NEW r \in Requests, NEW e \in Estates,
           StoreRemoveSlot(r, e) \/ StoreUpdateSlot(r, e)
    PROVE  TypeOK'
<1>1. CASE StoreRemoveSlot(r, e)
  BY <1>1, VisitsType, WithoutSlotType, EndType
     DEF StoreRemoveSlot, TypeOK, estateVars, finalVars
<1>2. CASE StoreUpdateSlot(r, e)
  <2>1. slots' \in [Estates -> SUBSET Slots]
    <3>1. slots' = slots \/ slots' = WithoutSlot(req[r].estates, req[r].slot)
      BY <1>2 DEF StoreUpdateSlot
    <3>. QED
      BY <3>1, WithoutSlotType DEF TypeOK
  <2>. QED
    BY <1>2, <2>1, VisitsType, EndType DEF StoreUpdateSlot, TypeOK, estateVars, finalVars
<1>. QED
  BY <1>1, <1>2

\* So does every step of MatchFlow.
LEMMA FlowType ==
    ASSUME TypeOK, FlowNext
    PROVE  TypeOK'
BY TransactionalType, CheckType, StoreType, MatchingType, CalendarType, StoreSlotType
   DEF FlowNext

\* So does every step of EstateMarket.
LEMMA MarketType ==
    ASSUME TypeOK, MarketNext
    PROVE  TypeOK'
<1>1. PICK e \in Estates :
          \/ Extend(e) \/ OffMarketPublish(e) \/ Deactivate(e)
          \/ \E r \in Requests :
                \/ \E retain \in BOOLEAN : Publish(r, e, retain)
                \/ StorePublish(r, e)
                \/ Unpublish(r, e) \/ StoreUnpublish(r, e)
  BY DEF MarketNext
<1>2. CASE Extend(e)
  BY <1>2 DEF Extend, Served, TypeOK, EstateStatus, pipelineVars, finalVars
<1>3. CASE OffMarketPublish(e)
  BY <1>3 DEF OffMarketPublish, Served, TypeOK, EstateStatus, pipelineVars, finalVars
<1>4. CASE Deactivate(e)
  <2>1. match' \in [Pairs -> Row]
    BY <1>4, MatchRow, NoRowType DEF Deactivate
  <2>2. visit' \in [Pairs -> Slots \cup {None}]
    BY <1>4 DEF Deactivate, TypeOK
  <2>3. likes' \subseteq Pairs /\ dislikes' \subseteq Pairs
    BY <1>4 DEF Deactivate, OfOtherEstates, TypeOK
  <2>. QED
    BY <1>4, <2>1, <2>2, <2>3 DEF Deactivate, Served, TypeOK, EstateStatus, finalVars
<1>5. CASE \E r \in Requests : \E retain \in BOOLEAN : Publish(r, e, retain)
  <2>1. PICK r \in Requests, retain \in BOOLEAN : Publish(r, e, retain)
    BY <1>5
  <2>2. PICK c \in Call : c = NewCall("publish", None, e)
    BY NewCallType DEF Handlers
  <2>3. Begin(r, [c EXCEPT !.flag = retain])
    BY <2>1, <2>2 DEF Publish
  <2>4. [c EXCEPT !.flag = retain] \in Call
    BY CallFlag
  <2>. QED
    BY <2>3, <2>4, BeginType
<1>6. CASE \E r \in Requests : StorePublish(r, e)
  <2>1. PICK r \in Requests : StorePublish(r, e)
    BY <1>6
  <2>2. match' \in [Pairs -> Row]
    BY <2>1, MatchRow, NoRowType DEF StorePublish, TypeOK
  <2>3. likes' \subseteq Pairs /\ dislikes' \subseteq Pairs
    BY <2>1 DEF StorePublish, OfOtherEstates, TypeOK
  <2>. QED
    BY <2>1, <2>2, <2>3, EndType DEF StorePublish, TypeOK, EstateStatus, finalVars
<1>7. CASE \E r \in Requests : Unpublish(r, e)
  <2>1. PICK r \in Requests : Unpublish(r, e)
    BY <1>7
  <2>2. PICK c \in Call : c = NewCall("unpublish", None, e)
    BY NewCallType DEF Handlers
  <2>3. PICK isLet \in BOOLEAN : Begin(r, [c EXCEPT !.flag = isLet])
    BY <2>1, <2>2 DEF Unpublish
  <2>4. [c EXCEPT !.flag = isLet] \in Call
    BY CallFlag
  <2>. QED
    BY <2>3, <2>4, BeginType
<1>8. CASE \E r \in Requests : StoreUnpublish(r, e)
  <2>1. PICK r \in Requests : StoreUnpublish(r, e)
    BY <1>8
  <2>. QED
    BY <2>1, EndType DEF StoreUnpublish, TypeOK, EstateStatus, pipelineVars, finalVars
<1>. QED
  BY <1>1, <1>2, <1>3, <1>4, <1>5, <1>6, <1>7, <1>8
-----------------------------------------------------------------------------
(* The final match.                                                        *)

\* A cancelled or expired COMMIT.
LEMMA CancelCommitType ==
    ASSUME TypeOK, NEW u \in Users, NEW e \in Estates, CancelCommit(u, e),
           req' \in [Requests -> Call \cup {Idle}]
    PROVE  TypeOK'
<1>1. match' = match \/ match' = WithStatus(u, e, "top")
  BY DEF CancelCommit
<1>2. match' \in [Pairs -> Row]
  BY <1>1, WithStatusType DEF TypeOK, Stages
<1>. QED
  BY <1>2 DEF CancelCommit, TypeOK, pipelineVars, estateVars

\* Archived tasks are tasks.
LEMMA ArchivedTasksType ==
    ASSUME TypeOK, NEW u \in Users, NEW e \in Estates
    PROVE  ArchivedTasks(u, e) \in [Pairs -> TaskStatus]
BY DEF ArchivedTasks, TypeOK, TaskStatus

\* An estate that is let keeps the types.
LEMMA RentedType ==
    ASSUME TypeOK, NEW e \in Estates, Rented(e)
    PROVE  status' \in [Estates -> EstateStatus] /\ let' \subseteq Estates
BY DEF Rented, TypeOK, EstateStatus

\* Seats keep their shape.
LEMMA SeatUpdates ==
    ASSUME NEW s \in Seat, NEW u \in Users \cup {None}
    PROVE  /\ [s EXCEPT !.live = FALSE] \in Seat
           /\ [s EXCEPT !.code = TRUE] \in Seat
           /\ [s EXCEPT !.code = FALSE] \in Seat
           /\ [s EXCEPT !.user = u, !.code = FALSE] \in Seat
BY DEF Seat

\* The transaction of the final match keeps the types.
LEMMA HandleFinalMatchType ==
    ASSUME TypeOK, NEW r \in Requests, NEW u \in Users, NEW e \in Estates, NEW i \in Rows,
           HandleFinalMatch(r, u, e, i)
    PROVE  TypeOK'
<1>1. match' = match \/ match' = WithStatus(u, e, "finish")
  BY DEF HandleFinalMatch
<1>2. match' \in [Pairs -> Row]
  BY <1>1, WithStatusType DEF TypeOK, Stages
<1>3. task' \in [Pairs -> TaskStatus]
  BY ArchivedTasksType DEF HandleFinalMatch
<1>4. SeatOf(u, e) \in Seat
  BY DEF SeatOf, Seat
<1>5. \A j \in Rows : seat[j] \in Seat /\ [seat[j] EXCEPT !.live = FALSE] \in Seat
  BY SeatUpdates DEF TypeOK
<1>6. seat' \in [Rows -> Seat]
  BY <1>4, <1>5 DEF HandleFinalMatch
<1>. QED
  BY <1>2, <1>3, <1>6, RentedType, EndType DEF HandleFinalMatch, TypeOK, pipelineVars

\* So does every step of FinalMatch.
LEMMA FinalType ==
    ASSUME TypeOK, FinalNext
    PROVE  TypeOK'
<1>1. PICK u \in Users, e \in Estates :
          TenantCancelCommit(u, e) \/ \E r \in Requests : FinalStep(r, u, e)
  BY DEF FinalNext
<1>u. u \in Users \cup {None} /\ e \in Estates \cup {None}
  OBVIOUS
<1>2. CASE TenantCancelCommit(u, e)
  BY <1>2, CancelCommitType DEF TenantCancelCommit, Served, TypeOK
<1>3. ASSUME NEW r \in Requests, FinalStep(r, u, e) PROVE TypeOK'
  <2>1. CASE RequestUserCommit(r, u, e)
    BY <2>1, <1>u, BeginFresh DEF RequestUserCommit, Handlers
  <2>2. CASE RequestFinalConfirm(r, u, e)
    <3>1. match' = match \/ match' = WithStatus(u, e, "commit")
      BY <2>2 DEF RequestFinalConfirm
    <3>2. match' \in [Pairs -> Row]
      BY <3>1, WithStatusType DEF TypeOK, Stages
    <3>. QED
      BY <2>2, <3>2, EndType DEF RequestFinalConfirm, TypeOK, pipelineVars, estateVars
  <2>3. CASE FindExpiredCommit(r, u, e)
    BY <2>3, <1>u, BeginFresh DEF FindExpiredCommit, Handlers
  <2>4. CASE MoveExpiredFinalConfirmToTop(r, u, e)
    BY <2>4, EndType, CancelCommitType DEF MoveExpiredFinalConfirmToTop
  <2>5. CASE FinalConfirm(r, u, e)
    BY <2>5, <1>u, BeginFresh DEF FinalConfirm, Handlers
  <2>6. CASE \E i \in Rows : HandleFinalMatch(r, u, e, i)
    BY <2>6, HandleFinalMatchType
  <2>. QED
    BY <1>3, <2>1, <2>2, <2>3, <2>4, <2>5, <2>6 DEF FinalStep
<1>. QED
  BY <1>1, <1>2, <1>3

-----------------------------------------------------------------------------
(* Current tenants.                                                        *)

\* Every entry of estate_current_tenants is a seat.
LEMMA SeatRow ==
    ASSUME TypeOK, NEW i \in Rows
    PROVE  seat[i] \in Seat
BY DEF TypeOK

\* An inserted row is a seat.
LEMMA InsertType ==
    ASSUME TypeOK, NEW i \in Rows, NEW e \in Estates, Insert(i, e)
    PROVE  seat' \in [Rows -> Seat]
<1>1. [NoSeat EXCEPT !.estate = e, !.live = TRUE] \in Seat
  BY DEF NoSeat, Seat
<1>. QED
  BY <1>1 DEF Insert, TypeOK

\* A handler that names a row of the table.
LEMMA BeginRow ==
    ASSUME TypeOK, NEW r \in Requests, NEW op \in Handlers,
           NEW u \in Users \cup {None}, NEW e \in Estates, NEW i \in Rows,
           Begin(r, [NewCall(op, u, e) EXCEPT !.row = i])
    PROVE  TypeOK'
<1>1. PICK c \in Call : c = NewCall(op, u, e)
  BY NewCallType
<1>2. [c EXCEPT !.row = i] \in Call
  BY DEF Call
<1>. QED
  BY <1>1, <1>2, BeginType

\* The operations of the landlord on a row keep the types.
LEMMA LandlordType ==
    ASSUME TypeOK, NEW r \in Requests, NEW e \in Estates, NEW i \in Rows,
           LandlordStep(r, e, i)
    PROVE  TypeOK'
<1>n. None \in Users \cup {None}
  OBVIOUS
<1>1. CASE StoreSingleInvitation(r, e, i)
  <2>1. seat' \in [Rows -> Seat]
    BY <1>1, InsertType DEF StoreSingleInvitation, TypeOK
  <2>2. req[r] \in Call
    BY <1>1, ServingType DEF StoreSingleInvitation
  <2>3. [req[r] EXCEPT !.op = "findInvitee", !.row = i] \in Call
    BY <2>2 DEF Call, Handlers
  <2>4. req' \in [Requests -> Call \cup {Idle}]
    BY <1>1, <2>3 DEF StoreSingleInvitation, TypeOK
  <2>. QED
    BY <1>1, <2>1, <2>4, RentedType DEF StoreSingleInvitation, TypeOK, pipelineVars
<1>2. CASE InviteTenantToApp(r, e, i)
  BY <1>2, <1>n, BeginRow DEF InviteTenantToApp, Handlers
<1>3. CASE RevokeInvitation(r, e, i)
  BY <1>3, <1>n, BeginRow DEF RevokeInvitation, Handlers
<1>4. CASE Disconnect(r, e, i)
  <2>1. seat[i].user \in Users \cup {None}
    BY SeatRow DEF Seat
  <2>. QED
    BY <1>4, <2>1, BeginRow DEF Disconnect, Handlers
<1>5. CASE Expire(r, e, i)
  BY <1>5, <1>n, BeginRow DEF Expire, Handlers
<1>6. CASE HandleDelete(r, e, i)
  BY <1>6, <1>n, BeginRow DEF HandleDelete, Handlers
<1>. QED
  BY <1>1, <1>2, <1>3, <1>4, <1>5, <1>6 DEF LandlordStep

\* So does the acceptance of an invitation.
LEMMA StoreAcceptType ==
    ASSUME TypeOK, NEW r \in Requests, NEW u \in Users, NEW e \in Estates,
           StoreAccept(r, u, e)
    PROVE  TypeOK'
<1>1. CASE UNCHANGED <<match, task, estateVars, seat>>
  BY <1>1, EndType DEF StoreAccept, TypeOK, pipelineVars, estateVars
<1>2. CASE ~(req[r].stage = "none" /\ Exists(u, e))
  <2>1. [match[<<u, e>>] EXCEPT !.status = "finish"] \in Row
    BY MatchRow, RowStatus DEF Pairs, Stages
  <2>2. match' \in [Pairs -> Row]
    BY <1>2, <2>1 DEF StoreAccept, TypeOK, Pairs
  <2>3. task' \in [Pairs -> TaskStatus]
    BY <1>2, ArchivedTasksType DEF StoreAccept
  <2>4. status' \in [Estates -> EstateStatus] /\ let' \subseteq Estates
    BY <1>2, RentedType DEF StoreAccept
  <2>5. \A j \in Rows : [seat[j] EXCEPT !.user = u, !.code = FALSE] \in Seat
    BY SeatRow, SeatUpdates
  <2>6. seat' = [seat EXCEPT ![req[r].row].user = u, ![req[r].row].code = FALSE]
    BY <1>2 DEF StoreAccept
  <2>7. seat' \in [Rows -> Seat]
    BY <2>5, <2>6 DEF TypeOK
  <2>. QED
    BY <2>2, <2>3, <2>4, <2>7, EndType DEF StoreAccept, TypeOK, pipelineVars
<1>. QED
  BY <1>1, <1>2 DEF StoreAccept

\* So do the store steps of invitations and tenants.
LEMMA InvitationType ==
    ASSUME TypeOK, NEW r \in Requests, NEW e \in Estates, InvitationStep(r, e)
    PROVE  TypeOK'
<1>s. \A i \in Rows : /\ [seat[i] EXCEPT !.live = FALSE] \in Seat
                      /\ [seat[i] EXCEPT !.code = TRUE] \in Seat
                      /\ [seat[i] EXCEPT !.code = FALSE] \in Seat
                      /\ [seat[i] EXCEPT !.user = None, !.code = FALSE] \in Seat
  BY SeatRow, SeatUpdates
<1>1. CASE SingleInvitation(r, e)
  BY <1>1, BeginFresh DEF SingleInvitation, Handlers
<1>2. CASE FindInvitee(r, e)
  <2>1. req[r] \in Call
    BY <1>2, ServingType DEF FindInvitee
  <2>2. [req[r] EXCEPT !.op = "sendLink"] \in Call
    BY <2>1 DEF Call, Handlers
  <2>3. req' \in [Requests -> Call \cup {Idle}]
    BY <1>2, <2>2 DEF FindInvitee, TypeOK
  <2>. QED
    BY <1>2, <2>3 DEF FindInvitee, TypeOK, tables, pipelineVars, estateVars, finalVars
<1>3. CASE CreateDynamicLink(r, e)
  <2>1. seat' \in [Rows -> Seat]
    BY <1>3, <1>s DEF CreateDynamicLink, TypeOK
  <2>. QED
    BY <1>3, <2>1, EndType DEF CreateDynamicLink, TypeOK, pipelineVars, estateVars
<1>4. CASE StoreRevokeInvitation(r, e)
  <2>1. seat' \in [Rows -> Seat]
    BY <1>4, <1>s DEF StoreRevokeInvitation, TypeOK
  <2>. QED
    BY <1>4, <2>1, EndType DEF StoreRevokeInvitation, TypeOK, pipelineVars, estateVars
<1>5. CASE StoreExpire(r, e)
  <2>1. seat' \in [Rows -> Seat]
    BY <1>5, <1>s DEF StoreExpire, TypeOK
  <2>. QED
    BY <1>5, <2>1, EndType DEF StoreExpire, TypeOK, pipelineVars, estateVars
<1>6. CASE StoreDelete(r, e)
  <2>1. seat' \in [Rows -> Seat]
    BY <1>6, <1>s DEF StoreDelete, TypeOK
  <2>. QED
    BY <1>6, <2>1, EndType DEF StoreDelete, TypeOK, pipelineVars
<1>7. CASE \E u \in Users : StoreAccept(r, u, e)
  BY <1>7, StoreAcceptType
<1>8. CASE \E u \in Users \cup {None} : StoreDisconnect(r, u, e)
  <2>1. PICK u \in Users \cup {None} : StoreDisconnect(r, u, e)
    BY <1>8
  <2>2. \A p \in Pairs : [match[p] EXCEPT !.status = "new"] \in Row
    BY MatchRow, RowStatus DEF Stages
  <2>3. match' \in [Pairs -> Row]
    BY <2>1, <2>2, MatchRow DEF StoreDisconnect
  <2>4. seat' \in [Rows -> Seat]
    BY <2>1, <1>s DEF StoreDisconnect, TypeOK
  <2>. QED
    BY <2>1, <2>3, <2>4, EndType DEF StoreDisconnect, TypeOK, pipelineVars, estateVars
<1>. QED
  BY <1>1, <1>2, <1>3, <1>4, <1>5, <1>6, <1>7, <1>8 DEF InvitationStep

\* So does every step of CurrentTenants.
LEMMA TenantType ==
    ASSUME TypeOK, TenantNext
    PROVE  TypeOK'
<1>1. PICK e \in Estates :
          \/ \E i \in Rows : AddCurrentTenant(e, i)
          \/ \E r \in Requests :
                \/ InvitationStep(r, e)
                \/ \E i \in Rows : LandlordStep(r, e, i)
                \/ \E u \in Users, i, j \in Rows : AcceptOutsideTenant(r, u, e, i, j)
  BY DEF TenantNext
<1>2. CASE \E i \in Rows : AddCurrentTenant(e, i)
  BY <1>2, InsertType DEF AddCurrentTenant, Served, TypeOK, pipelineVars, estateVars
<1>3. CASE \E r \in Requests : \E u \in Users, i, j \in Rows : AcceptOutsideTenant(r, u, e, i, j)
  <2>1. PICK r \in Requests, u \in Users, i \in Rows, j \in Rows :
            AcceptOutsideTenant(r, u, e, i, j)
    BY <1>3
  <2>2. PICK c \in Call : c = NewCall("accept", u, e)
    BY NewCallType DEF Handlers
  <2>3. StatusOf(u, e) \in Stages \cup {"none"}
    BY MatchRow DEF StatusOf, Pairs, Row
  <2>4. [c EXCEPT !.row = j, !.stage = StatusOf(u, e)] \in Call
    BY <2>3 DEF Call
  <2>. QED
    BY <2>1, <2>2, <2>4, BeginType DEF AcceptOutsideTenant
<1>. QED
  BY <1>1, <1>2, <1>3, InvitationType, LandlordType

-----------------------------------------------------------------------------
(* Type correctness of the whole.                                          *)

\* The initial state is well-typed.
LEMMA InitType ==
    ASSUME Init
    PROVE  TypeOK
BY NoRowType DEF Init, TypeOK, EstateStatus, TaskStatus, NoSeat, Seat

\* Every step keeps the types.
LEMMA NextType ==
    ASSUME TypeOK, [Next]_vars
    PROVE  TypeOK'
<1>1. CASE Next
  BY <1>1, FlowType, FinalType, TenantType, MarketType DEF Next
<1>2. CASE UNCHANGED vars
  BY <1>2 DEF TypeOK, vars, tables, pipelineVars, estateVars, finalVars
<1>. QED
  BY <1>1, <1>2

\* Every row, task, appointment and request in flight has its shape, whatever
\* handlers interleave: no handler stores a status that is not one.
THEOREM TypeCorrect == Spec => []TypeOK
<1>1. Init => TypeOK
  BY InitType
<1>2. TypeOK /\ [Next]_vars => TypeOK'
  BY NextType
<1>. QED
  BY <1>1, <1>2, PTL DEF Spec
=============================================================================
