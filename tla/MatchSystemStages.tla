------------------------- MODULE MatchSystemStages -------------------------
(***************************************************************************)
(* What holds of matches, likes and dislikes for any number of users,      *)
(* estates, slots and handlers in flight: how matches reach TOP, COMMIT    *)
(* and FINISH (every step is compared with StageStep), and that likes and  *)
(* dislikes never meet.                                                    *)
(***************************************************************************)
EXTENDS MatchSystemTypes

-----------------------------------------------------------------------------
(* How a step may change the stage of a match.                             *)

Early == {"none", "new", "knock", "invite", "visit", "share"}

\* The stages from TOP on are only reached from the one before, by a prospect
\* with a system task; COMMIT with the incomes marked as final, FINISH also by the
\* link of an invitation.  No system task disappears.
StageStep ==
    \A p \in Pairs :
        /\ match'[p].status = "top" => match[p].status \in {"top", "commit"} \/ task'[p] # "none"
        /\ match'[p].status = "commit" =>
              \/ match[p].status = "commit"
              \/ /\ match[p].status = "top" /\ p[1] \in finalIncome'
                 /\ \E r \in Requests : Serving(r, "commit", p[1], p[2])
        /\ match'[p].status = "finish" =>
              \/ match[p].status \in {"finish", "commit"}
              \/ /\ task'[p] # "none"
                 /\ \E r \in Requests : Serving(r, "accept", p[1], p[2])
        /\ task[p] # "none" => task'[p] # "none"

\* Steps that leave the tasks alone and lead to no stage from TOP on.
LEMMA EarlyStep ==
    ASSUME TypeOK, UNCHANGED task,
           \A p \in Pairs : match'[p].status = match[p].status \/ match'[p].status \in Early
    PROVE  StageStep
<1>1. \A p \in Pairs : match[p].status \in Stages \cup {"none"}
  BY MatchRow DEF Row
<1>. QED
  BY <1>1 DEF StageStep, Early, Stages

\* Steps that touch neither matches nor tasks.
LEMMA UnchangedStep ==
    ASSUME TypeOK, UNCHANGED <<match, task>>
    PROVE  StageStep
BY EarlyStep

\* Check steps touch neither.
LEMMA BeginStep ==
    ASSUME TypeOK, NEW r, NEW call, Begin(r, call)
    PROVE  StageStep
BY UnchangedStep DEF Begin, tables, finalVars

\* The stage of every row after an update of one of them.
LEMMA StatusAfter ==
    ASSUME TypeOK, NEW u \in Users, NEW e \in Estates, NEW s \in Stages \cup {"none"},
           NEW p \in Pairs
    PROVE  \/ WithStatus(u, e, s)[p].status = match[p].status
           \/ p = <<u, e>> /\ WithStatus(u, e, s)[p].status = s
BY DEF TypeOK, WithStatus, Exists, StatusOf, Row, Pairs

\* A row has the stage that it was given.
LEMMA StatusUpdate ==
    ASSUME NEW row \in Row, NEW s \in Stages \cup {"none"}
    PROVE  [row EXCEPT !.status = s].status = s
BY DEF Row

\* ... also when the answer about the profile changes.
LEMMA StatusShareUpdate ==
    ASSUME NEW row \in Row, NEW s \in Stages \cup {"none"}, NEW share \in BOOLEAN
    PROVE  [row EXCEPT !.status = s, !.share = share].status = s
BY DEF Row

\* An update of one row to a stage before TOP.
LEMMA EarlyUpdate ==
    ASSUME TypeOK, NEW u \in Users, NEW e \in Estates, NEW s \in Early,
           UNCHANGED task, match' = WithStatus(u, e, s) \/ match' = match
    PROVE  StageStep
<1>1. s \in Stages \cup {"none"}
  BY DEF Early, Stages
<1>2. ASSUME NEW p \in Pairs
      PROVE  match'[p].status = match[p].status \/ match'[p].status \in Early
  BY <1>1, StatusAfter
<1>. QED
  BY <1>2, EarlyStep

\* System tasks are created and archived, never removed.
LEMMA WithTaskStep ==
    ASSUME TypeOK, NEW u \in Users, NEW e \in Estates
    PROVE  /\ WithTask(u, e)[<<u, e>>] # "none"
           /\ \A p \in Pairs : task[p] # "none" => WithTask(u, e)[p] # "none"
BY DEF TypeOK, WithTask, Pairs

\* Archiving creates the task of the final tenant and removes none.
LEMMA ArchivedStep ==
    ASSUME TypeOK, NEW u \in Users, NEW e \in Estates
    PROVE  /\ ArchivedTasks(u, e)[<<u, e>>] # "none"
           /\ \A p \in Pairs : task[p] # "none" => ArchivedTasks(u, e)[p] # "none"
<1>1. <<u, e>> \in Pairs
  BY DEF Pairs
<1>2. WithTask(u, e)[<<u, e>>] # "none"
  BY WithTaskStep
<1>3. ArchivedTasks(u, e)[<<u, e>>] = "archived"
  BY <1>1, <1>2 DEF ArchivedTasks
<1>4. ASSUME NEW p \in Pairs, task[p] # "none"
      PROVE  ArchivedTasks(u, e)[p] # "none"
  BY <1>4 DEF ArchivedTasks
<1>. QED
  BY <1>3, <1>4

\* The operations that are one transaction.
LEMMA TransactionalStages ==
    ASSUME TypeOK, NEW u \in Users, NEW e \in Estates, TransactionalStep(u, e)
    PROVE  StageStep
<1>1. CASE AddLike(u, e) \/ RemoveLike(u, e) \/ AddDislike(u, e) \/ RemoveDislike(u, e)
  BY <1>1, UnchangedStep DEF AddLike, RemoveLike, AddDislike, RemoveDislike, finalVars
<1>2. CASE ToTop(u, e)
  <2>1. ASSUME NEW p \in Pairs
        PROVE  \/ match'[p].status = match[p].status
               \/ p = <<u, e>> /\ match'[p].status = "top"
    BY <1>2, StatusAfter DEF ToTop, Stages
  <2>2. /\ task'[<<u, e>>] # "none"
        /\ \A p \in Pairs : task[p] # "none" => task'[p] # "none"
    BY <1>2, WithTaskStep DEF ToTop
  <2>. QED
    BY <2>1, <2>2 DEF StageStep
<1>3. CASE \E answer \in BOOLEAN : RespondToSharing(u, e, answer)
  <2>1. PICK answer \in BOOLEAN : RespondToSharing(u, e, answer)
    BY <1>3
  <2>2. \A p \in Pairs : [match[p] EXCEPT !.share = answer].status = match[p].status
    BY MatchRow DEF Row
  <2>3. \A p \in Pairs : match'[p].status = match[p].status
    BY <2>1, <2>2 DEF RespondToSharing, TypeOK
  <2>. QED
    BY <2>1, <2>3, EarlyStep DEF RespondToSharing, finalVars
<1>. QED
  BY <1>1, <1>2, <1>3 DEF TransactionalStep

\* Check steps.
LEMMA CheckStages ==
    ASSUME TypeOK, NEW r \in Requests, NEW u \in Users, NEW e \in Estates,
           CheckStep(r, u, e)
    PROVE  StageStep
<1>1. UNCHANGED tables
  BY DEF CheckStep, AddBuddy, KnockEstate, CancelKnock, MoveToNewEstate, Invite, FindInvited,
         CancelInvite, BookTimeslot, CancelVisit, CancelVisitByLandlord, Share, CancelShare,
         RemoveFromTop, CancelTop, CancelAction, Begin
<1>. QED
  BY <1>1, UnchangedStep DEF tables, finalVars

\* An invitation leads to TOP only with a task.
LEMMA InviteStages ==
    ASSUME TypeOK, NEW r \in Requests, NEW u \in Users, NEW e \in Estates,
           StoreInvite(r, u, e)
    PROVE  StageStep
<1>1. CASE UNCHANGED <<match, task>>
  BY <1>1, UnchangedStep
<1>2. CASE ~(~req[r].flag /\ Exists(u, e))
  <2> DEFINE s == IF e \in NotShown THEN "top" ELSE "invite"
             share == req[r].flag /\ e \in NotShown
             row(p) == [match[p] EXCEPT !.status = s, !.share = share]
  <2>1. s \in Stages \cup {"none"} /\ share \in BOOLEAN
    BY DEF Stages
  <2>2. \A p \in Pairs : row(p).status = s
    BY <2>1, MatchRow, StatusShareUpdate
  <2>3. \A p \in Pairs : match'[p] \in {match[p], NoRow} \/ (p = <<u, e>> /\ match'[p] = row(p))
    BY <1>2 DEF StoreInvite
  <2> HIDE DEF row
  <2>4. \A p \in Pairs : \/ match'[p].status \in {match[p].status, "none"}
                         \/ p = <<u, e>> /\ match'[p].status = s
    BY <2>2, <2>3 DEF NoRow
  <2>5. CASE e \in NotShown
    <3>1. /\ task'[<<u, e>>] # "none"
          /\ \A p \in Pairs : task[p] # "none" => task'[p] # "none"
      BY <1>2, <2>5, WithTaskStep DEF StoreInvite
    <3>. QED
      BY <2>4, <2>5, <3>1 DEF StageStep
  <2>6. CASE e \notin NotShown
    <3>1. UNCHANGED task
      BY <1>2, <2>6 DEF StoreInvite
    <3>. QED
      BY <2>4, <2>6, <3>1, EarlyStep DEF Early
  <2>. QED
    BY <2>5, <2>6
<1>. QED
  BY <1>1, <1>2 DEF StoreInvite

\* The store steps of the pipeline.
LEMMA StoreStages ==
    ASSUME TypeOK, NEW r \in Requests, NEW u \in Users, NEW e \in Estates,
           StoreStep(r, u, e)
    PROVE  StageStep
<1>p. <<u, e>> \in Pairs
  BY DEF Pairs
<1>s. \A p \in Pairs, s \in Early : [match[p] EXCEPT !.status = s].status = s
  BY MatchRow, StatusUpdate DEF Early, Stages
<1>n. NoRow.status = "none"
  BY DEF NoRow
<1>1. CASE CreateBuddyMatch(r, u, e)
  <2>1. [match[<<u, e>>] EXCEPT !.buddy = TRUE].status = match[<<u, e>>].status
    BY <1>p, MatchRow DEF Row
  <2>2. \A p \in Pairs : match'[p].status \in {match[p].status, "new"}
    BY <1>1, <1>p, <2>1 DEF CreateBuddyMatch, TypeOK
  <2>. QED
    BY <1>1, <2>2, EarlyStep DEF CreateBuddyMatch, finalVars, Early
<1>2. CASE StoreKnock(r, u, e)
  <2>1. \A p \in Pairs : match'[p].status \in {match[p].status, "knock"}
    BY <1>2, <1>s DEF StoreKnock, Early
  <2>. QED
    BY <1>2, <2>1, EarlyStep DEF StoreKnock, finalVars, Early
<1>3. CASE StoreCancelKnock(r, u, e)
  <2>1. \A p \in Pairs : match'[p].status \in {match[p].status, "none"}
    BY <1>3, <1>n, <1>p DEF StoreCancelKnock, TypeOK
  <2>. QED
    BY <1>3, <2>1, EarlyStep DEF StoreCancelKnock, finalVars, Early
<1>4. CASE StoreMove(r, u, e)
  <2>1. ASSUME NEW p \in Pairs
        PROVE  match'[p] \in {match[p], NoRow, [match[p] EXCEPT !.status = "knock"]}
    <3>1. CASE UNCHANGED match
      BY <3>1
    <3>2. PICK f \in req[r].estates : ~UNCHANGED match =>
              match' = [q \in Pairs |->
                          IF q = <<u, e>> THEN NoRow
                          ELSE IF q = <<u, f>> /\ req[r].todo # {}
                                               /\ (req[r].flag => Exists(u, f))
                               THEN [match[q] EXCEPT !.status = "knock"]
                          ELSE match[q]]
      BY <1>4 DEF StoreMove
    <3>. QED
      BY <3>1, <3>2
  <2>2. ASSUME NEW p \in Pairs
        PROVE  match'[p].status \in {match[p].status, "none", "knock"}
    <3>1. [match[p] EXCEPT !.status = "knock"].status = "knock"
      BY MatchRow, StatusUpdate DEF Stages
    <3>. QED
      BY <2>1, <3>1, <1>n
  <2>. QED
    BY <1>4, <2>2, EarlyStep DEF StoreMove, finalVars, Early
<1>5. CASE StoreInvite(r, u, e)
  BY <1>5, InviteStages
<1>6. CASE StoreCancelInvite(r, u, e)
  BY <1>6, EarlyUpdate DEF StoreCancelInvite, finalVars, Early
<1>7. CASE StoreVisit(r, u, e)
  <2>1. match' = match \/ match' = WithStatus(u, e, "visit")
    BY <1>7 DEF StoreVisit
  <2>. QED
    BY <1>7, <2>1, EarlyUpdate DEF StoreVisit, finalVars, Early
<1>8. CASE StoreCancelVisit(r, u, e)
  BY <1>8, EarlyUpdate DEF StoreCancelVisit, finalVars, Early
<1>9. CASE LandlordDeletesVisit(r, u, e)
  BY <1>9, UnchangedStep DEF LandlordDeletesVisit, finalVars
<1>10. CASE LandlordMovesToInvite(r, u, e)
  BY <1>10, EarlyUpdate DEF LandlordMovesToInvite, finalVars, Early
<1>11. CASE StoreShare(r, u, e)
  <2>1. [match[<<u, e>>] EXCEPT !.status = "share", !.share = TRUE].status = "share"
    BY <1>p, MatchRow, StatusShareUpdate DEF Stages
  <2>2. \A p \in Pairs : match'[p].status \in {match[p].status, "share"}
    BY <1>11, <1>p, <2>1 DEF StoreShare, TypeOK
  <2>. QED
    BY <1>11, <2>2, EarlyStep DEF StoreShare, finalVars, Early
<1>12. CASE StoreCancelShare(r, u, e)
  <2>1. [match[<<u, e>>] EXCEPT !.status = "visit", !.share = FALSE].status = "visit"
    BY <1>p, MatchRow, StatusShareUpdate DEF Stages
  <2>2. \A p \in Pairs : match'[p].status \in {match[p].status, "visit"}
    BY <1>12, <1>p, <2>1 DEF StoreCancelShare, TypeOK
  <2>. QED
    BY <1>12, <2>2, EarlyStep DEF StoreCancelShare, finalVars, Early
<1>13. CASE StoreRemoveFromTop(r, u, e)
  BY <1>13, EarlyUpdate DEF StoreRemoveFromTop, finalVars, Early
<1>14. CASE CancelTopMatch(r, u, e)
  <2>1. \A p \in Pairs : match'[p].status \in {match[p].status, "none"}
    BY <1>14, <1>n, <1>p DEF CancelTopMatch, TypeOK
  <2>. QED
    BY <1>14, <2>1, EarlyStep DEF CancelTopMatch, finalVars, Early
<1>15. CASE CancelTopVisit(r, u, e)
  BY <1>15, UnchangedStep DEF CancelTopVisit, finalVars
<1>16. CASE CancelTopDislike(r, u, e)
  BY <1>16, UnchangedStep DEF CancelTopDislike, finalVars
<1>17. CASE StoreCancelAction(r, u, e)
  <2>1. \A p \in Pairs : match'[p].status \in {match[p].status, "new"}
    BY <1>17, <1>s DEF StoreCancelAction, Early
  <2>. QED
    BY <1>17, <2>1, EarlyStep DEF StoreCancelAction, finalVars, Early
<1>. QED
  BY <1>1, <1>2, <1>3, <1>4, <1>5, <1>6, <1>7, <1>8, <1>9, <1>10, <1>11, <1>12,
     <1>13, <1>14, <1>15, <1>16, <1>17 DEF StoreStep

\* The computation of NEW matches.
LEMMA MatchingStages ==
    ASSUME TypeOK, NEW r \in Requests, MatchingStep(r)
    PROVE  StageStep
<1>s. \A p \in Pairs : [match[p] EXCEPT !.status = "new"].status = "new"
  BY MatchRow, StatusUpdate DEF Stages
<1>n. NoRow.status = "none"
  BY DEF NoRow
<1>1. CASE \E u \in Users : \E found \in SUBSET Candidates(u) : SearchEstates(r, u, found)
  BY <1>1, BeginStep DEF SearchEstates
<1>2. CASE \E u \in Users : CreateNewMatches(r, u)
  <2>1. PICK u \in Users : CreateNewMatches(r, u)
    BY <1>2
  <2>2. \A p \in Pairs : match'[p].status \in {match[p].status, "new", "none"}
    BY <2>1, <1>s, <1>n DEF CreateNewMatches
  <2>. QED
    BY <2>1, <2>2, EarlyStep DEF CreateNewMatches, finalVars, Early
<1>3. CASE \E e \in Estates : \E found \in SUBSET Users : ScoreTenants(r, e, found)
  BY <1>3, BeginStep DEF ScoreTenants
<1>4. CASE \E e \in Estates : DeleteNewMatches(r, e)
  <2>1. PICK e \in Estates : DeleteNewMatches(r, e)
    BY <1>4
  <2>2. \A p \in Pairs : match'[p].status \in {match[p].status, "none"}
    BY <2>1, <1>n DEF DeleteNewMatches
  <2>. QED
    BY <2>1, <2>2, EarlyStep DEF DeleteNewMatches, finalVars, Early
<1>5. CASE \E e \in Estates : InsertNewMatches(r, e)
  <2>1. PICK e \in Estates : InsertNewMatches(r, e)
    BY <1>5
  <2>2. [NoRow EXCEPT !.status = "new"].status = "new"
    BY NoRowType, StatusUpdate DEF Stages
  <2>3. \A p \in Pairs : match'[p].status \in {match[p].status, "new"}
    BY <2>1, <2>2 DEF InsertNewMatches
  <2>. QED
    BY <2>1, <2>3, EarlyStep DEF InsertNewMatches, finalVars, Early
<1>6. CASE \E u \in Users : FindOldMatches(r, u)
  BY <1>6, UnchangedStep DEF FindOldMatches, tables, finalVars
<1>. QED
  BY <1>1, <1>2, <1>3, <1>4, <1>5, <1>6 DEF MatchingStep

\* The calendar.
LEMMA CalendarStages ==
    ASSUME TypeOK, NEW e \in Estates,
           \/ CalendarStep(e)
           \/ \E r \in Requests : StoreRemoveSlot(r, e) \/ StoreUpdateSlot(r, e)
    PROVE  StageStep
<1>1. CASE CalendarStep(e)
  <2>1. UNCHANGED <<match, task>>
    BY <1>1 DEF CalendarStep, CreateSlot, RemoveSlot, UpdateSlot, Begin, tables, finalVars
  <2>. QED
    BY <2>1, UnchangedStep
<1>2. CASE \E r \in Requests : StoreRemoveSlot(r, e) \/ StoreUpdateSlot(r, e)
  <2>1. PICK r \in Requests : VisitsToInvites(req[r].pairs) /\ UNCHANGED task
    BY <1>2 DEF StoreRemoveSlot, StoreUpdateSlot, finalVars
  <2>2. \A p \in Pairs : [match[p] EXCEPT !.status = "invite"].status = "invite"
    BY MatchRow, StatusUpdate DEF Stages
  <2>3. \A p \in Pairs : match'[p].status \in {match[p].status, "invite"}
    BY <2>1, <2>2 DEF VisitsToInvites
  <2>. QED
    BY <2>1, <2>3, EarlyStep DEF Early
<1>. QED
  BY <1>1, <1>2

\* Every step of MatchFlow.
LEMMA FlowStages ==
    ASSUME TypeOK, FlowNext
    PROVE  StageStep
BY TransactionalStages, CheckStages, StoreStages, MatchingStages, CalendarStages
   DEF FlowNext

\* FINISH and COMMIT are only given to the stage before, which the update repeats.
LEMMA FinalStages ==
    ASSUME TypeOK, FinalNext
    PROVE  StageStep
<1>1. PICK u \in Users, e \in Estates :
          TenantCancelCommit(u, e) \/ \E r \in Requests : FinalStep(r, u, e)
  BY DEF FinalNext
<1>2. ASSUME CancelCommit(u, e) PROVE StageStep
  <2>1. ASSUME NEW p \in Pairs
        PROVE  \/ match'[p].status = match[p].status
               \/ match[p].status = "commit" /\ match'[p].status = "top"
    BY <1>2, StatusAfter DEF CancelCommit, StatusOf, Stages
  <2>. QED
    BY <1>2, <2>1 DEF StageStep, CancelCommit
<1>3. ASSUME NEW r \in Requests, RequestFinalConfirm(r, u, e) PROVE StageStep
  <2>1. ASSUME NEW p \in Pairs
        PROVE  \/ match'[p].status = match[p].status
               \/ /\ match[p].status = "top" /\ match'[p].status = "commit"
                  /\ p[1] = u /\ p[2] = e
    BY <1>3, StatusAfter DEF RequestFinalConfirm, StatusOf, Stages
  <2>. QED
    BY <1>3, <2>1 DEF StageStep, RequestFinalConfirm
<1>4. ASSUME NEW r \in Requests, NEW i \in Rows, HandleFinalMatch(r, u, e, i) PROVE StageStep
  <2>1. ASSUME NEW p \in Pairs
        PROVE  \/ match'[p].status = match[p].status
               \/ match[p].status = "commit" /\ match'[p].status = "finish"
    BY <1>4, StatusAfter DEF HandleFinalMatch, StatusOf, Stages
  <2>. QED
    BY <1>4, <2>1, ArchivedStep DEF StageStep, HandleFinalMatch
<1>5. ASSUME NEW r \in Requests, RequestUserCommit(r, u, e) \/ FindExpiredCommit(r, u, e)
                                 \/ FinalConfirm(r, u, e)
      PROVE  StageStep
  BY <1>5, BeginStep DEF RequestUserCommit, FindExpiredCommit, FinalConfirm
<1>. QED
  BY <1>1, <1>2, <1>3, <1>4, <1>5 DEF TenantCancelCommit, FinalStep, MoveExpiredFinalConfirmToTop

\* Only an accepted invitation leads to FINISH here.
LEMMA TenantStages ==
    ASSUME TypeOK, TenantNext
    PROVE  StageStep
<1>1. PICK e \in Estates :
          \/ \E i \in Rows : AddCurrentTenant(e, i)
          \/ \E r \in Requests :
                \/ InvitationStep(r, e)
                \/ \E i \in Rows : LandlordStep(r, e, i)
                \/ \E u \in Users, i, j \in Rows : AcceptOutsideTenant(r, u, e, i, j)
  BY DEF TenantNext
<1>2. CASE \E i \in Rows : AddCurrentTenant(e, i)
  BY <1>2, UnchangedStep DEF AddCurrentTenant
<1>3. CASE \E r \in Requests : \E i \in Rows : LandlordStep(r, e, i)
  <2>1. UNCHANGED <<match, task>>
    BY <1>3 DEF LandlordStep, StoreSingleInvitation, InviteTenantToApp, RevokeInvitation,
                Disconnect, Expire, HandleDelete, Begin, tables, finalVars
  <2>. QED
    BY <2>1, UnchangedStep
<1>4. CASE \E r \in Requests : \E u \in Users, i, j \in Rows : AcceptOutsideTenant(r, u, e, i, j)
  BY <1>4, BeginStep DEF AcceptOutsideTenant
<1>5. ASSUME NEW r \in Requests, NEW u \in Users, StoreAccept(r, u, e) PROVE StageStep
  <2>1. CASE UNCHANGED <<match, task>>
    BY <2>1, UnchangedStep
  <2>2. CASE ~(req[r].stage = "none" /\ Exists(u, e))
    <3>1. \A p \in Pairs : match'[p] = match[p] \/ p = <<u, e>>
      BY <1>5, <2>2 DEF StoreAccept, TypeOK
    <3>2. task'[<<u, e>>] # "none" /\ \A p \in Pairs : task[p] # "none" => task'[p] # "none"
      BY <1>5, <2>2, ArchivedStep DEF StoreAccept
    <3>3. Serving(r, "accept", u, e)
      BY <1>5 DEF StoreAccept
    <3>4. \A p \in Pairs : p = <<u, e>> =>
              match'[p].status \in {match[p].status, "finish"} /\ p[1] = u /\ p[2] = e
      <4>1. <<u, e>> \in Pairs
        BY DEF Pairs
      <4>2. [match[<<u, e>>] EXCEPT !.status = "finish"].status = "finish"
        BY <4>1, MatchRow, StatusUpdate DEF Stages
      <4>3. match' = match \/ match' = [match EXCEPT ![<<u, e>>].status = "finish"]
        BY <1>5, <2>2 DEF StoreAccept
      <4>4. match'[<<u, e>>].status \in {match[<<u, e>>].status, "finish"}
        BY <4>1, <4>2, <4>3 DEF TypeOK
      <4>. QED
        BY <4>4
    <3>. QED
      BY <3>1, <3>2, <3>3, <3>4 DEF StageStep
  <2>. QED
    BY <1>5, <2>1, <2>2 DEF StoreAccept
<1>6. ASSUME NEW r \in Requests, NEW u, StoreDisconnect(r, u, e) PROVE StageStep
  <2>1. \A p \in Pairs : [match[p] EXCEPT !.status = "new"].status = "new"
    BY MatchRow, StatusUpdate DEF Stages
  <2>2. \A p \in Pairs : match'[p].status \in {match[p].status, "new"}
    BY <1>6, <2>1 DEF StoreDisconnect
  <2>. QED
    BY <1>6, <2>2, EarlyStep DEF StoreDisconnect, Early
<1>7. CASE \E r \in Requests : InvitationStep(r, e)
  <2>1. PICK r \in Requests : InvitationStep(r, e)
    BY <1>7
  <2>2. CASE UNCHANGED <<match, task>>
    BY <2>2, UnchangedStep
  <2>3. CASE \E u \in Users : StoreAccept(r, u, e)
    BY <2>3, <1>5
  <2>4. CASE \E u \in Users \cup {None} : StoreDisconnect(r, u, e)
    BY <2>4, <1>6
  <2>. QED
    BY <2>1, <2>2, <2>3, <2>4
       DEF InvitationStep, SingleInvitation, FindInvitee, CreateDynamicLink,
           StoreRevokeInvitation, StoreExpire, StoreDelete, Begin, tables, finalVars
<1>. QED
  BY <1>1, <1>2, <1>3, <1>4, <1>7

\* The market only removes rows.
LEMMA MarketStages ==
    ASSUME TypeOK, MarketNext
    PROVE  StageStep
<1>1. UNCHANGED task
  BY DEF MarketNext, Extend, OffMarketPublish, Deactivate, Publish, StorePublish,
         Unpublish, StoreUnpublish, Begin, tables, finalVars
<1>2. \A p \in Pairs : match'[p] \in {match[p], NoRow}
  BY DEF MarketNext, Extend, OffMarketPublish, Deactivate, Publish, StorePublish,
         Unpublish, StoreUnpublish, Begin, tables
<1>3. \A p \in Pairs : match'[p].status \in {match[p].status, "none"}
  BY <1>2 DEF NoRow
<1>. QED
  BY <1>1, <1>3, EarlyStep DEF Early

\* Every step of the whole.
LEMMA NextStages ==
    ASSUME TypeOK, [Next]_vars
    PROVE  StageStep
<1>1. CASE Next
  BY <1>1, FlowStages, FinalStages, TenantStages, MarketStages DEF Next
<1>2. CASE UNCHANGED vars
  BY <1>2, UnchangedStep DEF vars, tables, finalVars
<1>. QED
  BY <1>1, <1>2

-----------------------------------------------------------------------------
(* What follows for the whole.                                             *)

\* Whoever is at TOP, COMMIT or FINISH has a system task.
THEOREM LateHaveTask == Spec => []TopHasTask
<1>1. Init => TypeOK /\ TopHasTask
  BY InitType DEF Init, TopHasTask, NoRow
<1>2. TypeOK /\ TopHasTask /\ [Next]_vars => TopHasTask'
  <2>. SUFFICES ASSUME TypeOK, TopHasTask, [Next]_vars
                PROVE  TopHasTask'
    OBVIOUS
  <2>1. StageStep
    BY NextStages
  <2>. QED
    BY <2>1 DEF StageStep, TopHasTask
<1>. QED
  BY <1>1, <1>2, TypeCorrect, PTL DEF Spec

\* Nobody becomes a final tenant without a COMMIT or an accepted invitation.
THEOREM FinishNeedsCommit == Spec => FinishFromCommit
<1>1. TypeOK /\ [Next]_vars =>
        [\A p \in Pairs :
           match'[p].status = "finish" /\ match[p].status # "finish"
             => \/ match[p].status = "commit"
                \/ \E r \in Requests : Serving(r, "accept", p[1], p[2])]_vars
  BY NextStages DEF StageStep
<1>. QED
  BY <1>1, TypeCorrect, PTL DEF Spec, FinishFromCommit

\* Nobody gets to COMMIT except from TOP.
THEOREM CommitNeedsTop == Spec => CommitFromTop
<1>1. TypeOK /\ [Next]_vars =>
        [\A p \in Pairs :
           match'[p].status = "commit" /\ match[p].status # "commit"
             => match[p].status = "top"]_vars
  BY NextStages DEF StageStep
<1>. QED
  BY <1>1, TypeCorrect, PTL DEF Spec, CommitFromTop

\* The flag that marks the incomes of a member as final only goes with one of his
\* COMMITs.
LEMMA IncomeKept ==
    ASSUME [Next]_vars, NEW u \in finalIncome, u \notin finalIncome'
    PROVE  \E e \in Estates : CancelCommit(u, e)
<1>1. ASSUME FlowNext \/ TenantNext \/ MarketNext \/ UNCHANGED vars
      PROVE  UNCHANGED finalIncome
  <2>1. CASE FlowNext
    <3>1. ASSUME NEW v, NEW e, TransactionalStep(v, e)
          PROVE  UNCHANGED finalIncome
      BY <3>1 DEF TransactionalStep, AddLike, RemoveLike, AddDislike, RemoveDislike, ToTop,
           RespondToSharing, finalVars
    <3>2. ASSUME NEW r, NEW v, NEW e, CheckStep(r, v, e)
          PROVE  UNCHANGED tables
      BY <3>2 DEF CheckStep, AddBuddy, KnockEstate, CancelKnock, MoveToNewEstate, Invite,
           FindInvited, CancelInvite, BookTimeslot, CancelVisit, CancelVisitByLandlord, Share,
           CancelShare, RemoveFromTop, CancelTop, CancelAction, Begin
    <3>3. ASSUME NEW r, NEW v, NEW e, StoreStep(r, v, e)
          PROVE  UNCHANGED finalIncome
      BY <3>3 DEF StoreStep, CreateBuddyMatch, StoreKnock, StoreCancelKnock, StoreMove,
           StoreInvite, StoreCancelInvite, StoreVisit, StoreCancelVisit, LandlordDeletesVisit,
           LandlordMovesToInvite, StoreShare, StoreCancelShare, StoreRemoveFromTop,
           CancelTopMatch, CancelTopVisit, CancelTopDislike, StoreCancelAction, finalVars
    <3>4. ASSUME NEW r, MatchingStep(r)
          PROVE  UNCHANGED finalIncome
      BY <3>4 DEF MatchingStep, SearchEstates, FindOldMatches, CreateNewMatches, ScoreTenants,
           DeleteNewMatches, InsertNewMatches, Begin, tables, finalVars
    <3>5. ASSUME NEW e, CalendarStep(e)
          PROVE  UNCHANGED finalIncome
      BY <3>5 DEF CalendarStep, CreateSlot, RemoveSlot, UpdateSlot, Begin, tables, finalVars
    <3>6. ASSUME NEW r, NEW e, StoreRemoveSlot(r, e) \/ StoreUpdateSlot(r, e)
          PROVE  UNCHANGED finalIncome
      BY <3>6 DEF StoreRemoveSlot, StoreUpdateSlot, finalVars
    <3>. QED
      BY <2>1, <3>1, <3>2, <3>3, <3>4, <3>5, <3>6 DEF FlowNext, tables, finalVars
  <2>2. CASE TenantNext
    <3>1. ASSUME NEW e, NEW i, AddCurrentTenant(e, i)
          PROVE  UNCHANGED finalIncome
      BY <3>1 DEF AddCurrentTenant
    <3>2. ASSUME NEW r, NEW e, NEW i, LandlordStep(r, e, i)
          PROVE  UNCHANGED finalIncome
      BY <3>2 DEF LandlordStep, StoreSingleInvitation, InviteTenantToApp, RevokeInvitation,
           Disconnect, Expire, HandleDelete, Begin, tables, finalVars
    <3>3. ASSUME NEW r, NEW e, InvitationStep(r, e)
          PROVE  UNCHANGED finalIncome
      BY <3>3 DEF InvitationStep, SingleInvitation, FindInvitee, CreateDynamicLink,
           StoreRevokeInvitation, StoreExpire, StoreDelete, StoreAccept, StoreDisconnect,
           Begin, tables, finalVars
    <3>4. ASSUME NEW r, NEW v, NEW e, NEW i, NEW j, AcceptOutsideTenant(r, v, e, i, j)
          PROVE  UNCHANGED finalIncome
      BY <3>4 DEF AcceptOutsideTenant, Begin, tables, finalVars
    <3>. QED
      BY <2>2, <3>1, <3>2, <3>3, <3>4 DEF TenantNext
  <2>3. CASE MarketNext
    BY <2>3 DEF MarketNext, Extend, OffMarketPublish, Deactivate, Publish, StorePublish,
         Unpublish, StoreUnpublish, Begin, tables, finalVars
  <2>4. CASE UNCHANGED vars
    BY <2>4 DEF vars, tables, finalVars
  <2>. QED
    BY <1>1, <2>1, <2>2, <2>3, <2>4
<1>2. CASE FinalNext
  <2>1. PICK v \in Users, e \in Estates :
            TenantCancelCommit(v, e) \/ \E r \in Requests : FinalStep(r, v, e)
    BY <1>2 DEF FinalNext
  <2>2. CASE CancelCommit(v, e)
    BY <2>2 DEF CancelCommit
  <2>3. CASE finalIncome \subseteq finalIncome'
    BY <2>3
  <2>. QED
    BY <2>1, <2>2, <2>3
       DEF TenantCancelCommit, FinalStep, RequestUserCommit, RequestFinalConfirm,
           FindExpiredCommit, MoveExpiredFinalConfirmToTop, FinalConfirm, HandleFinalMatch,
           Begin, tables, finalVars
<1>. QED
  BY <1>1, <1>2 DEF Next

\* Whose rental is requested has final incomes, however many handlers cancel and
\* request at the same time.  The flag belongs to the prospect and not to one of his
\* matches, hence a single estate: with two, one COMMIT ends and takes the flag of
\* the other along.
THEOREM CommitsHaveFinalIncome ==
    ASSUME \A e, f \in Estates : e = f
    PROVE  Spec => []CommitHasFinalIncome
<1>1. Init => CommitHasFinalIncome
  BY DEF Init, CommitHasFinalIncome, NoRow
<1>2. TypeOK /\ CommitHasFinalIncome /\ [Next]_vars => CommitHasFinalIncome'
  <2>. SUFFICES ASSUME TypeOK, CommitHasFinalIncome, [Next]_vars,
                       NEW p \in Pairs, match'[p].status = "commit"
                PROVE  p[1] \in finalIncome'
    BY DEF CommitHasFinalIncome
  <2>1. match[p].status = "commit" \/ p[1] \in finalIncome'
    BY NextStages DEF StageStep
  <2>2. CASE match[p].status = "commit" /\ p[1] \notin finalIncome'
    <3>1. PICK e \in Estates : CancelCommit(p[1], e)
      BY <2>2, IncomeKept DEF CommitHasFinalIncome
    <3>2. p = <<p[1], e>> /\ p[1] \in Users
      BY DEF Pairs
    <3>3. WithStatus(p[1], e, "top")[p].status \in {match[p].status, "top"}
      BY <3>2, StatusAfter DEF Stages
    <3>4. match' = WithStatus(p[1], e, "top")
      BY <3>1, <3>2, <2>2 DEF CancelCommit, StatusOf
    <3>5. WithStatus(p[1], e, "top")[p].status = "top"
      BY <3>2, <2>2, StatusUpdate, MatchRow DEF WithStatus, Exists, StatusOf, Stages, TypeOK
    <3>. QED
      BY <3>4, <3>5
  <2>. QED
    BY <2>1, <2>2
<1>. QED
  BY <1>1, <1>2, TypeCorrect, PTL DEF Spec

-----------------------------------------------------------------------------
(* Likes and dislikes never meet, whatever buildings and categories there  *)
(* are.                                                                    *)

\* A step leaves no estate both liked and disliked that was not so before, and
\* nothing is liked but by addLike.
MarksStep ==
    /\ likes' \cap dislikes' \subseteq likes \cap dislikes
    /\ likes' \subseteq likes \/ Served("like")

\* Steps that touch neither, among them all the checks.
LEMMA MarksUnchanged ==
    ASSUME UNCHANGED <<likes, dislikes>>
    PROVE  MarksStep
BY DEF MarksStep

\* A check step only records its request.
LEMMA BeginMarks ==
    ASSUME NEW r, NEW call, Begin(r, call)
    PROVE  MarksStep
BY MarksUnchanged DEF Begin, tables, pipelineVars

\* The operations that are one transaction.
LEMMA TransactionalMarks ==
    ASSUME NEW u, NEW e, TransactionalStep(u, e)
    PROVE  MarksStep
<1>1. CASE AddLike(u, e)
  BY <1>1 DEF AddLike, MarksStep
<1>2. CASE RemoveLike(u, e)
  BY <1>2 DEF RemoveLike, MarksStep
<1>3. CASE AddDislike(u, e)
  BY <1>3 DEF AddDislike, MarksStep
<1>4. CASE RemoveDislike(u, e)
  BY <1>4 DEF RemoveDislike, MarksStep
<1>5. CASE ToTop(u, e) \/ \E answer \in BOOLEAN : RespondToSharing(u, e, answer)
  BY <1>5, MarksUnchanged DEF ToTop, RespondToSharing, pipelineVars
<1>. QED
  BY <1>1, <1>2, <1>3, <1>4, <1>5 DEF TransactionalStep

\* The checks of prospects, landlords and administrators.
LEMMA CheckMarks ==
    ASSUME NEW r, NEW u, NEW e, CheckStep(r, u, e)
    PROVE  MarksStep
BY BeginMarks, MarksUnchanged
   DEF CheckStep, AddBuddy, KnockEstate, CancelKnock, MoveToNewEstate, Invite, FindInvited,
       CancelInvite, BookTimeslot, CancelVisit, CancelVisitByLandlord, Share, CancelShare,
       RemoveFromTop, CancelTop, CancelAction, tables, pipelineVars

\* What the checks lead to.
LEMMA StoreMarks ==
    ASSUME NEW r, NEW u, NEW e, StoreStep(r, u, e)
    PROVE  MarksStep
<1>1. CASE StoreKnock(r, u, e)
  BY <1>1 DEF StoreKnock, MarksStep
<1>2. CASE StoreCancelKnock(r, u, e)
  BY <1>2 DEF StoreCancelKnock, MarksStep
<1>3. CASE CancelTopDislike(r, u, e)
  BY <1>3 DEF CancelTopDislike, MarksStep
<1>4. CASE StoreCancelAction(r, u, e)
  BY <1>4 DEF StoreCancelAction, MarksStep
<1>5. CASE \/ CreateBuddyMatch(r, u, e) \/ StoreMove(r, u, e)
           \/ StoreInvite(r, u, e) \/ StoreCancelInvite(r, u, e)
           \/ StoreShare(r, u, e) \/ StoreCancelShare(r, u, e)
           \/ StoreRemoveFromTop(r, u, e)
  BY <1>5, MarksUnchanged
     DEF CreateBuddyMatch, StoreMove, StoreInvite, StoreCancelInvite, StoreShare,
         StoreCancelShare, StoreRemoveFromTop, pipelineVars
<1>6. CASE \/ StoreVisit(r, u, e) \/ StoreCancelVisit(r, u, e)
           \/ LandlordDeletesVisit(r, u, e) \/ LandlordMovesToInvite(r, u, e)
           \/ CancelTopMatch(r, u, e) \/ CancelTopVisit(r, u, e)
  BY <1>6, MarksUnchanged
     DEF StoreVisit, StoreCancelVisit, LandlordDeletesVisit, LandlordMovesToInvite,
         CancelTopMatch, CancelTopVisit, pipelineVars
<1>. QED
  BY <1>1, <1>2, <1>3, <1>4, <1>5, <1>6 DEF StoreStep

\* Everything that happens before COMMIT.
LEMMA FlowMarks ==
    ASSUME FlowNext
    PROVE  MarksStep
<1>1. ASSUME NEW r, MatchingStep(r)
      PROVE  MarksStep
  BY <1>1, BeginMarks, MarksUnchanged
     DEF MatchingStep, SearchEstates, FindOldMatches, CreateNewMatches, ScoreTenants,
         DeleteNewMatches, InsertNewMatches, tables, pipelineVars
<1>2. ASSUME NEW e, CalendarStep(e)
      PROVE  MarksStep
  BY <1>2, BeginMarks, MarksUnchanged DEF CalendarStep, CreateSlot, RemoveSlot, UpdateSlot
<1>3. ASSUME NEW r, NEW e, StoreRemoveSlot(r, e) \/ StoreUpdateSlot(r, e)
      PROVE  MarksStep
  BY <1>3, MarksUnchanged DEF StoreRemoveSlot, StoreUpdateSlot
<1>. QED
  BY <1>1, <1>2, <1>3, TransactionalMarks, CheckMarks, StoreMarks DEF FlowNext

\* COMMIT and FINISH.
LEMMA FinalMarks ==
    ASSUME FinalNext
    PROVE  MarksStep
<1>1. ASSUME NEW u, NEW e, TenantCancelCommit(u, e)
      PROVE  MarksStep
  BY <1>1, MarksUnchanged DEF TenantCancelCommit, CancelCommit, pipelineVars
<1>2. ASSUME NEW r, NEW u, NEW e, FinalStep(r, u, e)
      PROVE  MarksStep
  BY <1>2, BeginMarks, MarksUnchanged
     DEF FinalStep, RequestUserCommit, RequestFinalConfirm, FindExpiredCommit,
         MoveExpiredFinalConfirmToTop, CancelCommit, FinalConfirm, HandleFinalMatch,
         pipelineVars
<1>. QED
  BY <1>1, <1>2 DEF FinalNext

\* Current tenants.
LEMMA TenantMarks ==
    ASSUME TenantNext
    PROVE  MarksStep
<1>1. ASSUME NEW e, NEW i, AddCurrentTenant(e, i)
      PROVE  MarksStep
  BY <1>1, MarksUnchanged DEF AddCurrentTenant, pipelineVars
<1>2. ASSUME NEW r, NEW e, InvitationStep(r, e)
      PROVE  MarksStep
  BY <1>2, BeginMarks, MarksUnchanged
     DEF InvitationStep, SingleInvitation, FindInvitee, CreateDynamicLink,
         StoreRevokeInvitation, StoreExpire, StoreDelete, StoreAccept, StoreDisconnect,
         tables, pipelineVars
<1>3. ASSUME NEW r, NEW e, NEW i, LandlordStep(r, e, i)
      PROVE  MarksStep
  BY <1>3, BeginMarks, MarksUnchanged
     DEF LandlordStep, StoreSingleInvitation, InviteTenantToApp, RevokeInvitation,
         Disconnect, Expire, HandleDelete, pipelineVars
<1>4. ASSUME NEW r, NEW u, NEW e, NEW i, NEW j, AcceptOutsideTenant(r, u, e, i, j)
      PROVE  MarksStep
  BY <1>4, BeginMarks DEF AcceptOutsideTenant
<1>. QED
  BY <1>1, <1>2, <1>3, <1>4 DEF TenantNext

\* Publications and withdrawals.
LEMMA MarketMarks ==
    ASSUME MarketNext
    PROVE  MarksStep
<1>1. ASSUME NEW r, NEW e, StorePublish(r, e)
      PROVE  MarksStep
  BY <1>1 DEF StorePublish, OfOtherEstates, MarksStep
<1>2. ASSUME NEW e, Deactivate(e)
      PROVE  MarksStep
  BY <1>2 DEF Deactivate, OfOtherEstates, MarksStep
<1>3. ASSUME NEW e, Extend(e) \/ OffMarketPublish(e)
      PROVE  MarksStep
  BY <1>3, MarksUnchanged DEF Extend, OffMarketPublish, pipelineVars
<1>4. ASSUME NEW r, NEW e,
             \/ \E retain \in BOOLEAN : Publish(r, e, retain)
             \/ Unpublish(r, e) \/ StoreUnpublish(r, e)
      PROVE  MarksStep
  BY <1>4, BeginMarks, MarksUnchanged DEF Publish, Unpublish, StoreUnpublish, pipelineVars
<1>. QED
  BY <1>1, <1>2, <1>3, <1>4 DEF MarketNext

\* Every step.
LEMMA NextMarks ==
    ASSUME [Next]_vars
    PROVE  MarksStep
BY FlowMarks, FinalMarks, TenantMarks, MarketMarks, MarksUnchanged
   DEF Next, vars, tables, pipelineVars

-----------------------------------------------------------------------------
\* No estate is liked and disliked by the same prospect.
THEOREM MarksAreDisjoint == Spec => []LikeExcludesDislike
<1>1. Init => LikeExcludesDislike
  BY DEF Init, LikeExcludesDislike
<1>2. [Next]_vars => MarksStep
  BY NextMarks
<1>3. LikeExcludesDislike /\ [Next]_vars => LikeExcludesDislike'
  BY <1>2 DEF MarksStep, LikeExcludesDislike
<1>. QED
  BY <1>1, <1>3, PTL DEF Spec

-----------------------------------------------------------------------------
(* The matching services implement MatchLifecycle.  The step comes from     *)
(* StageStep; a cancelled COMMIT needs TopHasTask as well.                 *)

\* The abstract values are of their types.
LEMMA PlaceType ==
    ASSUME NEW s
    PROVE  PlaceOf(s) \in Abstract!Places
BY DEF PlaceOf, Abstract!Places

\* Every step of the services is one of the lifecycle, or a stutter.
LEMMA LifecycleStep ==
    ASSUME TypeOK, TopHasTask, [Next]_vars
    PROVE  Abstract!LifecycleNext
<1>1. StageStep
  BY NextStages
<1>2. [p \in Pairs |-> PlaceOf(match[p].status)]' \in [Pairs -> Abstract!Places]
  BY PlaceType
<1>3. {p \in Pairs : task[p] # "none"} \subseteq {p \in Pairs : task[p] # "none"}'
  BY <1>1 DEF StageStep
<1>4. ASSUME NEW p \in Pairs
      PROVE  Abstract!Moves(p)
  <2>1. CASE match'[p].status = "top"
    <3>1. task'[p] # "none"
      BY <1>1, <2>1 DEF StageStep, TopHasTask
    <3>2. Abstract!Lists(p)
      BY <2>1, <3>1 DEF Abstract!Lists, PlaceOf
    <3>. QED
      BY <3>2 DEF Abstract!Moves
  <2>2. CASE match'[p].status = "commit"
    <3>1. match[p].status \in {"commit", "top"}
      BY <1>1, <2>2 DEF StageStep
    <3>2. Abstract!IsRequested(p) \/ PlaceOf(match'[p].status) = PlaceOf(match[p].status)
      BY <2>2, <3>1 DEF Abstract!IsRequested, PlaceOf
    <3>. QED
      BY <3>2 DEF Abstract!Moves
  <2>3. CASE match'[p].status = "finish"
    <3>1. \/ match[p].status \in {"finish", "commit"}
          \/ task'[p] # "none" /\ \E r \in Requests : Serving(r, "accept", p[1], p[2])
      BY <1>1, <2>3 DEF StageStep
    <3>2. CASE match[p].status = "finish"
      BY <2>3, <3>2 DEF Abstract!Moves
    <3>3. CASE match[p].status = "commit"
      BY <2>3, <3>3 DEF Abstract!Moves, Abstract!Confirms, PlaceOf
    <3>4. CASE task'[p] # "none" /\ \E r \in Requests : Serving(r, "accept", p[1], p[2])
      <4>1. Abstract!ArrivesByLink(p)
        BY <2>3, <3>4 DEF Abstract!ArrivesByLink, PlaceOf
      <4>. QED
        BY <4>1 DEF Abstract!Moves
    <3>. QED
      BY <3>1, <3>2, <3>3, <3>4
  <2>4. CASE match'[p].status \notin {"top", "commit", "finish"}
    <3>1. Abstract!Falls(p)
      BY <2>4 DEF Abstract!Falls, PlaceOf
    <3>. QED
      BY <3>1 DEF Abstract!Moves
  <2>. QED
    BY <2>1, <2>2, <2>3, <2>4
<1>. QED
  BY <1>2, <1>3, <1>4 DEF Abstract!LifecycleNext

\* The services implement the lifecycle.
THEOREM ImplementsLifecycle == Spec => FollowsLifecycle
<1>1. Init => Abstract!LifecycleInit
  BY DEF Init, Abstract!LifecycleInit, NoRow, PlaceOf, Serving
<1>2. TypeOK /\ TopHasTask /\ [Next]_vars => [Abstract!LifecycleNext]_(Abstract!lifecycleVars)
  BY LifecycleStep
<1>. QED
  BY <1>1, <1>2, TypeCorrect, LateHaveTask, PTL DEF Spec, FollowsLifecycle, Abstract!Lifecycle

\* What the lifecycle guarantees of its own: who is past the candidates can
\* talk to the landlord.
THEOREM LifecycleBonds == Abstract!Lifecycle => []Abstract!PastIsBonded
<1>1. Abstract!LifecycleInit => Abstract!PastIsBonded
  BY DEF Abstract!LifecycleInit, Abstract!PastIsBonded
<1>2. Abstract!PastIsBonded /\ [Abstract!LifecycleNext]_(Abstract!lifecycleVars)
        => (Abstract!PastIsBonded)'
  BY DEF Abstract!PastIsBonded, Abstract!LifecycleNext, Abstract!lifecycleVars, Abstract!Moves,
         Abstract!Falls, Abstract!Lists, Abstract!IsRequested, Abstract!Confirms,
         Abstract!ArrivesByLink
<1>. QED
  BY <1>1, <1>2, PTL DEF Abstract!Lifecycle
=============================================================================
