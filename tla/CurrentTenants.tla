--------------------------- MODULE CurrentTenants ---------------------------
(***************************************************************************)
(* The tenants that landlords bring along: a landlord notes who lives in   *)
(* an estate, sends him an invitation link, and whoever accepts it becomes *)
(* the estate's final match without going through the stages.              *)
(***************************************************************************)
EXTENDS FinalMatch

\* Rows are read with first(): any live row of the estate.
Insert(i, e) ==
    /\ Unused(i)
    /\ seat' = [seat EXCEPT ![i] = [NoSeat EXCEPT !.estate = e, !.live = TRUE]]

\* A live row of the estate is updated in place, its user and code stay.
AddCurrentTenant(e, i) ==
    /\ Served("addTenant")
    /\ LiveSeats(e) = {}
    /\ Insert(i, e)
    /\ UNCHANGED <<match, pipelineVars, estateVars, task, finalIncome>>

\* It is refused for another contact than the one that is connected or holds a
\* young link, but contacts are not modelled: any estate can be invited to.
SingleInvitation(r, e) ==
    /\ Accepts(r, "singleInvitation")
    /\ Begin(r, NewCall("singleInvitation", None, e))

\* The estate leaves the market, whatever its matches are; then the link is
\* sent to the row that was found or inserted.
StoreSingleInvitation(r, e, i) ==
    /\ Serving(r, "singleInvitation", None, e)
    /\ IF LiveSeats(e) = {} THEN Insert(i, e) ELSE i \in LiveSeats(e) /\ UNCHANGED seat
    /\ Rented(e)
    /\ req' = [req EXCEPT ![r].op = "findInvitee", ![r].row = i]
    /\ UNCHANGED <<match, pipelineVars, task, finalIncome>>

CanBeSentLink(i) ==
    /\ seat[i].live /\ seat[i].user = None
    /\ seat[i].estate \in let /\ status[seat[i].estate] = "draft"

FindInvitee(r, e) ==
    /\ Serving(r, "findInvitee", None, e)
    /\ req' = [req EXCEPT ![r] = IF CanBeSentLink(req[r].row)
                                 THEN [req[r] EXCEPT !.op = "sendLink"] ELSE Idle]
    /\ UNCHANGED tables

InviteTenantToApp(r, e, i) ==
    /\ Accepts(r, "inviteTenant")
    /\ seat[i].estate = e
    /\ CanBeSentLink(i)
    /\ Begin(r, [NewCall("sendLink", None, e) EXCEPT !.row = i])

\* A fresh code; links with an earlier one are dead.
CreateDynamicLink(r, e) ==
    /\ Serving(r, "sendLink", None, e)
    /\ seat' = [seat EXCEPT ![req[r].row].code = TRUE]
    /\ End(r)
    /\ UNCHANGED <<match, pipelineVars, estateVars, task, finalIncome>>

\* The link is checked against its own row, but the row to be connected is any
\* live row of the estate without a user.
AcceptOutsideTenant(r, u, e, i, j) ==
    /\ Accepts(r, "accept")
    /\ {i, j} \subseteq LiveSeats(e)
    /\ seat[i].code /\ seat[i].user = None /\ seat[j].user = None
    /\ StatusOf(u, e) # "finish"
    /\ Begin(r, [NewCall("accept", u, e) EXCEPT !.row = j, !.stage = StatusOf(u, e)])

\* One transaction.  The match is updated where it still has the stage that was
\* read, or inserted, which the unique key may refuse: then nothing is written.
StoreAccept(r, u, e) ==
    /\ Serving(r, "accept", u, e)
    /\ IF req[r].stage = "none" /\ Exists(u, e) THEN UNCHANGED <<match, task, estateVars, seat>>
       ELSE /\ match' = IF StatusOf(u, e) = req[r].stage
                        THEN [match EXCEPT ![<<u, e>>].status = "finish"] ELSE match
            /\ task' = ArchivedTasks(u, e)
            /\ Rented(e)
            /\ seat' = [seat EXCEPT ![req[r].row].user = u, ![req[r].row].code = FALSE]
    /\ End(r)
    /\ UNCHANGED <<pipelineVars, finalIncome>>

RevokeInvitation(r, e, i) ==
    /\ Accepts(r, "revoke")
    /\ i \in LiveSeats(e) /\ seat[i].user = None /\ seat[i].code
    /\ Begin(r, [NewCall("revoke", None, e) EXCEPT !.row = i])

StoreRevokeInvitation(r, e) ==
    /\ Serving(r, "revoke", None, e)
    /\ seat' = [seat EXCEPT ![req[r].row].code = FALSE]
    /\ End(r)
    /\ UNCHANGED <<match, pipelineVars, estateVars, task, finalIncome>>

\* Mutant: the match keeps its final stage.
StoreDisconnectOnly(r, u, e) ==
    /\ Serving(r, "disconnect", u, e)
    /\ seat' = [seat EXCEPT ![req[r].row].user = None, ![req[r].row].code = FALSE]
    /\ End(r)
    /\ UNCHANGED <<match, pipelineVars, estateVars, task, finalIncome>>

\* The row stays live and can be invited again; the estate stays let.
Disconnect(r, e, i) ==
    /\ Accepts(r, "disconnect")
    /\ i \in LiveSeats(e)
    /\ Begin(r, [NewCall("disconnect", seat[i].user, e) EXCEPT !.row = i])

StoreDisconnect(r, u, e) ==
    /\ Serving(r, "disconnect", u, e)
    /\ match' = [p \in Pairs |-> IF p = <<u, e>> /\ match[p].status = "finish"
                                 THEN [match[p] EXCEPT !.status = "new"] ELSE match[p]]
    /\ seat' = [seat EXCEPT ![req[r].row].user = None, ![req[r].row].code = FALSE]
    /\ End(r)
    /\ UNCHANGED <<pipelineVars, estateVars, task, finalIncome>>

\* The landlord may edit the tenants of a let estate only (hasPermission).
Expire(r, e, i) ==
    /\ Accepts(r, "expireTenant")
    /\ seat[i].estate = e /\ e \in let
    /\ Begin(r, [NewCall("expireTenant", None, e) EXCEPT !.row = i])

StoreExpire(r, e) ==
    /\ Serving(r, "expireTenant", None, e)
    /\ seat' = [seat EXCEPT ![req[r].row].live = FALSE]
    /\ End(r)
    /\ UNCHANGED <<match, pipelineVars, estateVars, task, finalIncome>>

\* The estate can go to the market again; the match of the tenant stays.
HandleDelete(r, e, i) ==
    /\ Accepts(r, "deleteTenant")
    /\ seat[i].estate = e /\ e \in let
    /\ Begin(r, [NewCall("deleteTenant", None, e) EXCEPT !.row = i])

StoreDelete(r, e) ==
    /\ Serving(r, "deleteTenant", None, e)
    /\ seat' = [seat EXCEPT ![req[r].row].live = FALSE]
    /\ let' = let \ {e}
    /\ End(r)
    /\ UNCHANGED <<match, pipelineVars, status, task, finalIncome>>

-----------------------------------------------------------------------------
LandlordStep(r, e, i) ==
    \/ StoreSingleInvitation(r, e, i)
    \/ InviteTenantToApp(r, e, i)
    \/ RevokeInvitation(r, e, i)
    \/ Disconnect(r, e, i)
    \/ Expire(r, e, i)
    \/ HandleDelete(r, e, i)

InvitationStep(r, e) ==
    \/ SingleInvitation(r, e) \/ FindInvitee(r, e) \/ CreateDynamicLink(r, e)
    \/ StoreRevokeInvitation(r, e) \/ StoreExpire(r, e) \/ StoreDelete(r, e)
    \/ \E u \in Users : StoreAccept(r, u, e)
    \/ \E u \in Users \cup {None} : StoreDisconnect(r, u, e)

TenantNext ==
    \E e \in Estates :
        \/ \E i \in Rows : AddCurrentTenant(e, i)
        \/ \E r \in Requests :
              \/ InvitationStep(r, e)
              \/ \E i \in Rows : LandlordStep(r, e, i)
              \/ \E u \in Users, i, j \in Rows : AcceptOutsideTenant(r, u, e, i, j)
=============================================================================
