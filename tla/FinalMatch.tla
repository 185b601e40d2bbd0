----------------------------- MODULE FinalMatch -----------------------------
(***************************************************************************)
(* The end of the pipeline: the landlord requests the rental (COMMIT), the *)
(* prospect confirms (FINISH) and the estate is let to him.                *)
(***************************************************************************)
EXTENDS MatchTables
LOCAL INSTANCE TLC

\* The database driver delivers the count of the COMMITs as text, and every
\* text but the empty one is truthy: "0" as well as "1".
CommitCount(e) == ToString(Cardinality({u \in Users : StatusOf(u, e) = "commit"}))
CanRequestFinalCommit(e) == CommitCount(e) # ""

HasFinalMatch(e) == \E u \in Users : StatusOf(u, e) = "finish"

\* Mutant: whether the profile is shared is not looked at.
RequestUserCommitUnshared(r, u, e) ==
    /\ Accepts(r, "commit")
    /\ MatchEstate(e)
    /\ ~HasFinalMatch(e)
    /\ CanRequestFinalCommit(e)
    /\ StatusOf(u, e) = "top"
    /\ Begin(r, NewCall("commit", u, e))

RequestUserCommit(r, u, e) ==
    /\ Accepts(r, "commit")
    /\ MatchEstate(e)
    /\ ~HasFinalMatch(e)
    /\ CanRequestFinalCommit(e)
    /\ StatusOf(u, e) = "top" /\ match[<<u, e>>].share
    /\ Begin(r, NewCall("commit", u, e))

\* Mutants: the update does not repeat the stage; the incomes are forgotten.
RequestFinalConfirmAnyStage(r, u, e) ==
    /\ Serving(r, "commit", u, e)
    /\ match' = WithStatus(u, e, "commit")
    /\ finalIncome' = finalIncome \cup {u}
    /\ End(r)
    /\ UNCHANGED <<pipelineVars, estateVars, task, seat>>

RequestFinalConfirmOnly(r, u, e) ==
    /\ Serving(r, "commit", u, e)
    /\ match' = IF StatusOf(u, e) = "top" THEN WithStatus(u, e, "commit") ELSE match
    /\ End(r)
    /\ UNCHANGED <<pipelineVars, estateVars, finalVars>>

\* The update is guarded by the stage; whether it hit a row is not looked at.
RequestFinalConfirm(r, u, e) ==
    /\ Serving(r, "commit", u, e)
    /\ match' = IF StatusOf(u, e) = "top" THEN WithStatus(u, e, "commit") ELSE match
    /\ finalIncome' = finalIncome \cup {u}
    /\ End(r)
    /\ UNCHANGED <<pipelineVars, estateVars, task, seat>>

\* What tenantCancelCommit does for the prospect and for the job below.
CancelCommit(u, e) ==
    /\ match' = IF StatusOf(u, e) = "commit" THEN WithStatus(u, e, "top") ELSE match
    /\ finalIncome' = finalIncome \ {u}
    /\ UNCHANGED <<pipelineVars, estateVars, task, seat>>

TenantCancelCommit(u, e) ==
    /\ Served("cancelCommit")
    /\ CancelCommit(u, e)

\* The job that runs every minute collects the COMMITs that are too old ...
FindExpiredCommit(r, u, e) ==
    /\ Accepts(r, "expireCommit")
    /\ StatusOf(u, e) = "commit"
    /\ Begin(r, NewCall("expireCommit", u, e))

\* Mutant: the job ends before it has cancelled anything.
MoveNoExpiredFinalConfirm(r, u, e) ==
    /\ Serving(r, "expireCommit", u, e)
    /\ End(r)
    /\ UNCHANGED tables

\* ... and cancels them one by one.
MoveExpiredFinalConfirmToTop(r, u, e) ==
    /\ Serving(r, "expireCommit", u, e)
    /\ CancelCommit(u, e)
    /\ End(r)

Rentable(e) == e \notin let /\ status[e] \in {"active", "expire"}

\* finalConfirm reads the estate and the match outside its transaction.
FinalConfirm(r, u, e) ==
    /\ Accepts(r, "confirm")
    /\ Rentable(e)
    /\ StatusOf(u, e) = "commit"
    /\ Begin(r, NewCall("confirm", u, e))

\* Mutant: the tasks of the estate are deleted.
DeletedTasks(u, e) == [p \in Pairs |-> IF p[2] = e THEN "none" ELSE task[p]]

\* All tasks of the estate are archived, also the one that is created for u.
ArchivedTasks(u, e) ==
    [p \in Pairs |-> IF p[2] = e /\ WithTask(u, e)[p] # "none" THEN "archived" ELSE task[p]]

\* Mutant: letting_type is not set.
RentedInDraft(e) ==
    /\ status' = [status EXCEPT ![e] = "draft"]
    /\ UNCHANGED let

\* EstateService.rented: off the market.
Rented(e) ==
    /\ let' = let \cup {e}
    /\ status' = [status EXCEPT ![e] = "draft"]

\* The new row of the final tenant.
SeatOf(u, e) == [estate |-> e, user |-> u, live |-> TRUE, code |-> FALSE]

\* Mutants: the update does not repeat the stage; former tenants do not expire.
HandleFinalMatchAnyStage(r, u, e, i) ==
    /\ Serving(r, "confirm", u, e)
    /\ Unused(i)
    /\ match' = WithStatus(u, e, "finish")
    /\ task' = ArchivedTasks(u, e)
    /\ Rented(e)
    /\ seat' = [j \in Rows |->
                  IF j = i THEN SeatOf(u, e)
                  ELSE IF seat[j].estate = e THEN [seat[j] EXCEPT !.live = FALSE]
                  ELSE seat[j]]
    /\ End(r)
    /\ UNCHANGED <<pipelineVars, finalIncome>>

HandleFinalMatchBeside(r, u, e, i) ==
    /\ Serving(r, "confirm", u, e)
    /\ Unused(i)
    /\ match' = IF StatusOf(u, e) = "commit" THEN WithStatus(u, e, "finish") ELSE match
    /\ task' = ArchivedTasks(u, e)
    /\ Rented(e)
    /\ seat' = [seat EXCEPT ![i] = SeatOf(u, e)]
    /\ End(r)
    /\ UNCHANGED <<pipelineVars, finalIncome>>

\* Only the update of the match depends on what is still true.  The current
\* tenants of the estate expire and u gets a new row.
HandleFinalMatch(r, u, e, i) ==
    /\ Serving(r, "confirm", u, e)
    /\ Unused(i)
    /\ match' = IF StatusOf(u, e) = "commit" THEN WithStatus(u, e, "finish") ELSE match
    /\ task' = ArchivedTasks(u, e)
    /\ Rented(e)
    /\ seat' = [j \in Rows |->
                  IF j = i THEN SeatOf(u, e)
                  ELSE IF seat[j].estate = e THEN [seat[j] EXCEPT !.live = FALSE]
                  ELSE seat[j]]
    /\ End(r)
    /\ UNCHANGED <<pipelineVars, finalIncome>>

FinalStep(r, u, e) ==
    \/ RequestUserCommit(r, u, e) \/ RequestFinalConfirm(r, u, e)
    \/ FindExpiredCommit(r, u, e) \/ MoveExpiredFinalConfirmToTop(r, u, e)
    \/ FinalConfirm(r, u, e) \/ \E i \in Rows : HandleFinalMatch(r, u, e, i)

FinalNext ==
    \E u \in Users, e \in Estates :
        \/ TenantCancelCommit(u, e)
        \/ \E r \in Requests : FinalStep(r, u, e)
=============================================================================
