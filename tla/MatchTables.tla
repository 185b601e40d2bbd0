---------------------------- MODULE MatchTables ----------------------------
(***************************************************************************)
(* The tables that the matching services of the backend share, and the     *)
(* requests that are being served.                                         *)
(*                                                                         *)
(* A request handler is an async function: it reads rows, decides, awaits, *)
(* and only then writes, usually in a transaction that was opened after    *)
(* the reads.  Other handlers run between the two.  A handler is therefore *)
(* an action that performs its reads and checks and records what it read   *)
(* in a request record, followed by one action per write (one per          *)
(* transaction, or one per statement when there is no transaction).        *)
(***************************************************************************)
EXTENDS Naturals, FiniteSets

CONSTANTS
    Users,          \* prospects
    ActiveTenants,  \* the prospects whose tenant profile is STATUS_ACTIVE
    Estates,        \* rental units
    NotShown,       \* the estates with is_not_show: no viewing appointments
    Category,       \* Category[e]: estates of the same unit category, e included
    Building,       \* Building[e]: estates of the same building, e included
    Slots,          \* bookable units of an estate's calendar
    Rows,           \* ids of rows of estate_current_tenants
    Requests,       \* handlers that can be in flight at the same time
    None,           \* no slot booked, no user or estate named by a request
    Idle,           \* a request slot that serves nothing
    Endpoints       \* the operations that clients and jobs call in this instance

ASSUME TablesAssumption ==
    /\ ActiveTenants \subseteq Users
    /\ NotShown \subseteq Estates
    /\ Category \in [Estates -> SUBSET Estates]
    /\ Building \in [Estates -> SUBSET Estates]
    /\ \A e \in Estates : e \in Category[e] /\ e \in Building[e]
    /\ \A e \in Estates : \A f \in Category[e] : Category[f] = Category[e]
    /\ None \notin Slots \cup Estates \cup Users \cup Rows

VARIABLES
    match,        \* matches: one row per user and estate (unique key)
    visit,        \* visits: the unit booked by a user at an estate
    likes,        \* likes: set of <<user, estate>>
    dislikes,     \* dislikes: set of <<user, estate>>
    slots,        \* time_slots: the units offered at an estate
    status,       \* estates.status
    let,          \* the estates with letting_type = LETTING_TYPE_LET
    task,         \* the system task of a user at an estate
    seat,         \* estate_current_tenants: who lives where
    finalIncome,  \* the users whose incomes are flagged is_final
    req           \* the requests in flight

pipelineVars == <<visit, likes, dislikes, slots>>
estateVars == <<status, let>>
finalVars == <<task, seat, finalIncome>>
tables == <<match, pipelineVars, estateVars, finalVars>>
vars == <<tables, req>>

-----------------------------------------------------------------------------
Pairs == Users \X Estates

\* MATCH_STATUS_NEW .. MATCH_STATUS_FINISH; "none" is a row that does not exist.
Stages == {"new", "knock", "invite", "visit", "share", "top", "commit", "finish"}

\* The numbers of the stages, which the code compares.
Level == [s \in Stages \cup {"none"} |->
            CASE s = "none" -> 0   [] s = "new" -> 1    [] s = "knock" -> 2
              [] s = "invite" -> 3 [] s = "visit" -> 4  [] s = "share" -> 5
              [] s = "top" -> 6    [] s = "commit" -> 7 [] s = "finish" -> 8]

Row == [status : Stages \cup {"none"}, share : BOOLEAN, buddy : BOOLEAN]
NoRow == [status |-> "none", share |-> FALSE, buddy |-> FALSE]

EstateStatus == {"active", "expire", "draft", "offline"}
TaskStatus == {"none", "open", "archived"}

\* A current tenant: without a user he is known to the landlord only, and with
\* a code he holds an invitation link.  Rows of expired or deleted tenants are
\* not live.
Seat == [estate : Estates \cup {None}, user : Users \cup {None},
         live : BOOLEAN, code : BOOLEAN]
NoSeat == [estate |-> None, user |-> None, live |-> FALSE, code |-> FALSE]

\* The parts of a handler that writes statement by statement.
Writes == {"match", "visit", "like", "dislike"}

\* The handlers that can be waiting, by the endpoint or the part of it that goes on.
Handlers == {"matchByUser", "newMatches", "matchByEstate", "addBuddy", "knock",
             "cancelKnock", "move", "invite", "inviteAfter", "cancelInvite", "book",
             "cancelVisit", "landlordCancel", "removeSlot", "updateSlot", "share",
             "cancelShare", "removeFromTop", "cancelTop", "cancelAction", "commit",
             "expireCommit", "confirm", "singleInvitation", "findInvitee", "sendLink",
             "accept", "revoke", "disconnect", "expireTenant", "deleteTenant",
             "publish", "unpublish"}

Call == [op : Handlers, user : Users \cup {None}, estate : Estates \cup {None},
         flag : BOOLEAN, slot : Slots \cup {None}, pairs : SUBSET Pairs,
         estates : SUBSET Estates, todo : SUBSET Writes, row : Rows \cup {None},
         stage : Stages \cup {"none"}]

ASSUME IdleAssumption == Idle \notin Call

TypeOK ==
    /\ match \in [Pairs -> Row]
    /\ visit \in [Pairs -> Slots \cup {None}]
    /\ likes \subseteq Pairs
    /\ dislikes \subseteq Pairs
    /\ slots \in [Estates -> SUBSET Slots]
    /\ status \in [Estates -> EstateStatus]
    /\ let \subseteq Estates
    /\ task \in [Pairs -> TaskStatus]
    /\ seat \in [Rows -> Seat]
    /\ finalIncome \subseteq Users
    /\ req \in [Requests -> Call \cup {Idle}]

\* A landlord's published estates, before any prospect acts on them.
Init ==
    /\ match = [p \in Pairs |-> NoRow]
    /\ visit = [p \in Pairs |-> None]
    /\ likes = {}
    /\ dislikes = {}
    /\ slots = [e \in Estates |-> {}]
    /\ status = [e \in Estates |-> "active"]
    /\ let = {}
    /\ task = [p \in Pairs |-> "none"]
    /\ seat = [i \in Rows |-> NoSeat]
    /\ finalIncome = {}
    /\ req = [r \in Requests |-> Idle]

-----------------------------------------------------------------------------
\* Requests in flight.

NewCall(op, u, e) ==
    [op |-> op, user |-> u, estate |-> e, flag |-> FALSE, slot |-> None,
     pairs |-> {}, estates |-> {}, todo |-> {}, row |-> None, stage |-> "none"]

Accepts(r, op) == op \in Endpoints /\ req[r] = Idle

\* The handler has read what it needs; nothing is written yet.
Begin(r, call) ==
    /\ req' = [req EXCEPT ![r] = call]
    /\ UNCHANGED tables

Serving(r, op, u, e) ==
    req[r] # Idle /\ req[r].op = op /\ req[r].user = u /\ req[r].estate = e

End(r) == req' = [req EXCEPT ![r] = Idle]

\* An operation that is a single statement or transaction with no read before it.
Served(op) == op \in Endpoints /\ (\E r \in Requests : req[r] = Idle) /\ UNCHANGED req

-----------------------------------------------------------------------------
\* Rows.

StatusOf(u, e) == match[<<u, e>>].status
Exists(u, e) == StatusOf(u, e) # "none"

\* UPDATE matches SET status WHERE user_id AND estate_id: no row, no effect.
WithStatus(u, e, s) ==
    IF Exists(u, e) THEN [match EXCEPT ![<<u, e>>].status = s] ELSE match

\* EstateService.getMatchEstate: the landlord's estate can still be handled.
MatchEstate(e) == status[e] \in {"active", "expire", "draft"}

\* EstateService.getActiveById: what a prospect can still act on.
ActiveById(e) == status[e] \in {"active", "expire", "offline"}

\* EstateService.getEstatesInSameCategory for the statuses that the match handlers pass.
SameCategory(e) ==
    IF Category[e] = {e} THEN {e} ELSE {f \in Category[e] : MatchEstate(f)}

\* TimeSlotService.getFreeTimeslots: an offered unit that no visit takes.
FreeSlots(e) == slots[e] \ {visit[<<u, e>>] : u \in Users}

\* Mutant: the status of the match is stored as that of the task.
WithTaskOfStage(u, e) ==
    IF task[<<u, e>>] = "none" THEN [task EXCEPT ![<<u, e>>] = StatusOf(u, e)] ELSE task

\* TaskService.createGlobalTask: one system task per prospect and estate.
WithTask(u, e) ==
    IF task[<<u, e>>] = "none" THEN [task EXCEPT ![<<u, e>>] = "open"] ELSE task

\* The rows of an estate that are neither expired nor deleted.
LiveSeats(e) == {i \in Rows : seat[i].live /\ seat[i].estate = e}

\* The row of an INSERT.  Ids are reused once their row is not live and no
\* request holds it: nothing tells such a row from one that never was.
InFlight == {r \in Requests : req[r] # Idle}
Unused(i) == ~seat[i].live /\ i \notin {req[r].row : r \in InFlight}
=============================================================================
