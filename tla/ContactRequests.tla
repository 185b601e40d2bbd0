-------------------------- MODULE ContactRequests --------------------------
(***************************************************************************)
(* Contact requests that arrive from market places.  Somebody who has      *)
(* asked for an estate there gets a link by mail; once he has signed up,   *)
(* logged in or confirmed his address, createKnock turns his open requests *)
(* into knocks, or into invitations where the landlord has invited, and    *)
(* closes them.  Requests are found by address and closed by account: the  *)
(* two have to stay the same thing.                                        *)
(***************************************************************************)
EXTENDS Naturals, FiniteSets

CONSTANTS
    Users,      \* prospects
    Emails,     \* their addresses
    Estates,
    Ids,        \* bound: rows of estate_sync_contact_requests ever inserted
    Calls,      \* handlers that can be in flight at the same time
    None,       \* no user, no address, no code, no link
    NoRow,      \* a row that was not inserted yet
    Idle        \* a call slot that serves nothing

ASSUME ContactAssumption ==
    /\ None \notin Users
    /\ None \notin Emails
    /\ None \notin Ids

VARIABLES
    account,     \* the users, by prospect
    request,     \* contact requests by id
    links,       \* the links that were sent, with the code each of them holds
    interacted,  \* the matches that hasInteracted finds
    estate,      \* whether an estate is on the market and has free slots
    call,        \* the handlers in flight
    crossed      \* history: two handlers have been in flight together

vars == <<account, request, links, interacted, estate, call, crossed>>

Account == [status : {"none", "unverified", "active"}, email : Emails \cup {None}]

\* STATUS_DRAFT, STATUS_EMAIL_VERIFY, STATUS_ACTIVE and STATUS_EXPIRE.  The code
\* of a row is its id until it is cleared.
Row == [estate : Estates, email : Emails, status : {"draft", "verify", "active", "expired"},
        user : Users \cup {None}, code : Ids \cup {None}, invited : BOOLEAN]

Link == [estate : Estates, email : Emails, code : Ids \cup {None}]

\* What a handler keeps while it waits.
ContactCall == [op : {"contact"}, estate : Estates, email : Emails, user : Users \cup {None}]
PendingCall == [op : {"pending", "assign"}, user : Users, link : Link, knocks : BOOLEAN]
KnockCall == [op : {"find"}, user : Users, email : Emails, statuses : SUBSET {"draft", "verify"}]
StoreCall == [op : {"store"}, user : Users, email : Emails, found : SUBSET (Ids \X BOOLEAN)]
CloseCall == [op : {"close"}, user : Users]
Call == ContactCall \cup PendingCall \cup KnockCall \cup StoreCall \cup CloseCall

TypeOK ==
    /\ account \in [Users -> Account]
    /\ request \in [Ids -> Row \cup {NoRow}]
    /\ links \subseteq Link
    /\ interacted \subseteq Users \X Estates
    /\ estate \in [Estates -> [active : BOOLEAN, slots : BOOLEAN]]
    /\ call \in [Calls -> Call \cup {Idle}]
    /\ crossed \in BOOLEAN

Init ==
    /\ account = [u \in Users |-> [status |-> "none", email |-> None]]
    /\ request = [q \in Ids |-> NoRow]
    /\ links = {}
    /\ interacted = {}
    /\ estate \in [Estates -> [active : {TRUE}, slots : BOOLEAN]]
    /\ call = [c \in Calls |-> Idle]
    /\ crossed = FALSE

-----------------------------------------------------------------------------
Serving(c, op) == call[c] # Idle /\ call[c].op = op

Begin(c, new) ==
    /\ call[c] = Idle
    /\ call' = [call EXCEPT ![c] = new]
    /\ crossed' = (crossed \/ \E d \in Calls : call[d] # Idle)

GoesOn(c, new) == call' = [call EXCEPT ![c] = new] /\ UNCHANGED crossed
Ends(c) == GoesOn(c, Idle)

Rows == {q \in Ids : request[q] # NoRow}
RowsOf(e, m) == {q \in Rows : request[q].estate = e /\ request[q].email = m}
OwnersOf(m) == {u \in Users : account[u].status # "none" /\ account[u].email = m}
Open(q) == request[q].status \in {"draft", "verify"}

-----------------------------------------------------------------------------
\* The market place and the landlord.

\* createContact, from the webhook or from the administrator's page: the estate
\* is published, nobody has asked for it from this address, and the account of
\* the address is looked up for the link.
FindContact(c, e, m, u) ==
    /\ estate[e].active
    /\ RowsOf(e, m) = {}
    /\ u \in IF OwnersOf(m) = {} THEN {None} ELSE OwnersOf(m)
    /\ Begin(c, [op |-> "contact", estate |-> e, email |-> m, user |-> u])
    /\ UNCHANGED <<account, request, links, interacted, estate>>

\* handlePendingKnock; the table allows one row for an address and an estate.
StoreContact(c, q) ==
    LET e == call[c].estate
        m == call[c].email
        u == call[c].user
    IN  /\ Serving(c, "contact")
        /\ RowsOf(e, m) = {}
        /\ request[q] = NoRow
        /\ request' = [request EXCEPT ![q] =
              [estate |-> e, email |-> m, status |-> IF u = None THEN "draft" ELSE "verify",
               user |-> u, code |-> q, invited |-> FALSE]]
        /\ links' = links \cup {[estate |-> e, email |-> m, code |-> q]}
        /\ Ends(c)
        /\ UNCHANGED <<account, interacted, estate>>

ContactExists(c) ==
    /\ Serving(c, "contact")
    /\ RowsOf(call[c].estate, call[c].email) # {}
    /\ Ends(c)
    /\ UNCHANGED <<account, request, links, interacted, estate>>

\* inviteByLandlord sends a link with the code of the row or, when it has none
\* any more, with a fresh one that is stored nowhere.
InviteByLandlord(q) ==
    /\ q \in Rows
    /\ request[q].status # "expired"
    /\ request' = [request EXCEPT ![q].invited = TRUE]
    /\ links' = links \cup {[estate |-> request[q].estate, email |-> request[q].email,
                            code |-> request[q].code]}
    /\ UNCHANGED <<account, interacted, estate, call, crossed>>

\* The estate leaves the market or comes back, its calendar fills or empties.
ChangeEstate(e) ==
    /\ \E now \in [active : BOOLEAN, slots : BOOLEAN] : estate' = [estate EXCEPT ![e] = now]
    /\ UNCHANGED <<account, request, links, interacted, call, crossed>>

\* The prospect knocks, or takes a knock back, without any request.
KnockOrCancel(u, e) ==
    /\ account[u].status = "active"
    /\ interacted' = (interacted \ {<<u, e>>}) \cup ({<<u, e>>} \ interacted)
    /\ UNCHANGED <<account, request, links, estate, call, crossed>>

-----------------------------------------------------------------------------
\* The prospect comes, with a link that he was sent, or that was passed on to
\* him, or with none.

Pending(u, l, knocks) == [op |-> "pending", user |-> u, link |-> l, knocks |-> knocks]

\* Mutant: closed requests are looked for as well.
ByLinkAnyStatus(u, l) ==
    [op |-> "find", user |-> u, email |-> l.email,
     statuses |-> {"draft", "verify", "active", "expired"}]

\* createKnock looks for the requests of the address in the link, verified or not.
ByLink(u, l) == [op |-> "find", user |-> u, email |-> l.email, statuses |-> {"draft", "verify"}]

\* signup commits the account and then looks at the link.
SignUp(c, u, m, l) ==
    /\ account[u].status = "none"
    /\ OwnersOf(m) = {}
    /\ account' = [account EXCEPT ![u] = [status |-> "unverified", email |-> m]]
    /\ IF l = None THEN UNCHANGED <<call, crossed>> ELSE Begin(c, Pending(u, l, FALSE))
    /\ UNCHANGED <<request, links, interacted, estate>>

\* handleSignUp and handleLogin of OAuthController: an account that comes from a
\* social sign-up is active at once, and its requests are not made pending.
SocialSignUp(c, u, m, l) ==
    /\ account[u].status = "none"
    /\ OwnersOf(m) = {}
    /\ account' = [account EXCEPT ![u] = [status |-> "active", email |-> m]]
    /\ Begin(c, ByLink(u, l))
    /\ UNCHANGED <<request, links, interacted, estate>>

\* handleLogin activates; createKnock of MarketPlaceController asks for an active
\* account.  Both make the requests pending and then knock.
SocialLogin(c, u, l) ==
    /\ account[u].status # "none"
    /\ account' = [account EXCEPT ![u].status = "active"]
    /\ Begin(c, Pending(u, l, TRUE))
    /\ UNCHANGED <<request, links, interacted, estate>>

\* confirmEmail.
ConfirmEmail(c, u) ==
    /\ account[u].status = "unverified"
    /\ Begin(c, [op |-> "find", user |-> u, email |-> account[u].email, statuses |-> {"verify"}])
    /\ UNCHANGED <<account, request, links, interacted, estate>>

-----------------------------------------------------------------------------
\* createPendingKnock.

\* The request of a link that opens it for this account.
OpenedBy(u, l) ==
    {q \in RowsOf(l.estate, l.email) :
        /\ ~(request[q].user = u /\ request[q].status = "expired")
        /\ request[q].code # None /\ l.code = request[q].code
        /\ l.email # account[u].email => RowsOf(l.estate, account[u].email) = {}}

AfterPending(c) == IF call[c].knocks THEN ByLink(call[c].user, call[c].link) ELSE Idle

\* The checks pass; the update is still to come.
LinkOpens(c) ==
    /\ Serving(c, "pending")
    /\ OpenedBy(call[c].user, call[c].link) # {}
    /\ GoesOn(c, [call[c] EXCEPT !.op = "assign"])
    /\ UNCHANGED <<account, request, links, interacted, estate>>

\* The requests of the address in the link, and the others that the address of
\* the account already has.
Theirs(c) == {q \in Rows : request[q].email = call[c].link.email}
Clashes(c) ==
    \E q \in Theirs(c), p \in Rows \ Theirs(c) :
        /\ request[p].email = account[call[c].user].email
        /\ request[p].estate = request[q].estate

\* Mutant: the status is left as it is.
StorePendingKnockOnly(c) ==
    LET u == call[c].user
    IN  /\ Serving(c, "assign")
        /\ ~Clashes(c)
        /\ request' = [q \in Ids |->
              IF q \in Theirs(c) THEN [request[q] EXCEPT !.email = account[u].email, !.user = u]
              ELSE request[q]]
        /\ GoesOn(c, AfterPending(c))
        /\ UNCHANGED <<account, links, interacted, estate>>

\* All the requests of the address in the link go to the account, closed ones
\* too.
StorePendingKnock(c) ==
    LET u == call[c].user
    IN  /\ Serving(c, "assign")
        /\ ~Clashes(c)
        /\ request' = [q \in Ids |->
              IF q \in Theirs(c)
              THEN [request[q] EXCEPT !.email = account[u].email, !.status = "verify", !.user = u]
              ELSE request[q]]
        /\ GoesOn(c, AfterPending(c))
        /\ UNCHANGED <<account, links, interacted, estate>>

\* The address of the account already has a request for one of these estates:
\* the update violates the key.
PendingKnockFails(c) ==
    /\ Serving(c, "assign")
    /\ Clashes(c)
    /\ Ends(c)
    /\ UNCHANGED <<account, request, links, interacted, estate>>

LinkIgnored(c) ==
    /\ Serving(c, "pending")
    /\ OpenedBy(call[c].user, call[c].link) = {}
    /\ GoesOn(c, AfterPending(c))
    /\ UNCHANGED <<account, request, links, interacted, estate>>

-----------------------------------------------------------------------------
\* createKnock and sendBulkKnockWebsocket.

FindKnocks(c) ==
    /\ Serving(c, "find")
    /\ GoesOn(c, [op |-> "store", user |-> call[c].user, email |-> call[c].email,
                  found |-> {<<q, request[q].invited>> :
                                q \in {p \in Rows : /\ request[p].email = call[c].email
                                                    /\ request[p].status \in call[c].statuses}}])
    /\ UNCHANGED <<account, request, links, interacted, estate>>

ToKnock(c) == {f \in call[c].found : <<call[c].user, request[f[1]].estate>> \notin interacted}

\* knockEstate needs an active estate, matchInviteAfter a free slot.
Possible(f) == LET e == request[f[1]].estate IN IF f[2] THEN estate[e].slots ELSE estate[e].active

\* The account is active, what was found has its match, and every request of the
\* account is closed.
Knocked(c, fs) ==
    LET u == call[c].user
    IN  /\ interacted' = interacted \cup {<<u, request[f[1]].estate>> : f \in fs}
        /\ request' = [q \in Ids |->
              IF q \in Rows /\ request[q].user = u
              THEN [request[q] EXCEPT !.code = None, !.status = "active"] ELSE request[q]]
        /\ account' = [account EXCEPT ![u].status = "active"]
        /\ GoesOn(c, [op |-> "close", user |-> u])
        /\ UNCHANGED <<links, estate>>

\* Mutant: what cannot be knocked is skipped.
StoreKnocksSkipping(c) ==
    /\ Serving(c, "store")
    /\ Knocked(c, {f \in ToKnock(c) : Possible(f)})

StoreKnocks(c) ==
    /\ Serving(c, "store")
    /\ \A f \in ToKnock(c) : Possible(f)
    /\ Knocked(c, ToKnock(c))

\* One knock that is not possible rolls everything back.
KnockFails(c) ==
    /\ Serving(c, "store")
    /\ \E f \in ToKnock(c) : ~Possible(f)
    /\ Ends(c)
    /\ UNCHANGED <<account, request, links, interacted, estate>>

\* After the commit, whatever the account has is expired.
CloseRequests(c) ==
    /\ Serving(c, "close")
    /\ request' = [q \in Ids |->
          IF q \in Rows /\ request[q].user = call[c].user
          THEN [request[q] EXCEPT !.code = None, !.status = "expired"] ELSE request[q]]
    /\ Ends(c)
    /\ UNCHANGED <<account, links, interacted, estate>>

-----------------------------------------------------------------------------
Next ==
    \/ \E q \in Ids : InviteByLandlord(q)
    \/ \E e \in Estates : ChangeEstate(e) \/ \E u \in Users : KnockOrCancel(u, e)
    \/ \E c \in Calls :
          \/ \E e \in Estates, m \in Emails, u \in Users \cup {None} : FindContact(c, e, m, u)
          \/ \E q \in Ids : StoreContact(c, q)
          \/ ContactExists(c)
          \/ \E u \in Users :
                \/ ConfirmEmail(c, u)
                \/ \E l \in links : SocialLogin(c, u, l)
                \/ \E m \in Emails :
                      \/ \E l \in links \cup {None} : SignUp(c, u, m, l)
                      \/ \E l \in links : SocialSignUp(c, u, m, l)
          \/ LinkOpens(c) \/ LinkIgnored(c) \/ StorePendingKnock(c) \/ PendingKnockFails(c)
          \/ FindKnocks(c) \/ StoreKnocks(c) \/ KnockFails(c) \/ CloseRequests(c)

Spec == Init /\ [][Next]_vars

-----------------------------------------------------------------------------
\* However handlers cross and whoever uses a link: an open request that belongs
\* to an account carries the address of that account, and is one that
\* confirmEmail looks for.
OpenIsFindable ==
    \A q \in Rows :
        Open(q) /\ request[q].user # None
            => request[q].status = "verify" /\ request[q].email = account[request[q].user].email

\* "user knocked on marketplace we knock him on ours" (createKnock): with the
\* handlers one after the other, and links that are used by the account of
\* their address, no request is closed without a match.
ClosedIsMatched ==
    [][(/\ ~crossed
        /\ \A c \in Calls : Serving(c, "store") => call[c].email = account[call[c].user].email)
       => \A q \in Rows : Open(q) /\ ~Open(q)' =>
             <<request'[q].user, request[q].estate>> \in interacted']_vars
=============================================================================
