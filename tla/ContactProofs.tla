--------------------------- MODULE ContactProofs ---------------------------
(***************************************************************************)
(* Whoever uses a link, and however handlers cross, an open request that   *)
(* belongs to an account can be found by the address of that account, and  *)
(* a request is closed only with a match, handlers one after the other.    *)
(***************************************************************************)
EXTENDS ContactRequests, TLAPS

Registered(u) == account[u].status # "none"

\* The handlers that work for an account.
ForAccount(c) == Serving(c, "pending") \/ Serving(c, "assign") \/ Serving(c, "find") \/ Serving(c, "store")

\* A request belongs to a registered account, and so does a handler that is
\* about to give requests to it or to activate it.
BelongsToRegistered ==
    /\ \A q \in Rows : request[q].user # None => Registered(request[q].user)
    /\ \A c \in Calls : ForAccount(c) => Registered(call[c].user)

\* The account that a handler has found for an address still has it.
ContactsKnown ==
    \A c \in Calls : Serving(c, "contact") /\ call[c].user # None =>
        Registered(call[c].user) /\ account[call[c].user].email = call[c].email

\* Who is registered has an address.
HasAddress == \A u \in Users : Registered(u) => account[u].email \in Emails

\* What a handler has found to knock at is still there: no request is ever removed.
FoundRemain == \A c \in Calls : Serving(c, "store") => \A f \in call[c].found : request[f[1]] \in Row

IInv == TypeOK /\ HasAddress /\ BelongsToRegistered /\ ContactsKnown /\ FoundRemain /\ OpenIsFindable

-----------------------------------------------------------------------------
\* What a handler of each kind keeps.
LEMMA Fields ==
    ASSUME TypeOK, NEW c \in Calls
    PROVE  /\ Serving(c, "contact") => call[c] \in ContactCall
           /\ Serving(c, "pending") \/ Serving(c, "assign") => call[c] \in PendingCall
           /\ Serving(c, "find") => call[c] \in KnockCall
           /\ Serving(c, "store") => call[c] \in StoreCall
           /\ Serving(c, "close") => call[c] \in CloseCall
BY DEF TypeOK, Serving, Call, ContactCall, PendingCall, KnockCall, StoreCall, CloseCall

LEMMA CrossedIsBoolean ==
    ASSUME crossed \in BOOLEAN, NEW c, NEW new, Begin(c, new) PROVE crossed' \in BOOLEAN
<1> DEFINE busy == \E d \in Calls : call[d] # Idle
<1>1. busy \in BOOLEAN
  OBVIOUS
<1>2. crossed' = (crossed \/ busy)
  BY DEF Begin
<1> HIDE DEF busy
<1> QED BY <1>1, <1>2

\* A new handler, or the next part of one, is a call.
LEMMA BeginTyped ==
    ASSUME TypeOK, NEW c \in Calls, NEW new \in Call, Begin(c, new)
    PROVE  call' \in [Calls -> Call \cup {Idle}] /\ crossed' \in BOOLEAN
BY CrossedIsBoolean DEF TypeOK, Begin

LEMMA GoesOnTyped ==
    ASSUME TypeOK, NEW c \in Calls, NEW new \in Call \cup {Idle}, GoesOn(c, new)
    PROVE  call' \in [Calls -> Call \cup {Idle}] /\ crossed' \in BOOLEAN
BY DEF TypeOK, GoesOn

LEMMA ByLinkIsCall ==
    ASSUME NEW u \in Users, NEW l \in Link PROVE ByLink(u, l) \in KnockCall
BY DEF ByLink, KnockCall, Link

LEMMA Closing ==
    ASSUME TypeOK, NEW q \in Rows, NEW s \in {"active", "expired"}
    PROVE  [request[q] EXCEPT !.code = None, !.status = s] \in Row
<1>1. request[q] \in Row
  BY DEF TypeOK, Rows
<1> QED BY <1>1 DEF Row

-----------------------------------------------------------------------------
\* Nothing but well typed rows and calls is written.
LEMMA TypeStep ==
    ASSUME TypeOK, HasAddress, BelongsToRegistered, FoundRemain, [Next]_vars PROVE TypeOK'
<1> USE DEF TypeOK
<1>a. ASSUME NEW q \in Ids, InviteByLandlord(q) PROVE TypeOK'
  <2>1. request[q] \in Row
    BY <1>a DEF InviteByLandlord, Rows
  <2>2. [request[q] EXCEPT !.invited = TRUE] \in Row
    BY <2>1 DEF Row
  <2>3. [estate |-> request[q].estate, email |-> request[q].email, code |-> request[q].code] \in Link
    BY <2>1 DEF Row, Link
  <2> QED BY <1>a, <2>2, <2>3 DEF InviteByLandlord
<1>b. ASSUME NEW e \in Estates, ChangeEstate(e) PROVE TypeOK'
  BY <1>b DEF ChangeEstate
<1>c. ASSUME NEW e \in Estates, NEW u \in Users, KnockOrCancel(u, e) PROVE TypeOK'
  BY <1>c DEF KnockOrCancel
<1>d. ASSUME NEW c \in Calls, NEW e \in Estates, NEW m \in Emails, NEW u \in Users \cup {None},
             FindContact(c, e, m, u)
      PROVE  TypeOK'
  <2>1. [op |-> "contact", estate |-> e, email |-> m, user |-> u] \in Call
    BY DEF Call, ContactCall
  <2> QED BY <1>d, <2>1, BeginTyped DEF FindContact
<1>e. ASSUME NEW c \in Calls, NEW q \in Ids, StoreContact(c, q) PROVE TypeOK'
  <2>1. call[c] \in ContactCall
    BY <1>e, Fields DEF StoreContact
  <2>2. call' \in [Calls -> Call \cup {Idle}] /\ crossed' \in BOOLEAN
    BY <1>e, GoesOnTyped DEF StoreContact, Ends
  <2>3. request' \in [Ids -> Row \cup {NoRow}]
    BY <1>e, <2>1 DEF StoreContact, ContactCall, Row
  <2>4. links' \subseteq Link
    BY <1>e, <2>1 DEF StoreContact, ContactCall, Link
  <2> QED BY <1>e, <2>2, <2>3, <2>4 DEF StoreContact
<1>f. ASSUME NEW c \in Calls, ContactExists(c) \/ PendingKnockFails(c) \/ KnockFails(c) PROVE TypeOK'
  BY <1>f, GoesOnTyped DEF ContactExists, PendingKnockFails, KnockFails, Ends
<1>g. ASSUME NEW c \in Calls, NEW u \in Users, NEW m \in Emails, NEW l \in links \cup {None},
             SignUp(c, u, m, l)
      PROVE  TypeOK'
  <2>1. account' \in [Users -> Account]
    BY <1>g DEF SignUp, Account
  <2>2. call' \in [Calls -> Call \cup {Idle}] /\ crossed' \in BOOLEAN
    <3>1. CASE l = None
      BY <1>g, <3>1 DEF SignUp
    <3>2. CASE l # None
      <4>1. Pending(u, l, FALSE) \in Call
        BY <3>2 DEF Pending, Call, PendingCall
      <4> QED BY <1>g, <3>2, <4>1, BeginTyped DEF SignUp
    <3> QED BY <3>1, <3>2
  <2> QED BY <1>g, <2>1, <2>2 DEF SignUp
<1>h. ASSUME NEW c \in Calls, NEW u \in Users, NEW m \in Emails, NEW l \in links, SocialSignUp(c, u, m, l)
      PROVE  TypeOK'
  <2>1. account' \in [Users -> Account]
    BY <1>h DEF SocialSignUp, Account
  <2>2. ByLink(u, l) \in Call
    BY ByLinkIsCall DEF Call
  <2> QED BY <1>h, <2>1, <2>2, BeginTyped DEF SocialSignUp
<1>i. ASSUME NEW c \in Calls, NEW u \in Users, NEW l \in links, SocialLogin(c, u, l) PROVE TypeOK'
  <2>1. account' \in [Users -> Account]
    BY <1>i DEF SocialLogin, Account
  <2>2. Pending(u, l, TRUE) \in Call
    BY DEF Pending, Call, PendingCall
  <2> QED BY <1>i, <2>1, <2>2, BeginTyped DEF SocialLogin
<1>j. ASSUME NEW c \in Calls, NEW u \in Users, ConfirmEmail(c, u) PROVE TypeOK'
  <2>1. [op |-> "find", user |-> u, email |-> account[u].email, statuses |-> {"verify"}] \in Call
    BY <1>j DEF ConfirmEmail, HasAddress, Registered, Call, KnockCall
  <2> QED BY <1>j, <2>1, BeginTyped DEF ConfirmEmail
<1>k. ASSUME NEW c \in Calls, LinkOpens(c) PROVE TypeOK'
  <2>1. [call[c] EXCEPT !.op = "assign"] \in Call
    BY <1>k, Fields DEF LinkOpens, Call, PendingCall
  <2> QED BY <1>k, <2>1, GoesOnTyped DEF LinkOpens
<1>l. ASSUME NEW c \in Calls, LinkIgnored(c) PROVE TypeOK'
  <2>1. AfterPending(c) \in Call \cup {Idle}
    BY <1>l, Fields, ByLinkIsCall DEF LinkIgnored, AfterPending, Call, PendingCall
  <2> QED BY <1>l, <2>1, GoesOnTyped DEF LinkIgnored
<1>m. ASSUME NEW c \in Calls, StorePendingKnock(c) PROVE TypeOK'
  <2>1. call[c] \in PendingCall /\ account[call[c].user].email \in Emails
    BY <1>m, Fields DEF StorePendingKnock, PendingCall, HasAddress, BelongsToRegistered, ForAccount
  <2>2. AfterPending(c) \in Call \cup {Idle}
    BY <2>1, ByLinkIsCall DEF AfterPending, Call, PendingCall
  <2>3. request' \in [Ids -> Row \cup {NoRow}]
    <3>1. ASSUME NEW q \in Theirs(c)
          PROVE  [request[q] EXCEPT !.email = account[call[c].user].email, !.status = "verify",
                                    !.user = call[c].user] \in Row
      <4>1. request[q] \in Row
        BY DEF Theirs, Rows
      <4> QED BY <2>1, <4>1 DEF Row, PendingCall
    <3> QED BY <1>m, <3>1 DEF StorePendingKnock
  <2> QED BY <1>m, <2>2, <2>3, GoesOnTyped DEF StorePendingKnock
<1>n. ASSUME NEW c \in Calls, FindKnocks(c) PROVE TypeOK'
  <2>1. call[c] \in KnockCall
    BY <1>n, Fields DEF FindKnocks
  <2>2. ASSUME NEW q \in Rows PROVE request[q].invited \in BOOLEAN
    BY DEF Rows, Row
  <2>3. [op |-> "store", user |-> call[c].user, email |-> call[c].email,
         found |-> {<<q, request[q].invited>> :
                       q \in {p \in Rows : /\ request[p].email = call[c].email
                                           /\ request[p].status \in call[c].statuses}}] \in Call
    BY <2>1, <2>2 DEF Call, KnockCall, StoreCall, Rows
  <2> QED BY <1>n, <2>3, GoesOnTyped DEF FindKnocks
<1>o. ASSUME NEW c \in Calls, StoreKnocks(c) PROVE TypeOK'
  <2>1. call[c] \in StoreCall
    BY <1>o, Fields DEF StoreKnocks
  <2>2. [op |-> "close", user |-> call[c].user] \in Call
    BY <2>1 DEF Call, CloseCall, StoreCall
  <2>3. request' \in [Ids -> Row \cup {NoRow}]
    BY <1>o, Closing DEF StoreKnocks, Knocked
  <2>4. interacted' \subseteq Users \X Estates
    <3>1. ASSUME NEW f \in ToKnock(c) PROVE <<call[c].user, request[f[1]].estate>> \in Users \X Estates
      BY <2>1, <1>o DEF FoundRemain, StoreKnocks, StoreCall, ToKnock, Row
    <3> QED BY <1>o, <3>1 DEF StoreKnocks, Knocked
  <2>5. account' \in [Users -> Account]
    BY <1>o, <2>1 DEF StoreKnocks, Knocked, Account
  <2> QED BY <1>o, <2>2, <2>3, <2>4, <2>5, GoesOnTyped DEF StoreKnocks, Knocked
<1>p. ASSUME NEW c \in Calls, CloseRequests(c) PROVE TypeOK'
  <2>1. request' \in [Ids -> Row \cup {NoRow}]
    BY <1>p, Closing DEF CloseRequests
  <2> QED BY <1>p, <2>1, GoesOnTyped DEF CloseRequests, Ends
<1>q. CASE UNCHANGED vars
  BY <1>q DEF vars
<1> QED
  BY <1>a, <1>b, <1>c, <1>d, <1>e, <1>f, <1>g, <1>h, <1>i, <1>j, <1>k, <1>l, <1>m, <1>n, <1>o, <1>p, <1>q
     DEF Next

-----------------------------------------------------------------------------
\* A request stays one.
LEMMA RequestRemains ==
    ASSUME TypeOK, HasAddress, BelongsToRegistered, [Next]_vars, NEW q \in Ids, request[q] \in Row
    PROVE  request'[q] \in Row
<1> USE DEF TypeOK
<1>a. ASSUME NEW p \in Ids, InviteByLandlord(p) PROVE request'[q] \in Row
  <2>1. request'[q] \in {request[q], [request[q] EXCEPT !.invited = TRUE]}
    BY <1>a DEF InviteByLandlord
  <2> QED BY <2>1 DEF Row
<1>b. ASSUME NEW c \in Calls, NEW p \in Ids, StoreContact(c, p) PROVE request'[q] \in Row
  <2>1. call[c] \in ContactCall
    BY <1>b, Fields DEF StoreContact
  <2> QED BY <1>b, <2>1 DEF StoreContact, ContactCall, Row
<1>c. ASSUME NEW c \in Calls, StorePendingKnock(c) PROVE request'[q] \in Row
  <2>1. call[c].user \in Users /\ account[call[c].user].email \in Emails
    BY <1>c, Fields DEF StorePendingKnock, PendingCall, HasAddress, BelongsToRegistered, ForAccount
  <2>2. [request[q] EXCEPT !.email = account[call[c].user].email, !.status = "verify",
                           !.user = call[c].user] \in Row
    BY <2>1 DEF Row
  <2> QED BY <1>c, <2>2 DEF StorePendingKnock
<1>d. ASSUME NEW s \in {"active", "expired"} PROVE [request[q] EXCEPT !.code = None, !.status = s] \in Row
  BY DEF Row
<1>e. ASSUME NEW c \in Calls, StoreKnocks(c) \/ CloseRequests(c) PROVE request'[q] \in Row
  BY <1>d, <1>e DEF StoreKnocks, Knocked, CloseRequests
<1>f. CASE UNCHANGED request
  BY <1>f
<1> QED
  BY <1>a, <1>b, <1>c, <1>e, <1>f
     DEF Next, vars, ChangeEstate, KnockOrCancel, FindContact, ContactExists, SignUp, SocialSignUp, SocialLogin,
         ConfirmEmail, LinkOpens, LinkIgnored, PendingKnockFails, FindKnocks, KnockFails

LEMMA FoundStays ==
    ASSUME TypeOK, HasAddress, BelongsToRegistered, FoundRemain, [Next]_vars PROVE FoundRemain'
<1> SUFFICES ASSUME NEW c \in Calls, Serving(c, "store")', NEW f \in call'[c].found
             PROVE  request'[f[1]] \in Row
  BY DEF FoundRemain
<1>k. CASE call'[c] = call[c]
  <2>1. Serving(c, "store") /\ f \in call[c].found
    BY <1>k DEF Serving
  <2>2. f[1] \in Ids /\ request[f[1]] \in Row
    BY <2>1, Fields DEF FoundRemain, StoreCall
  <2> QED BY <2>2, RequestRemains
<1>b. ASSUME NEW d \in Calls, NEW new, Begin(d, new) \/ GoesOn(d, new)
      PROVE  call'[c] = call[c] \/ call'[c] = new
  BY <1>b DEF TypeOK, Begin, GoesOn
<1>o. ASSUME NEW d \in Calls, NEW new, new = Idle \/ new.op # "store", Begin(d, new) \/ GoesOn(d, new)
      PROVE  request'[f[1]] \in Row
  BY <1>b, <1>k, <1>o DEF Serving
<1>f. ASSUME NEW d \in Calls, FindKnocks(d) PROVE request'[f[1]] \in Row
  <2>1. CASE call'[c] # call[c]
    <3>1. call'[c].found = {<<q, request[q].invited>> :
                               q \in {p \in Rows : /\ request[p].email = call[d].email
                                                   /\ request[p].status \in call[d].statuses}}
      BY <1>b, <1>f, <2>1 DEF FindKnocks
    <3>2. f[1] \in Ids /\ request[f[1]] \in Row
      BY <3>1 DEF Rows, TypeOK
    <3> QED BY <3>2, RequestRemains
  <2> QED BY <1>k, <2>1
<1>g. ASSUME NEW d \in Calls, LinkOpens(d) PROVE request'[f[1]] \in Row
  <2>1. [call[d] EXCEPT !.op = "assign"].op = "assign"
    BY <1>g, Fields DEF LinkOpens, PendingCall
  <2> QED BY <1>g, <1>o, <2>1 DEF LinkOpens
<1>h. ASSUME NEW d \in Calls, LinkIgnored(d) \/ StorePendingKnock(d) PROVE request'[f[1]] \in Row
  <2>1. AfterPending(d) = Idle \/ AfterPending(d).op # "store"
    BY DEF AfterPending, ByLink
  <2> QED BY <1>h, <1>o, <2>1 DEF LinkIgnored, StorePendingKnock
<1>i. ASSUME NEW d \in Calls, StoreKnocks(d) PROVE request'[f[1]] \in Row
  BY <1>i, <1>o DEF StoreKnocks, Knocked
<1>j. ASSUME NEW d \in Calls, \/ ContactExists(d) \/ PendingKnockFails(d) \/ KnockFails(d) \/ CloseRequests(d)
                              \/ \E p \in Ids : StoreContact(d, p)
      PROVE  request'[f[1]] \in Row
  BY <1>j, <1>o DEF ContactExists, PendingKnockFails, KnockFails, CloseRequests, StoreContact, Ends
<1>l. ASSUME NEW d \in Calls, NEW u \in Users,
             \/ ConfirmEmail(d, u)
             \/ \E l \in links : SocialLogin(d, u, l)
             \/ \E m \in Emails : \E l \in links : SocialSignUp(d, u, m, l)
      PROVE  request'[f[1]] \in Row
  BY <1>l, <1>o DEF ConfirmEmail, SocialLogin, SocialSignUp, Pending, ByLink
<1>m. ASSUME NEW d \in Calls, NEW u \in Users, NEW m \in Emails, NEW l \in links \cup {None}, SignUp(d, u, m, l)
      PROVE  request'[f[1]] \in Row
  BY <1>k, <1>m, <1>o DEF SignUp, Pending
<1>n. ASSUME NEW d \in Calls, NEW e \in Estates, NEW m \in Emails, NEW u \in Users \cup {None},
             FindContact(d, e, m, u)
      PROVE  request'[f[1]] \in Row
  BY <1>n, <1>o DEF FindContact
<1>p. CASE UNCHANGED call
  BY <1>k, <1>p
<1> QED
  BY <1>f, <1>g, <1>h, <1>i, <1>j, <1>l, <1>m, <1>n, <1>p
     DEF Next, vars, InviteByLandlord, ChangeEstate, KnockOrCancel

-----------------------------------------------------------------------------
\* Nobody who is registered changes his address or leaves.
LEMMA AccountsStay ==
    ASSUME TypeOK, HasAddress, BelongsToRegistered, [Next]_vars
    PROVE  /\ HasAddress'
           /\ \A u \in Users : Registered(u) => Registered(u)' /\ account'[u].email = account[u].email
<1> DEFINE Stays == \A u \in Users : Registered(u) => Registered(u)' /\ account'[u].email = account[u].email
<1> USE DEF TypeOK, Account, Registered, HasAddress
<1>a. ASSUME NEW c \in Calls, NEW u \in Users, NEW m \in Emails, NEW l,
             SignUp(c, u, m, l) \/ SocialSignUp(c, u, m, l)
      PROVE  HasAddress' /\ Stays
  <2>1. /\ account[u].status = "none"
        /\ \E s \in {"unverified", "active"} :
              account' = [account EXCEPT ![u] = [status |-> s, email |-> m]]
    BY <1>a DEF SignUp, SocialSignUp
  <2> QED BY <2>1
<1>b. ASSUME NEW u \in Users, Registered(u) \/ account[u].email \in Emails,
             account' = [account EXCEPT ![u].status = "active"]
      PROVE  HasAddress' /\ Stays
  BY <1>b
<1>c. ASSUME NEW c \in Calls, NEW u \in Users, NEW l \in links, SocialLogin(c, u, l)
      PROVE  HasAddress' /\ Stays
  BY <1>b, <1>c DEF SocialLogin
<1>d. ASSUME NEW c \in Calls, StoreKnocks(c) PROVE HasAddress' /\ Stays
  <2>1. call[c].user \in Users /\ Registered(call[c].user)
    BY <1>d, Fields DEF StoreKnocks, StoreCall, BelongsToRegistered, ForAccount
  <2> QED BY <1>b, <1>d, <2>1 DEF StoreKnocks, Knocked
<1>e. CASE UNCHANGED account
  BY <1>e
<1> QED
  BY <1>a, <1>c, <1>d, <1>e
     DEF Next, vars, InviteByLandlord, ChangeEstate, KnockOrCancel, FindContact, StoreContact, ContactExists,
         ConfirmEmail, LinkOpens, LinkIgnored, StorePendingKnock, PendingKnockFails, FindKnocks, KnockFails,
         CloseRequests

\* Handlers begin with registered accounts and go on with the same.
LEMMA CallsStay ==
    ASSUME TypeOK, HasAddress, BelongsToRegistered, ContactsKnown, [Next]_vars
    PROVE  /\ \A c \in Calls : ForAccount(c)' => Registered(call[c].user)'
           /\ ContactsKnown'
<1> DEFINE Kept(u) == account'[u].status # "none"
           Fit(c) == /\ ForAccount(c)' => Kept(call'[c].user)
                     /\ Serving(c, "contact")' /\ call'[c].user # None =>
                          Kept(call'[c].user) /\ account'[call'[c].user].email = call'[c].email
<1> SUFFICES ASSUME NEW c \in Calls PROVE Fit(c)
  BY DEF ContactsKnown, Registered
<1>1. /\ ForAccount(c) => Kept(call[c].user)
      /\ Serving(c, "contact") /\ call[c].user # None =>
            Kept(call[c].user) /\ account'[call[c].user].email = call[c].email
  BY AccountsStay, Fields
     DEF BelongsToRegistered, ContactsKnown, ForAccount, Registered, ContactCall, PendingCall, KnockCall, StoreCall
<1>2. \A u \in Users : Registered(u) => Kept(u)
  BY AccountsStay DEF Registered
<1>k. CASE call'[c] = call[c]
  BY <1>k, <1>1 DEF ForAccount, Serving
<1>i. CASE call'[c] = Idle
  BY <1>i DEF ForAccount, Serving
<1>w. ASSUME call'[c].op \in {"pending", "assign", "find", "store"}, Kept(call'[c].user) PROVE Fit(c)
  BY <1>w DEF Serving
<1>o. ASSUME call'[c].op = "close" PROVE Fit(c)
  BY <1>o DEF ForAccount, Serving
<1> HIDE DEF Fit
<1>b. ASSUME NEW d \in Calls, NEW new, Begin(d, new) \/ GoesOn(d, new)
      PROVE  call'[c] = call[c] \/ (c = d /\ call'[c] = new)
  BY <1>b DEF TypeOK, Begin, GoesOn
<1>a. ASSUME NEW d \in Calls, NEW e \in Estates, NEW m \in Emails, NEW u \in Users \cup {None},
             FindContact(d, e, m, u)
      PROVE  Fit(c)
  <2> DEFINE new == [op |-> "contact", estate |-> e, email |-> m, user |-> u]
  <2>1. call'[c] = call[c] \/ call'[c] = new
    BY <1>a, <1>b DEF FindContact
  <2>2. u # None => Kept(u) /\ account'[u].email = m
    BY <1>a DEF FindContact, OwnersOf
  <2>3. CASE call'[c] = new
    BY <2>2, <2>3 DEF Fit, ForAccount, Serving
  <2> QED BY <2>1, <2>3, <1>k
<1>c. ASSUME NEW d \in Calls, Ends(d) PROVE Fit(c)
  BY <1>b, <1>c, <1>k, <1>i DEF Ends
<1>d. ASSUME NEW d \in Calls, NEW u \in Users, Kept(u),
             NEW new, new.op \in {"pending", "assign", "find", "store"}, new.user = u,
             Begin(d, new) \/ GoesOn(d, new)
      PROVE  Fit(c)
  BY <1>b, <1>d, <1>k, <1>w
<1>e. ASSUME NEW d \in Calls, NEW u \in Users, NEW m \in Emails, NEW l \in links \cup {None},
             SignUp(d, u, m, l)
      PROVE  Fit(c)
  <2>1. Kept(u)
    BY <1>e DEF SignUp, TypeOK
  <2>2. CASE l = None
    BY <1>e, <1>k, <2>2 DEF SignUp
  <2>3. CASE l # None
    BY <1>d, <1>e, <2>1, <2>3 DEF SignUp, Pending
  <2> QED BY <2>2, <2>3
<1>f. ASSUME NEW d \in Calls, NEW u \in Users, NEW m \in Emails, NEW l \in links, SocialSignUp(d, u, m, l)
      PROVE  Fit(c)
  <2>1. Kept(u)
    BY <1>f DEF SocialSignUp, TypeOK
  <2> QED BY <1>d, <1>f, <2>1 DEF SocialSignUp, ByLink
<1>q. ASSUME NEW d \in Calls, NEW u \in Users, NEW l \in links, SocialLogin(d, u, l) PROVE Fit(c)
  <2>1. Kept(u)
    BY <1>2, <1>q DEF SocialLogin, Registered
  <2> QED BY <1>d, <1>q, <2>1 DEF SocialLogin, Pending
<1>g. ASSUME NEW d \in Calls, NEW u \in Users, ConfirmEmail(d, u) PROVE Fit(c)
  <2>1. Kept(u)
    BY <1>g, <1>2 DEF ConfirmEmail, Registered
  <2> QED BY <1>d, <1>g, <2>1 DEF ConfirmEmail
<1>h. ASSUME NEW d \in Calls, ForAccount(d) PROVE call[d].user \in Users /\ Kept(call[d].user)
  BY <1>2, <1>h, Fields DEF BelongsToRegistered, ForAccount, PendingCall, KnockCall, StoreCall
<1>j. ASSUME NEW d \in Calls, LinkOpens(d) PROVE Fit(c)
  <2> DEFINE new == [call[d] EXCEPT !.op = "assign"]
  <2>1. new.op = "assign" /\ new.user = call[d].user
    BY <1>j, Fields DEF LinkOpens, PendingCall
  <2>2. GoesOn(d, new) /\ ForAccount(d)
    BY <1>j DEF LinkOpens, ForAccount
  <2> HIDE DEF new
  <2>3. call[d].user \in Users /\ Kept(call[d].user)
    BY <1>h, <2>2
  <2> QED BY <1>d, <2>1, <2>2, <2>3
<1>l. ASSUME NEW d \in Calls, Serving(d, "pending") \/ Serving(d, "assign"), GoesOn(d, AfterPending(d))
      PROVE  Fit(c)
  <2>1. CASE call[d].knocks
    BY <1>d, <1>h, <1>l, <2>1 DEF AfterPending, ByLink, ForAccount
  <2>2. CASE ~call[d].knocks
    BY <1>c, <1>l, <2>2 DEF AfterPending, Ends
  <2> QED BY <2>1, <2>2
<1>m. ASSUME NEW d \in Calls, FindKnocks(d) PROVE Fit(c)
  BY <1>d, <1>h, <1>m DEF FindKnocks, ForAccount
<1>n. ASSUME NEW d \in Calls, StoreKnocks(d) PROVE Fit(c)
  <2> DEFINE new == [op |-> "close", user |-> call[d].user]
  <2>1. call'[c] = call[c] \/ call'[c] = new
    BY <1>b, <1>n DEF StoreKnocks, Knocked
  <2>2. new.op = "close"
    OBVIOUS
  <2> QED BY <2>1, <2>2, <1>k, <1>o
<1>p. CASE UNCHANGED call
  BY <1>k, <1>p
<1> QED
  BY <1>a, <1>c, <1>e, <1>f, <1>g, <1>j, <1>l, <1>m, <1>n, <1>p, <1>q
     DEF Next, vars, InviteByLandlord, ChangeEstate, KnockOrCancel, StoreContact, ContactExists, LinkIgnored,
         StorePendingKnock, PendingKnockFails, KnockFails, CloseRequests

-----------------------------------------------------------------------------
\* A request gets an account, or becomes open again, only together with the
\* address of the account.
LEMMA RequestsStay ==
    ASSUME IInv, [Next]_vars
    PROVE  /\ \A q \in Rows' : request'[q].user # None => Registered(request[q].user)'
           /\ OpenIsFindable'
<1> DEFINE Good(r) == r.user # None =>
              /\ account'[r.user].status # "none"
              /\ r.status \in {"draft", "verify"} => r.status = "verify" /\ r.email = account'[r.user].email
<1> USE DEF IInv
<1> SUFFICES ASSUME NEW q \in Ids, request'[q] # NoRow PROVE Good(request'[q])
  BY DEF Rows, Registered, OpenIsFindable, Open
<1>1. ASSUME NEW p \in Rows PROVE p \in Ids /\ request[p] \in Row /\ Good(request[p])
  <2>1. request[p] \in Row /\ p \in Ids
    BY DEF TypeOK, Rows
  <2> QED BY <2>1, AccountsStay DEF BelongsToRegistered, OpenIsFindable, Open, Registered, Row
<1>k. CASE request'[q] = request[q]
  BY <1>k, <1>1 DEF Rows
<1>c. ASSUME NEW s \in {"active", "expired"}, q \in Rows,
             request'[q] = [request[q] EXCEPT !.code = None, !.status = s]
      PROVE  Good(request'[q])
  <2>1. request[q] \in Row /\ Good(request[q])
    BY <1>1, <1>c
  <2>2. request'[q].user = request[q].user /\ request'[q].status = s
    BY <1>c, <2>1 DEF Row
  <2> QED BY <2>1, <2>2
<1>a. ASSUME NEW p \in Ids, InviteByLandlord(p) PROVE Good(request'[q])
  <2>1. p \in Rows /\ request[p] \in Row /\ Good(request[p])
    BY <1>1, <1>a DEF InviteByLandlord
  <2>2. CASE q = p
    <3>1. request'[q] = [request[p] EXCEPT !.invited = TRUE]
      BY <1>a, <2>2 DEF InviteByLandlord, TypeOK
    <3>2. /\ request'[q].user = request[p].user /\ request'[q].status = request[p].status
          /\ request'[q].email = request[p].email
      BY <2>1, <3>1 DEF Row
    <3> QED BY <2>1, <3>2
  <2>3. CASE q # p
    BY <1>a, <1>k, <2>3 DEF InviteByLandlord, TypeOK
  <2> QED BY <2>2, <2>3
<1>b. ASSUME NEW d \in Calls, NEW p \in Ids, StoreContact(d, p) PROVE Good(request'[q])
  <2>1. CASE q = p
    <3>1. request'[q] = [estate |-> call[d].estate, email |-> call[d].email,
                         status |-> IF call[d].user = None THEN "draft" ELSE "verify",
                         user |-> call[d].user, code |-> q, invited |-> FALSE]
      BY <1>b, <2>1 DEF StoreContact, TypeOK
    <3>2. call[d].user # None => Registered(call[d].user) /\ account[call[d].user].email = call[d].email
      BY <1>b DEF StoreContact, ContactsKnown
    <3> QED BY <1>b, <3>1, <3>2 DEF StoreContact, Registered
  <2>2. CASE q # p
    BY <1>b, <1>k, <2>2 DEF StoreContact, TypeOK
  <2> QED BY <2>1, <2>2
<1>d. ASSUME NEW d \in Calls, StorePendingKnock(d) PROVE Good(request'[q])
  <2>1. CASE q \in Theirs(d)
    <3>1. request[q] \in Row
      BY <2>1, <1>1 DEF Theirs
    <3>2. request'[q] = [request[q] EXCEPT !.email = account[call[d].user].email, !.status = "verify",
                                           !.user = call[d].user]
      BY <1>d, <2>1 DEF StorePendingKnock
    <3>3. /\ request'[q].user = call[d].user /\ request'[q].status = "verify"
          /\ request'[q].email = account[call[d].user].email
      BY <3>1, <3>2 DEF Row
    <3>4. account[call[d].user].status # "none"
      BY <1>d DEF StorePendingKnock, BelongsToRegistered, ForAccount, Registered
    <3> QED BY <1>d, <3>3, <3>4 DEF StorePendingKnock
  <2>2. CASE q \notin Theirs(d)
    BY <1>d, <1>k, <2>2 DEF StorePendingKnock
  <2> QED BY <2>1, <2>2
<1>e. ASSUME NEW d \in Calls, StoreKnocks(d) PROVE Good(request'[q])
  BY <1>c, <1>e, <1>k DEF StoreKnocks, Knocked
<1>f. ASSUME NEW d \in Calls, CloseRequests(d) PROVE Good(request'[q])
  BY <1>c, <1>f, <1>k DEF CloseRequests
<1>g. CASE UNCHANGED request
  BY <1>g, <1>k
<1> QED
  BY <1>a, <1>b, <1>d, <1>e, <1>f, <1>g
     DEF Next, vars, ChangeEstate, KnockOrCancel, FindContact, ContactExists, SignUp, SocialSignUp, SocialLogin,
         ConfirmEmail, LinkOpens, LinkIgnored, PendingKnockFails, FindKnocks, KnockFails

-----------------------------------------------------------------------------
LEMMA InvariantStarts == Init => IInv
<1> SUFFICES ASSUME Init PROVE IInv
  OBVIOUS
<1>1. account \in [Users -> Account]
  BY DEF Init, Account
<1>2. estate \in [Estates -> [active : BOOLEAN, slots : BOOLEAN]]
  BY DEF Init
<1>3. TypeOK
  BY <1>1, <1>2 DEF Init, TypeOK
<1>4. Rows = {} /\ \A c \in Calls : call[c] = Idle
  BY DEF Init, Rows
<1>5. HasAddress
  BY DEF Init, HasAddress, Registered
<1> QED BY <1>3, <1>4, <1>5
    DEF IInv, BelongsToRegistered, ForAccount, Serving, ContactsKnown, FoundRemain, OpenIsFindable

LEMMA InvariantStays == IInv /\ [Next]_vars => IInv'
<1> SUFFICES ASSUME IInv, [Next]_vars PROVE IInv'
  OBVIOUS
<1>1. TypeOK /\ HasAddress /\ BelongsToRegistered /\ ContactsKnown /\ FoundRemain
  BY DEF IInv
<1>2. TypeOK' /\ HasAddress' /\ ContactsKnown' /\ FoundRemain'
  BY <1>1, TypeStep, AccountsStay, CallsStay, FoundStays
<1>3. BelongsToRegistered' /\ OpenIsFindable'
  BY <1>1, CallsStay, RequestsStay DEF BelongsToRegistered
<1> QED BY <1>2, <1>3 DEF IInv

\* Rows, accounts and handlers stay well typed, for any numbers of them.
THEOREM ContactTypes == Spec => []TypeOK
<1>1. IInv => TypeOK
  BY DEF IInv
<1> QED BY InvariantStarts, InvariantStays, <1>1, PTL DEF Spec

\* Whoever signs up, logs in, confirms or uses a link of another, in whatever
\* order his handlers' parts come: confirmEmail and createKnock find the open
\* requests of an account by its address.
THEOREM FindableOpen == Spec => []OpenIsFindable
<1>1. IInv => OpenIsFindable
  BY DEF IInv
<1> QED BY InvariantStarts, InvariantStays, <1>1, PTL DEF Spec

-----------------------------------------------------------------------------
\* With the handlers one after the other, what one of them has found or closed is
\* still so when it goes on.
Alone ==
    ~crossed =>
        /\ \A c, d \in Calls : call[c] # Idle /\ call[d] # Idle => c = d
        /\ \A c \in Calls : Serving(c, "find") => "verify" \in call[c].statuses
        /\ \A c \in Calls : Serving(c, "store") =>
              \A q \in Rows : request[q].status = "verify" /\ request[q].email = call[c].email =>
                  \E invited \in BOOLEAN : <<q, invited>> \in call[c].found
        /\ \A c \in Calls : Serving(c, "close") =>
              \A q \in Rows : Open(q) => request[q].user # call[c].user

\* No handler has anything to remember.
Rests(k) == k = Idle \/ k.op \in {"contact", "pending", "assign"} \/ (k.op = "find" /\ "verify" \in k.statuses)

LEMMA AloneBegins ==
    ASSUME TypeOK, Alone, NEW c \in Calls, NEW new, Rests(new), Begin(c, new)
    PROVE  Alone'
<1> SUFFICES ASSUME ~crossed' PROVE Alone'
  BY DEF Alone
<1>1. \A d \in Calls : call[d] = Idle
  BY DEF Begin
<1>2. call'[c] = new /\ \A d \in Calls : d # c => call'[d] = Idle
  BY <1>1 DEF TypeOK, Begin
<1>3. \A d \in Calls : Rests(call'[d])
  BY <1>2 DEF Rests
<1>4. /\ \A d \in Calls : Serving(d, "find")' => "verify" \in call'[d].statuses
      /\ \A d \in Calls : ~Serving(d, "store")' /\ ~Serving(d, "close")'
  BY <1>3 DEF Rests, Serving
<1> QED BY <1>2, <1>4 DEF Alone

\* The next part of a handler.
LEMMA AloneGoesOn ==
    ASSUME TypeOK, Alone, NEW c \in Calls, NEW new, GoesOn(c, new), call[c] # Idle,
           ~crossed =>
              \/ Rests(new)
              \/ /\ new.op = "store"
                 /\ \A q \in Rows' : request'[q].status = "verify" /\ request'[q].email = new.email =>
                        \E invited \in BOOLEAN : <<q, invited>> \in new.found
              \/ /\ new.op = "close"
                 /\ \A q \in Rows' : Open(q)' => request'[q].user # new.user
    PROVE  Alone'
<1> SUFFICES ASSUME ~crossed PROVE Alone'
  BY DEF Alone, GoesOn
<1>1. \A d \in Calls : d # c => call[d] = Idle
  BY DEF Alone
<1>2. call'[c] = new /\ \A d \in Calls : d # c => call'[d] = Idle
  BY <1>1 DEF TypeOK, GoesOn
<1>3. CASE Rests(new)
  <2>1. /\ \A d \in Calls : Serving(d, "find")' => "verify" \in call'[d].statuses
        /\ \A d \in Calls : ~Serving(d, "store")' /\ ~Serving(d, "close")'
    BY <1>2, <1>3 DEF Rests, Serving
  <2> QED BY <1>2, <2>1 DEF Alone
<1>4. CASE /\ new.op = "store"
           /\ \A q \in Rows' : request'[q].status = "verify" /\ request'[q].email = new.email =>
                  \E invited \in BOOLEAN : <<q, invited>> \in new.found
  BY <1>2, <1>4 DEF Alone, Serving
<1>5. CASE new.op = "close" /\ \A q \in Rows' : Open(q)' => request'[q].user # new.user
  BY <1>2, <1>5 DEF Alone, Serving
<1> QED BY <1>3, <1>4, <1>5

\* What crosses the handlers opens no request and moves none.
LEMMA AloneElse ==
    ASSUME TypeOK, Alone, UNCHANGED <<call, crossed>>,
           \/ UNCHANGED request
           \/ \E q \in Rows : request' = [request EXCEPT ![q].invited = TRUE]
    PROVE  Alone'
<1>1. /\ Rows' \subseteq Rows
      /\ \A q \in Rows : /\ request'[q].status = request[q].status /\ request'[q].email = request[q].email
                         /\ request'[q].user = request[q].user
  <2>1. CASE UNCHANGED request
    BY <2>1 DEF Rows
  <2>2. ASSUME NEW q \in Rows, request' = [request EXCEPT ![q].invited = TRUE]
        PROVE  /\ Rows' \subseteq Rows
               /\ \A p \in Rows : /\ request'[p].status = request[p].status /\ request'[p].email = request[p].email
                                  /\ request'[p].user = request[p].user
    <3>1. \A row \in Row : LET new == [row EXCEPT !.invited = TRUE]
                           IN  new.status = row.status /\ new.email = row.email /\ new.user = row.user /\ new \in Row
      BY DEF Row
    <3>2. request[q] \in Row
      BY DEF TypeOK, Rows
    <3>3. \A p \in Ids : IF p = q THEN request'[p] = [request[q] EXCEPT !.invited = TRUE]
                         ELSE request'[p] = request[p]
      BY <2>2 DEF TypeOK
    <3>4. \A p \in Rows : /\ request'[p].status = request[p].status /\ request'[p].email = request[p].email
                          /\ request'[p].user = request[p].user
      BY <3>1, <3>2, <3>3 DEF Rows
    <3> QED BY <3>3, <3>4 DEF Rows
  <2> QED BY <2>1, <2>2
<1> QED BY <1>1 DEF Alone, Open, Serving

LEMMA AloneStays == ASSUME TypeOK, Alone, [Next]_vars PROVE Alone'
<1>1. CASE UNCHANGED vars
  BY <1>1, AloneElse DEF vars
<1>2. ASSUME NEW q \in Ids, InviteByLandlord(q) PROVE Alone'
  BY <1>2, AloneElse DEF InviteByLandlord
<1>3. ASSUME NEW e \in Estates, ChangeEstate(e) \/ \E u \in Users : KnockOrCancel(u, e) PROVE Alone'
  BY <1>3, AloneElse DEF ChangeEstate, KnockOrCancel
<1>4. ASSUME NEW c \in Calls, NEW e, NEW m, NEW u, FindContact(c, e, m, u) PROVE Alone'
  <2>1. Rests([op |-> "contact", estate |-> e, email |-> m, user |-> u])
    BY DEF Rests
  <2> QED BY <1>4, <2>1, AloneBegins DEF FindContact
<1>5. ASSUME NEW c \in Calls, NEW u \in Users,
             \/ ConfirmEmail(c, u)
             \/ \E l \in links : SocialLogin(c, u, l)
             \/ \E m \in Emails : \E l \in links : SocialSignUp(c, u, m, l)
      PROVE  Alone'
  <2>1. Rests([op |-> "find", user |-> u, email |-> account[u].email, statuses |-> {"verify"}])
    BY DEF Rests
  <2>2. \A l : Rests(ByLink(u, l)) /\ Rests(Pending(u, l, TRUE))
    BY DEF Rests, ByLink, Pending
  <2> QED BY <1>5, <2>1, <2>2, AloneBegins DEF ConfirmEmail, SocialLogin, SocialSignUp
<1>6. ASSUME NEW c \in Calls, NEW u \in Users, NEW m \in Emails, NEW l, SignUp(c, u, m, l) PROVE Alone'
  <2>1. Rests(Pending(u, l, FALSE))
    BY DEF Rests, Pending
  <2> QED BY <1>6, <2>1, AloneBegins, AloneElse DEF SignUp
<1>7. ASSUME NEW c \in Calls,
             \/ ContactExists(c) \/ PendingKnockFails(c) \/ KnockFails(c) \/ CloseRequests(c)
             \/ \E q \in Ids : StoreContact(c, q)
      PROVE  Alone'
  <2>1. Rests(Idle)
    BY DEF Rests
  <2>2. GoesOn(c, Idle) /\ call[c] # Idle
    BY <1>7 DEF ContactExists, PendingKnockFails, KnockFails, CloseRequests, StoreContact, Ends, Serving
  <2> QED BY <2>1, <2>2, AloneGoesOn
<1>8. ASSUME NEW c \in Calls, LinkOpens(c) PROVE Alone'
  <2>1. [call[c] EXCEPT !.op = "assign"].op = "assign"
    BY <1>8, Fields DEF LinkOpens, PendingCall
  <2>2. Rests([call[c] EXCEPT !.op = "assign"])
    BY <2>1 DEF Rests
  <2>3. call[c] # Idle /\ GoesOn(c, [call[c] EXCEPT !.op = "assign"])
    BY <1>8 DEF LinkOpens, Serving
  <2> QED BY <2>2, <2>3, AloneGoesOn
<1>9. ASSUME NEW c \in Calls, LinkIgnored(c) \/ StorePendingKnock(c) PROVE Alone'
  <2>1. Rests(AfterPending(c))
    BY DEF Rests, AfterPending, ByLink
  <2>2. call[c] # Idle /\ GoesOn(c, AfterPending(c))
    BY <1>9 DEF LinkIgnored, StorePendingKnock, Serving
  <2> QED BY <2>1, <2>2, AloneGoesOn
<1>10. ASSUME NEW c \in Calls, FindKnocks(c) PROVE Alone'
  <2> DEFINE found == {<<q, request[q].invited>> :
                          q \in {p \in Rows : /\ request[p].email = call[c].email
                                              /\ request[p].status \in call[c].statuses}}
             new == [op |-> "store", user |-> call[c].user, email |-> call[c].email, found |-> found]
  <2>1. GoesOn(c, new) /\ call[c] # Idle /\ UNCHANGED request
    BY <1>10 DEF FindKnocks, Serving
  <2>2. ~crossed => "verify" \in call[c].statuses
    BY <1>10 DEF FindKnocks, Alone
  <2>3. \A q \in Rows : request[q].invited \in BOOLEAN
    BY DEF Rows, TypeOK, Row
  <2>4. ~crossed => \A q \in Rows : request[q].status = "verify" /\ request[q].email = call[c].email =>
           \E invited \in BOOLEAN : <<q, invited>> \in found
    BY <2>2, <2>3
  <2> HIDE DEF found
  <2>5. new.op = "store" /\ new.email = call[c].email /\ new.found = found
    OBVIOUS
  <2>6. Rows' = Rows
    BY <2>1 DEF Rows
  <2> HIDE DEF new
  <2> QED BY <2>1, <2>4, <2>5, <2>6, AloneGoesOn
<1>11. ASSUME NEW c \in Calls, StoreKnocks(c) PROVE Alone'
  <2> DEFINE u == call[c].user
             new == [op |-> "close", user |-> u]
  <2>1. \A q \in Rows : request[q] \in Row
    BY DEF Rows, TypeOK
  <2>2. \A row \in Row : LET closed == [row EXCEPT !.code = None, !.status = "active"]
                         IN  closed.status = "active" /\ closed.user = row.user
    BY DEF Row
  <2>3. request' = [q \in Ids |-> IF q \in Rows /\ request[q].user = u
                                  THEN [request[q] EXCEPT !.code = None, !.status = "active"] ELSE request[q]]
    BY <1>11 DEF StoreKnocks, Knocked
  <2>4. \A q \in Rows' : q \in Ids /\ q \in Rows
    BY <2>3 DEF Rows
  <2>5. \A q \in Rows' : request'[q].user = u => request'[q].status = "active"
    BY <2>1, <2>2, <2>3, <2>4
  <2>6. \A q \in Rows' : Open(q)' => request'[q].user # u
    BY <2>5 DEF Open
  <2>7. GoesOn(c, new) /\ call[c] # Idle
    BY <1>11 DEF StoreKnocks, Knocked, Serving
  <2>8. new.op = "close" /\ new.user = u
    OBVIOUS
  <2> HIDE DEF new, u
  <2> QED BY <2>6, <2>7, <2>8, AloneGoesOn
<1> QED
  BY <1>1, <1>2, <1>3, <1>4, <1>5, <1>6, <1>7, <1>8, <1>9, <1>10, <1>11 DEF Next

\* What closes an open request: createKnock, for all that the account has.
LEMMA ClosedByKnock ==
    ASSUME TypeOK, HasAddress, BelongsToRegistered, Alone, ~crossed, [Next]_vars,
           NEW q \in Rows, Open(q), ~Open(q)'
    PROVE  \E c \in Calls : StoreKnocks(c) /\ request[q].user = call[c].user
<1>r. request[q] \in Row /\ q \in Ids
  BY DEF Rows, TypeOK
<1>u. CASE UNCHANGED request
  BY <1>u DEF Open
<1>a. ASSUME NEW p \in Ids, InviteByLandlord(p) PROVE FALSE
  <2>1. [request[q] EXCEPT !.invited = TRUE].status = request[q].status
    BY <1>r DEF Row
  <2>2. request'[q] \in {request[q], [request[q] EXCEPT !.invited = TRUE]}
    BY <1>a, <1>r DEF InviteByLandlord, TypeOK
  <2> QED BY <2>1, <2>2 DEF Open
<1>b. ASSUME NEW c \in Calls, NEW p \in Ids, StoreContact(c, p) PROVE FALSE
  <2>1. request'[q] = request[q]
    BY <1>b, <1>r DEF StoreContact, TypeOK, Rows
  <2> QED BY <2>1 DEF Open
<1>c. ASSUME NEW c \in Calls, StorePendingKnock(c) PROVE FALSE
  <2>1. call[c].user \in Users
    BY <1>c, Fields DEF StorePendingKnock, PendingCall
  <2>2. [request[q] EXCEPT !.email = account[call[c].user].email, !.status = "verify",
                           !.user = call[c].user].status = "verify"
    BY <1>r DEF Row
  <2>3. request'[q] = request[q] \/ request'[q].status = "verify"
    BY <1>c, <1>r, <2>2 DEF StorePendingKnock
  <2> QED BY <2>3 DEF Open
<1>d. ASSUME NEW c \in Calls, CloseRequests(c) PROVE FALSE
  <2>1. request[q].user # call[c].user
    BY <1>d DEF Alone, CloseRequests
  <2>2. request'[q] = request[q]
    BY <1>d, <1>r, <2>1 DEF CloseRequests
  <2> QED BY <2>2 DEF Open
<1>e. ASSUME NEW c \in Calls, StoreKnocks(c) PROVE request[q].user = call[c].user
  <2>1. CASE request[q].user # call[c].user
    <3>1. request'[q] = request[q]
      BY <1>e, <1>r, <2>1 DEF StoreKnocks, Knocked
    <3> QED BY <3>1 DEF Open
  <2> QED BY <2>1
<1> QED
  BY <1>a, <1>b, <1>c, <1>d, <1>e, <1>u
     DEF Next, vars, ChangeEstate, KnockOrCancel, FindContact, ContactExists, SignUp, SocialSignUp, SocialLogin,
         ConfirmEmail, LinkOpens, LinkIgnored, PendingKnockFails, FindKnocks, KnockFails

\* With the handlers one after the other, and links that are used by the account of
\* their address, createKnock closes no request without a match, for any numbers
\* of prospects, addresses, estates and requests.
THEOREM ClosedWithMatch == Spec => ClosedIsMatched
<1>1. Init => Alone
  BY DEF Init, Alone, Serving
<1>2. ASSUME IInv, Alone, [Next]_vars PROVE Alone'
  BY <1>2, AloneStays DEF IInv
<1>3. ASSUME IInv, Alone, [Next]_vars, ~crossed,
             \A c \in Calls : Serving(c, "store") => call[c].email = account[call[c].user].email,
             NEW q \in Rows, Open(q), ~Open(q)'
      PROVE  <<request'[q].user, request[q].estate>> \in interacted'
  <2>i. TypeOK /\ HasAddress /\ BelongsToRegistered /\ OpenIsFindable
    BY <1>3 DEF IInv
  <2>r. request[q] \in Row /\ q \in Ids
    BY <2>i DEF Rows, TypeOK
  <2>1. PICK c \in Calls : StoreKnocks(c) /\ request[q].user = call[c].user
    BY <1>3, <2>i, ClosedByKnock
  <2>2. Serving(c, "store") /\ call[c].user \in Users
    BY <2>1, <2>i, Fields DEF StoreKnocks, StoreCall
  <2>3. request[q].status = "verify" /\ request[q].email = call[c].email
    BY <1>3, <2>1, <2>2, <2>i, ContactAssumption DEF OpenIsFindable
  <2>4. PICK invited \in BOOLEAN : <<q, invited>> \in call[c].found
    BY <1>3, <2>2, <2>3 DEF Alone
  <2>5. interacted' = interacted \cup {<<call[c].user, request[f[1]].estate>> : f \in ToKnock(c)}
    BY <2>1 DEF StoreKnocks, Knocked
  <2>6. <<call[c].user, request[q].estate>> \in interacted'
    <3>1. CASE <<call[c].user, request[q].estate>> \in interacted
      BY <2>5, <3>1
    <3>2. CASE <<call[c].user, request[q].estate>> \notin interacted
      <4>1. <<q, invited>> \in ToKnock(c)
        BY <2>4, <3>2 DEF ToKnock
      <4> QED BY <2>5, <4>1
    <3> QED BY <3>1, <3>2
  <2>7. request'[q].user = call[c].user
    <3>1. [request[q] EXCEPT !.code = None, !.status = "active"].user = request[q].user
      BY <2>r DEF Row
    <3>2. request'[q] = [request[q] EXCEPT !.code = None, !.status = "active"]
      BY <2>1, <2>r DEF StoreKnocks, Knocked
    <3> QED BY <2>1, <3>1, <3>2
  <2> QED BY <2>6, <2>7
<1>4. IInv /\ Alone /\ [Next]_vars =>
        [(/\ ~crossed
          /\ \A c \in Calls : Serving(c, "store") => call[c].email = account[call[c].user].email)
         => \A q \in Rows : Open(q) /\ ~Open(q)' =>
               <<request'[q].user, request[q].estate>> \in interacted']_vars
  BY <1>3
<1> QED BY <1>1, <1>2, <1>4, InvariantStarts, InvariantStays, PTL DEF Spec, ClosedIsMatched
=============================================================================
