----------------------------- MODULE Households -----------------------------
(***************************************************************************)
(* Prospects who rent together.  A main prospect adds members and invites  *)
(* adults; who accepts becomes his housekeeper and takes along the members *)
(* that he had himself.  A household is kept twice: in users.owner_id, and *)
(* in the rows of members with the user whose household a row belongs to   *)
(* and the user whom it describes.                                         *)
(*                                                                         *)
(* The handlers come one after the other: what each of them reads before   *)
(* its transaction is still true in it.                                    *)
(***************************************************************************)
EXTENDS Naturals, SequencesExt

CONSTANTS
    Users,      \* prospects, each with an address of his own
    MaxRows,    \* bound: rows of members at a time
    None,       \* no owner, no address
    Endpoints   \* the operations that are called in this instance, and what they are given

ASSUME HouseholdAssumption == None \notin Users /\ MaxRows \in Nat

VARIABLES
    registered,  \* the users
    owner,       \* users.owner_id
    members      \* the rows of members in the order of their ids

vars == <<registered, owner, members>>

\* user_id, email, whether there is a code, is_verified, owner_user_id; an
\* address is that of a user.
Row == [home : Users, email : Users \cup {None}, code : BOOLEAN, verified : BOOLEAN,
        linked : Users \cup {None}]

TypeOK ==
    /\ registered \subseteq Users
    /\ owner \in [Users -> Users \cup {None}]
    /\ members \in Seq(Row)
    /\ Len(members) <= MaxRows
    /\ \A u \in Users : owner[u] # None => u \in registered
    /\ \A i \in DOMAIN members :
          members[i].home \in registered /\ members[i].linked \in registered \cup {None}

Init ==
    /\ registered = {}
    /\ owner = [u \in Users |-> None]
    /\ members = <<>>

-----------------------------------------------------------------------------
\* createUser and createMainMember.
MainRow(u) == [home |-> u, email |-> None, code |-> FALSE, verified |-> TRUE, linked |-> None]

IsMain(row, u) == row.home = u /\ row.email = None /\ row.linked = None

RowsOf(u) == {i \in DOMAIN members : members[i].home = u}

\* An address that no user and no member has.
Fresh(email) == email \notin registered /\ \A i \in DOMAIN members : members[i].email # email

\* The row with the smallest id of a household, as removeMember sees it.
IsFirst(u, i) == \A j \in RowsOf(u) : i <= j

\* Room for another row.
Room == Len(members) < MaxRows

IsHouseHold(u) == u \in registered /\ owner[u] = None

\* An invitation that can be answered.
Invited(u, i) ==
    u \in registered /\ members[i].email = u /\ members[i].code /\ ~members[i].verified

SignUp(u) ==
    /\ "signUp" \in Endpoints
    /\ u \notin registered /\ Room
    /\ registered' = registered \cup {u}
    /\ members' = Append(members, MainRow(u))
    /\ UNCHANGED owner

\* The code refuses an address that a user or a member has, so that its branch for
\* existing users is never taken.  is_verified is a field of the form; without an
\* address the member is verified at once.
AddMember(u, email, verified) ==
    /\ "addMember" \in Endpoints
    /\ IsHouseHold(u) /\ Room
    /\ IF email = None THEN verified ELSE Fresh(email)
    /\ members' = Append(members,
          [MainRow(u) EXCEPT !.email = email, !.code = email # None, !.verified = verified])
    /\ UNCHANGED <<registered, owner>>

\* A row of the household of u is edited, by whom it describes, by the main prospect
\* or with a permission of one of them.  It can get another address unless it is
\* linked.  The code looks at nothing else: "mainAddress" stands for an address of
\* one's own first row, "takenAddress" for one that somebody else has.
UpdateMember(u, i, email, verified) ==
    /\ "updateMember" \in Endpoints
    /\ members[i].home = u
    /\ email # members[i].email =>
          /\ email # None /\ members[i].linked = None
          /\ IsFirst(u, i) => "mainAddress" \in Endpoints
          /\ ~Fresh(email) => "takenAddress" \in Endpoints
    /\ members' = [members EXCEPT ![i].email = email, ![i].verified = verified]
    /\ UNCHANGED <<registered, owner>>

SendInvitationCode(u, i) ==
    /\ "sendCode" \in Endpoints
    /\ u \in registered
    /\ members[i].home = u /\ members[i].email # None
    /\ members' = [members EXCEPT ![i].code = TRUE]
    /\ UNCHANGED <<registered, owner>>

\* Mutant: the row is linked although the user is rolled back.
HousekeeperLinked(u, i) ==
    /\ "codeSignUp" \in Endpoints
    /\ u \notin registered
    /\ members[i].email = u /\ members[i].code
    /\ members' = [members EXCEPT ![i].linked = u]
    /\ UNCHANGED <<registered, owner>>

\* housekeeperSignup, and handleSignUp of OAuthController with a code.  Who is new
\* has an owner before he has accepted, and a main row of his own beside the
\* invitation; to who is registered, which is "codeLogin", the row is linked and
\* nothing else changes.
HousekeeperSignup(u, i) ==
    /\ "codeSignUp" \in Endpoints
    /\ members[i].email = u /\ members[i].code
    /\ IF u \in registered THEN "codeLogin" \in Endpoints ELSE Room
    /\ registered' = registered \cup {u}
    /\ owner' = IF u \in registered THEN owner ELSE [owner EXCEPT ![u] = members[i].home]
    /\ LET rows == [members EXCEPT ![i].linked = u]
       IN  members' = IF u \in registered THEN rows ELSE Append(rows, MainRow(u))

-----------------------------------------------------------------------------
\* mergeTenantAccounts.

Linked(rows) == {members[i].linked : i \in rows} \ {None}

\* Mutant: the housekeepers of u stay his.
OwnersOfUser(u, h) == [owner EXCEPT ![u] = h]

\* u and whoever was in his household belong to h.
OwnersAfterMerge(u, h) == [v \in Users |-> IF v \in {u} \cup Linked(RowsOf(u)) THEN h ELSE owner[v]]

\* All rows of u go to h; one of them that has neither address nor user, in no
\* order, becomes that of u.
Moved(u, h, main) ==
    [i \in DOMAIN members |->
        IF i \notin RowsOf(u) THEN members[i]
        ELSE IF i = main THEN [members[i] EXCEPT !.home = h, !.linked = u, !.email = u]
        ELSE [members[i] EXCEPT !.home = h]]

\* The invitation itself is needed only by who has no rows.
MergeTenantAccounts(u, i) ==
    /\ "accept" \in Endpoints
    /\ Invited(u, i)
    /\ LET mains == {j \in RowsOf(u) : IsMain(members[j], u)}
           h == members[i].home
       IN  \E main \in IF mains = {} THEN {None} ELSE mains :
              members' = IF RowsOf(u) = {}
                         THEN [members EXCEPT ![i] =
                                  [@ EXCEPT !.verified = TRUE, !.linked = u, !.code = FALSE]]
                         ELSE RemoveAt(Moved(u, h, main), i)
    /\ owner' = OwnersAfterMerge(u, members[i].home)
    /\ UNCHANGED registered

\* Mutant: the invitation stays.
RefuseOnly(u, i) ==
    /\ "refuse" \in Endpoints
    /\ Invited(u, i)
    /\ owner' = [owner EXCEPT ![u] = None]
    /\ UNCHANGED <<registered, members>>

\* refuseHouseholdInvitation
Refuse(u, i) ==
    /\ "refuse" \in Endpoints
    /\ Invited(u, i)
    /\ owner' = [owner EXCEPT ![u] = None]
    /\ members' = IF \E j \in DOMAIN members : IsMain(members[j], u) THEN RemoveAt(members, i)
                  ELSE [members EXCEPT ![i] = MainRow(u)]
    /\ UNCHANGED registered

-----------------------------------------------------------------------------
\* removeMember.

\* Mutant: createMainMember is forgotten.
RemoveRowOnly(i) ==
    /\ members' = RemoveAt(members, i)
    /\ owner' = IF members[i].linked = None THEN owner ELSE [owner EXCEPT ![members[i].linked] = None]
    /\ UNCHANGED registered

\* Whom the row describes is on his own again, with a new main row unless he
\* still has one.
RemoveRow(i) ==
    LET v == members[i].linked
        rest == RemoveAt(members, i)
    IN  /\ members' = IF v = None
                         \/ \E j \in RowsOf(v) : members[j].linked = None /\ members[j].verified
                      THEN rest ELSE Append(rest, MainRow(v))
        /\ owner' = IF v = None THEN owner ELSE [owner EXCEPT ![v] = None]
        /\ UNCHANGED registered

RemoveMember(u, i) ==
    /\ "removeMember" \in Endpoints
    /\ u \in registered
    /\ i \in RowsOf(u) /\ ~IsFirst(u, i) /\ owner[u] # u
    /\ RemoveRow(i)

\* A housekeeper leaves the household, whichever of its members he names.
LeaveHousehold(u) ==
    /\ "leave" \in Endpoints
    /\ u \in registered
    /\ owner[u] # None /\ RowsOf(owner[u]) # {}
    /\ \E i \in DOMAIN members : members[i].linked = u /\ RemoveRow(i)

Next ==
    \E u \in Users :
        \/ SignUp(u) \/ LeaveHousehold(u)
        \/ \E email \in Users \cup {None}, verified \in BOOLEAN : AddMember(u, email, verified)
        \/ \E i \in DOMAIN members :
              \/ SendInvitationCode(u, i) \/ HousekeeperSignup(u, i)
              \/ MergeTenantAccounts(u, i) \/ Refuse(u, i)
              \/ RemoveMember(u, i)
              \/ \E email \in Users \cup {None}, verified \in BOOLEAN :
                    UpdateMember(u, i, email, verified)

Spec == Init /\ [][Next]_vars

-----------------------------------------------------------------------------
\* The three hold while "mainAddress", "takenAddress" and "codeLogin" are no
\* Endpoints; each of these breaks one of them.

\* getMemberIdByOwnerId finds a row for everybody, after any sequence of
\* invitations, mergers, refusals and removals: almost every handler of a
\* prospect calls it and fails without one.  Not so after "mainAddress".
MemberFound ==
    \A u \in registered : \E i \in DOMAIN members :
        IF owner[u] = None THEN IsMain(members[i], u)
        ELSE members[i].home = owner[u] /\ members[i].linked = u /\ members[i].email = u

\* "only main prospect havs owner_id = null, the other housekeepers will have
\* owner_id as main prospect's id" (mergeTenantAccounts): the owner of a
\* housekeeper has no owner himself.  Not so after "takenAddress".
OwnerIsMain == \A u \in Users : owner[u] # None => owner[u] \in registered /\ owner[owner[u]] = None

\* The row of an adult is in the household that he belongs to, and he has one
\* such row: permissions and removals go by the row, profiles by owner_id.  Not so
\* after "codeLogin".
LinkedIsOwned ==
    \A i \in DOMAIN members : members[i].linked # None =>
        /\ owner[members[i].linked] = members[i].home
        /\ \A j \in DOMAIN members : members[j].linked = members[i].linked => i = j
=============================================================================
