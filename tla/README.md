# Breeze backend: a TLA+ model of its matching and market services

Breeze brings prospects and landlords together. A prospect likes estates and knocks on them, the
landlord invites him to a viewing, puts him on a short list, requests the rental, the prospect
confirms, and the estate is let to him. Around that, estates are published after an administrator
has approved them, are listed on market places, and what arrives from there becomes knocks again.
The backend is a Node.js server (AdonisJS, PostgreSQL, Redis queues). Nearly nothing in it locks: a
handler reads, decides, awaits and writes, and other handlers run in between.

These modules model that with its interleavings. TLC checks them on small instances, and the proofs
that TLAPS checks hold for every number of prospects, estates, messages and handlers in flight.
Paths below are relative to `src/app`.

## 1. Inventory

| Component | State | Operations | Hard behaviour | What makes it correct |
|---|---|---|---|---|
| Likes and dislikes (`EstateService`) | `likes`, `dislikes` | add and remove, for the whole building | different handlers cover different parts of a building | no estate is both liked and disliked |
| Match pipeline (`MatchService`, `MatchController`) | `matches`, `visits` | matching, knock, invite, book, share, top and the way back from each | checks outside the transaction; upserts that overwrite any stage; independent statements | a stage is reached from the one before; nobody is stuck; an appointment is inside the calendar |
| Final match (`MatchService`, `TaskService`, `MemberService`) | `matches`, `tasks`, `incomes.is_final`, `estates` | request, cancel, expire, confirm | two confirmations; cancel against confirm; a job against both | one tenant per estate, who had a standing request; a request ends |
| Current tenants (`EstateCurrentTenantService`) | `estate_current_tenants`, `matches`, `estates.letting_type` | add, invite by link, revoke, accept, disconnect, expire, delete | a link used twice; the row of the link is not the row that is connected | the tenant of an estate is its final match, and there is one |
| Viewing calendar (`TimeSlotService`) | `time_slots`, `visits`, `matches` | create, update, remove, for the building | visits read before the transaction that removes their slot | no visit outside the calendar |
| Estates and buildings on the market (`EstateService`, `BuildingService`, `Admin/PropertyController`, `QueueJobService`) | `status`, `publish_status`, `letting_type` of estates, `status`, `published` of buildings | request, approve, decline, publish, unpublish, extend, go offline, deactivate, edit, delete, rent, expire | statuses that were read before a transaction are written back; instances save the columns that differ from what was read; updates that commit outside the transaction | nothing is on the market that was not approved, or that is let |
| Market places (`EstateSyncService`, `QueueJobService`) | `estate_sync_listings`; EstateSync's own state | post, withdraw, six webhooks | webhooks in any order, about rows that were reset meanwhile; jobs queued before their transaction commits | what is on a market place is known and can be withdrawn; what is let is withdrawn |
| Contact requests (`MarketPlaceService`, `OAuthController`, `UserService`) | `estate_sync_contact_requests`, `users`, `matches` | webhook, link, sign-up, login, confirmation | requests are found by address and closed by account; one knock that fails rolls all back | an open request can be found; none is closed without its match |
| System tasks and chat (`TaskService`, `ChatService`) | `tasks`, `chats` | messages, markers, images, answers, deletion | the unread count is stored twice and written back from rows read earlier | the count is what the messages say |
| Matching score and search (`calculateMatchPercent`, `filterEstates`) | none | score and search of a prospect and an estate or an offer | two readings of one profile: what null and a boundary mean | monotone, within bounds, and what is found scores well |
| Household members and incomes (`MemberService`) | `members`, `incomes`, `users.owner_id` | add, invite, accept, refuse, remove, leave, permissions, the flag of a final income | a household is kept twice; the flag hangs on the member, not on the match | owners and rows agree; every user has a row to act by; a requested rental has its incomes frozen |
| Job queue (`Classes/Queue`, `QueueService`) | Redis | delayed and repeated jobs | jobs are not retried; a failing one is only logged | every job is done |
| Third-party offers | own tables | match, knock, expire | as in the pipeline | as in the pipeline |
| Users, plans, mail, notices, imports, geo data | own tables | input, output, payment | mostly I/O | |

The components share the tables. The pipeline, the final match and the tenants all write
`matches`; the calendar and the market write `matches` and `visits`; the final match and the tenants
write `estates`, and so take listings off the market places. Otherwise they communicate by jobs (the
posting and withdrawing of listings, the expiry of estates and of requests), by the event
`match::estate` that a publication fires to compute NEW matches, and with EstateSync by requests
and webhooks.

`PROJECT.json` lists each component with its status, and the hazards with the line where each bites.


## 2. Modules

| Module | Content |
|---|---|
| `MatchTables` | matches: constants and their assumptions, the tables as variables, `TypeOK`, `Init`, requests in flight, helpers on rows |
| `MatchFlow` | likes, matching, NEW to TOP, the calendar, `cancelAction` |
| `FinalMatch` | COMMIT, its expiry, FINISH, renting an estate |
| `CurrentTenants` | tenants and invitation links; extends `FinalMatch`, because an accepted link runs `handleFinalMatch` |
| `EstateMarket` | what publication and withdrawal do to matches |
| `MatchSystem` | the composition of these: `Next`, `Spec`, `FairSpec`, the properties, and the map to `MatchLifecycle` |
| `MatchLifecycle` | abstract: what the matching services promise about a prospect and an estate |
| `MarketTables` | the market: estates, buildings, listings, jobs, EstateSync's own state, calls in flight |
| `Publication` | the operations of landlord, administrator, final match and jobs on estates and buildings |
| `Listings` | workers and webhooks, and EstateSync as far as they see it |
| `MarketSystem` | the composition of the two, fairness, properties |
| `TaskChat` | a task with its messages, markers and unread counter |
| `ContactRequests` | contact requests of market places, accounts and links |
| `MatchScore` | `calculateMatchPercent` and `filterEstates` as operators |
| `Profiles` | profiles that change by their endpoints, and what the score makes of them |
| `Households` | members, invitations, mergers, `users.owner_id` |
| `MCMatchSystem`, `MCMarketSystem`, `MCTaskChat`, `MCContactRequests`, `MCProfiles`, `MCHouseholds` | definitions for the configurations |
| `MatchSystemTypes`, `MatchSystemStages`, `MatchSystemSerial`, `MarketProofs`, `TaskChatProofs`, `ContactProofs`, `ScoreProofs`, `HouseholdProofs` | proofs |

Five state machines share no variables: matches, market, chat, contact requests, households. Where one
needs the other it has an abstraction of it: the match modules keep `status` and `let` of an estate
and let `EstateMarket` change them without asking the administrator; the market has `rent` and
`vacate`, what a final match and the end of a tenancy write to an estate; contact requests end in
`interacted`, a match of any stage; the score is an arbitrary choice in the match modules.

### State

| Module | Variable | Code |
|---|---|---|
| `MatchTables` | `match[<<u, e>>]` | row of `matches` (unique on user and estate): `status`, `share`, `buddy`; `"none"` stands for no row |
| | `visit[<<u, e>>]` | row of `visits`: the booked unit, or `None` |
| | `likes`, `dislikes` | rows of these tables |
| | `slots[e]` | the units that the `time_slots` of an estate offer |
| | `status[e]`, `let` | `estates.status` and `letting_type = LET` |
| | `task[<<u, e>>]` | the system task: none, open or archived |
| | `seat[i]` | row of `estate_current_tenants`: estate, user, not expired or deleted, link code |
| | `finalIncome` | users whose household incomes carry `is_final` |
| | `req[r]` | a handler in flight and what it has read, or `Idle` |
| `MarketTables` | `estate`, `building`, `let` | `status` and `publish_status` (`published` of a building), `letting_type` |
| | `listing[<<e, p>>]` | row of `estate_sync_listings`, with the ids of property and listing |
| | `property`, `offer`, `hooks` | EstateSync (external): its properties and listings, and webhooks on their way |
| | `jobs` | postings and withdrawals that wait for a worker |
| | `call[c]` | a handler in flight and what it has read |
| `TaskChat` | `task`, `chats` | the row of the task; the rows of `chats` in the order of their time |
| | `call` | a handler in flight, with the row of the task it has read |
| `ContactRequests` | `account`, `request` | `users`; `estate_sync_contact_requests` |
| | `links` | dynamic links that were mailed, with the code in them |
| | `interacted`, `estate` | matches found by `hasInteracted`; whether an estate is on the market with free slots |
| `Profiles` | `prospect`, `estate`, `proofs` | what the scoring queries read |
| `Households` | `registered`, `owner`, `members` | users, `users.owner_id`, rows of `members` in the order of ids |

`crossed` in `TaskChat` and `ContactRequests` is a history variable: two handlers have been in flight
together. Properties that the code keeps only for handlers one after the other are stated for behaviours
in which it is FALSE, while the others are checked with crossings in the same run.

### Actions

A handler with reads before its writes is a *check* action (`Invite`, `BookTimeslot`,
`FinalConfirm`) and one *store* action per transaction (`StoreInvite`, `StoreVisit`,
`HandleFinalMatch`), or one per statement where there is no transaction
(`LandlordDeletesVisit`, `LandlordMovesToInvite`; the three `CancelTop` steps). Between them the
request record holds what the code holds in its variables: the operation, the user and the estate,
the ids read, the rows it will write back. A handler that is one statement or one transaction with its
reads inside (`AddLike`, `ToTop`, `TenantCancelCommit`, `Extend`) is one action, guarded by
`Served`. The guards of a check action are the conditions and early returns of the code; a refused
request is no step. Updates with a WHERE clause on the stage keep it in the store action
(`RequestFinalConfirm`, `CancelCommit`, `HandleFinalMatch`), updates without one overwrite whatever is
there (`StoreKnock`, `StoreShare`; `StoreImages` in the chat). An insert that the unique key would refuse
leaves everything as it is, as the rollback does.

The constant `Endpoints` holds the operations a run offers. It is used by the guards only, so that
the theorems hold for any set of them, except for those that a theorem names. It lets a run leave out the
endpoints that break its property by design, which section 4 names.

### The lifecycle

`MatchLifecycle` knows four places of a pair of prospect and estate: candidate (every stage before
TOP), listed, requested, tenant. A pair is listed, is requested only from the list, becomes tenant only
from a request or by an invitation link that is being accepted, may fall back at any time, and is past
the candidates only with a system task to talk in. `MatchSystem` implements it under the mapping
`place <- Place(match[p].status)`, `bonded` the pairs with a task, `linked` the pairs of accept
requests in flight. `FollowsLifecycle` is checked in `races` and proved.

## 3. What is abstracted

Matches

* A search finds any subset of the candidates, a publication any subset of the active prospects, with
  the candidates computed as in `searchEstatesQuery`.
* Time: an appointment is a unit of the calendar, slots neither overlap nor are split; a COMMIT
  can be too old at any time; links do not expire (in the code, they never do).
* An invitation goes to whichever live row of the estate is there. A landlord may do what any may do.
* A row that was deleted and inserted again is not told apart from the old one
  (`CreateNewMatches`), and ids of tenant rows that are dead and not held by a request are reused.
* The event `match::estate` is a request of its own that may come at any time.

Market

* Where the code commits an update at once although it means to use the transaction (`approvePublish`),
  the update, that of the building and the queueing of the job are one step. Building operations,
  `rent` and `expire` queue their jobs together with their commit. A remote call and the update after it
  are one step when a property is deleted, and so are a webhook's read and update.
* Jobs: identical waiting jobs are one; a run without workers keeps no jobs (`Queued`); a job that fails
  is not retried, as `Classes/Queue` sets no attempts of its own.
* EstateSync is external: it reports each outcome once, in any order, at any time; a property that it
  has rejected never becomes live; deleting a property leaves its listings to reports of their own. Ids
  are given in a fixed order.

Chat: one task between one landlord and one tenant; NEW and IN PROGRESS are one status. Inserts are bounded
by `MaxChats`, so that the run stops (`CHECK_DEADLOCK FALSE`).

Contact requests: the knocks of one `createKnock` are one step; changing the address, closing an account
and tenants from outside are left out.

Score: fractions of `Scale`, rounded down, and weights in tenths; integers for rooms and spaces; dates
are relative to today; amenities of the vicinity are not told apart from the others; null is 0; the two
columns of income are two fields; the final `toFixed` is left out. A stay that is not `None` means
`is_short_term_rent` with a duration.

Households: handlers one after the other, permissions between members and the onboarding flags left out, so
that a row is edited whoever edits it. An address is the user who has it. `is_verified` is a field of the
forms of `addMember` and `updateMember` and takes any value. What `updateMember` and `housekeeperSignup`
accept and what breaks the properties is in the actions, under names of its own among the `Endpoints`:
`mainAddress` (an address for the first row of a household), `takenAddress` (an address that a user or another
row has) and `codeLogin` (the code of an invitation used by who is registered).

Everywhere: events, notices and mail are sent after the transaction and read by nobody. Transactions are
atomic; they run at PostgreSQL's default level, so that statements of one could see commits of another
between them, which the models have only where the code has no transaction or reads before it.

## 4. Runs

| Run | Instance | Properties | What it shows |
|---|---|---|---|
| `races` | 1 prospect, 1 estate, 2 handlers, fairness | `TypeOK` `TopHasTask` `CommitHasFinalIncome` `FinishFromCommit` `CommitFromTop` `FollowsLifecycle` `CommitExpires` | what survives every interleaving; the lifecycle is implemented; a request ends |
| `calendar` | 1 handler, 2 units | `InvitedCanBook` `VisitInCalendar` `CommitOnlyWhenShared` | bookings, appointments and shared profiles over long call sequences |
| `units` | 2 estates of one building and category | `LikeExcludesDislike` `OneStagePerCategory` | marks cover the same parts of a building; handled at one unit, waiting at no other |
| `tenants` | 2 prospects, 2 tenant rows | `SeatedIsFinal` `OneCurrentTenant` `NoTenantDisplaced` | tenant and final match are the same person; one live row per estate |
| `listings` | 1 estate, 2 market places, 2 properties, 2 listings | `TypeOK` `RowNamesItsListing` `LiveIsKnown` | no listing gets lost between rows, workers and webhooks |
| `offline` | 1 estate, 1 market place, every way off the market, refused deletions, fairness | `LetIsOffline` `LiveIsKnown` `LetIsWithdrawn` | a let estate is off the market and its listing goes for good; with one market place no listing gets lost by `unpublish` either |
| `review` | 3 estates, 2 of them in a building, 2 handlers, symmetry | `ActiveIsApproved` | nothing is on the market that nobody has approved |
| `chat` | 2 handlers, 3 messages | `TypeOK` `AnnouncedIsSent` `UnreadIsAnnounced` | the counter against the messages |
| `contacts` | 1 prospect, 2 addresses, 2 requests, 2 handlers | `TypeOK` `OpenIsFindable` `ClosedIsMatched` | a request can be found, and ends in a match |
| `score` | profiles up to 3 edits from a pair that suits | `TypeOK` `ScoresInRange` `FoundScoresWell` `EasierNeverWorse` | search and score agree; offering more never costs |
| `households` | 4 prospects, 5 rows of members, symmetry; addresses and codes used by who is new | `TypeOK` `OwnerIsMain` `MemberFound` `LinkedIsOwned` | owners and rows tell the same story as long as addresses are new when they are entered |
| `rentedTwice` | 2 prospects, 2 handlers | `OneFinalMatch` (violated) | two confirmations in flight make two final matches of one estate |

Bounds. Matches of different prospects at one estate meet only in the final match and the tenant
rows, so that two prospects are enough where one displaces the other, and one is enough in the
pipeline, whose handlers address one row. Two handlers in flight show every crossing of a check
and a store with another handler's writes; a third adds only combinations of crossings of the same
rows, and the theorems about crossings do not depend on the number. Two estates are needed for buildings and
categories. Two properties and two listings at EstateSync let an estate be posted again while reports
about its former posting are late. Three messages are a sent, a crossing and a later one. Two addresses
and two requests let one account be reached by the wrong link. Four prospects are a merger into a
household that has merged before, with a bystander; five rows hold them and an invitation. `MaxEdits`, `MaxChats` and `MaxRows` are the only
bounds on what counts or grows.

Endpoints left out, and why. Each of these breaks the property as the code stands, so that the run states
the property for the rest; no comment, message or test promises otherwise, except for `households`:

* `calendar` leaves out, for `InvitedCanBook`, `like` and `knockAnyway` (a re-knock keeps the visit
  row), `publish` (rows of the estate go, visits stay), `cancelAction` and `move` (the visit at the
  first estate stays); and for `VisitInCalendar` `updateSlot`, which takes only the visits of matches
  at VISIT along, and only at the estate of the request. With two handlers in flight a booking can cross the removal of its slot, and a
  prospect can withdraw his profile between the check and the update of a request.
* `tenants` leaves out `cancelShare` and `cancelAction` (a FINISH becomes VISIT or NEW while its
  tenant stays), `expireTenant` and `deleteTenant` (the FINISH of the former tenant stays; they fire in
  `races`).
* `units` leaves out `removeSlot`, after which a prospect who had knocked again is invited, and, for the
  size of the instance, `cancelTop`, `publish` and the steps back from later stages;
  `MarksAreDisjoint` covers their likes and dislikes.
* `races` has one estate, because the flag of a final income hangs on the prospect: a cancellation
  at one estate clears it for the request of another. For the size of the liveness check it has no
  calendar, so that an invitation leads to TOP at once (`NotShown`), and neither the variants of a knock nor
  publications; the theorems cover all endpoints.
* `review` leaves out `extend` (makes an expired estate active whose `publish_status` unpublishing has
  reset), `deactivate` and `offMarket` (save the columns that differ from what was read, so that a
  crossing approval keeps one column and loses the other); for size `rent`, `expire` and `edit`.
* `listings` leaves out `unpublish` and `remove`: with two market places, a row that is scheduled but has
  no listing makes `unpublishEstate` delete the property, and the row of the other market place forgets
  its live listing.
* `households` leaves out `mainAddress`, `takenAddress` and `codeLogin`, which nothing in the code refuses. Each
  breaks a property when it is added to the run. `takenAddress` breaks `OwnerIsMain`: two main prospects who
  enter each other's address and accept each other's invitation, or one who enters his own, make a user his
  own owner. This contradicts the comment at `MemberService.js:674`, "only main prospect havs owner_id = null,
  the other housekeepers will have owner_id as main prospect's id". `mainAddress` breaks `MemberFound`:
  `getMemberIdByOwnerId` looks for the row without an address. `codeLogin` breaks `LinkedIsOwned`: the
  row of the invitation is linked to an account that has no owner. That is an ordinary flow: sign up first,
  open the invitation then. With `takenAddress` a household can also remove its own main row, as
  `removeMember` protects the row with the smallest id, which then came with a merger.

Properties with premises. `ClosedIsMatched` and `UnreadIsAnnounced` are stated without crossings:
`createKnock` closes what arrives between its query and its update, and the unread counter is written back
from a row read earlier. `FoundScoresWell` and `EasierNeverWorse` name in `Comparable` and beside it where
search and score read a profile differently: limited stays, budgets as shares, ages too high and too low at
once, a lowest age of zero, ranges that end before they start.

Fairness. `FairSpec` of `MatchSystem` asks that a handler in flight goes on (weak fairness; the event loop
resumes every promise, and a database statement ends) and that the every-minute job, at a COMMIT that is
old enough, gets its turn (strong fairness: the job does not compete with clients for a place among the
`Requests`, that limit is the model's). `FairSpec` of `MarketSystem` asks the same of calls and of the
worker that takes a queued withdrawal, whose queue is served without end. Prospects, landlords,
administrators and EstateSync need do nothing.

Known to disagree with comments or messages, and not run: a second COMMIT at an estate is not refused
although `requestUserCommit` checks for one, because the count comes as the text `'0'` or `'1'` and both are
truthy; an estate that is published again after unpublishing is posted a second time; an owner can have an
owner himself (`households` with `takenAddress`, above).

Mutants. Each property of a passing run has a variant of one definition, next to it in its module
and marked as a mutant, that makes the property fail on the same instance: a forgotten task, a visit
that is kept, an update that does not repeat the stage, a dropped check, a merger that forgets the
housekeepers.

## 5. Proofs

Every safety property and action property of the passing runs is a theorem, for every value of the
constants under the assumptions below, and so is the refinement of `MatchLifecycle`.

### Assumptions

The constants need the named assumptions of their modules. `TablesAssumption`: active prospects are
prospects, an estate is in its own building and category, and categories are equivalence classes. `None`
and `Idle` are none of the things they stand in for (`IdleAssumption`, `MarketAssumption`,
`ContactAssumption`, `ChatAssumption`, `HouseholdAssumption`). `ScoreAssumption`: the scale and the
lengths of a year are positive. `ProfilesAssumption`: what is entered has the types that the validators
admit; `OptionsAssumption`: a profile has finitely many amenities, which are rows. No other set is
assumed finite.

Some theorems assume more of the instance, and say so in `ASSUME`:

| Theorem | Property | Assumed beyond the module's assumptions |
|---|---|---|
| `TypeCorrect` | `TypeOK` | |
| `LateHaveTask` | `TopHasTask` | |
| `FinishNeedsCommit` | `FinishFromCommit` | |
| `CommitNeedsTop` | `CommitFromTop` | |
| `ImplementsLifecycle` | `FollowsLifecycle` | |
| `MarksAreDisjoint` | `LikeExcludesDislike` | |
| `CommitsHaveFinalIncome` | `CommitHasFinalIncome` | one estate |
| `CommitsAreShared` | `CommitOnlyWhenShared` | one handler in flight |
| `VisitsInCalendar` | `VisitInCalendar` | one handler in flight; no `updateSlot` |
| `InvitationsCanBeBooked` | `InvitedCanBook` | one handler in flight; single estates; no `like`, `knockAnyway`, `move`, `cancelAction`, `publish`, `disconnect` |
| `OneUnitPerCategory` | `OneStagePerCategory` | one handler in flight; no `addBuddy`, `offMarket`, `move`, `landlordCancel`, `removeSlot`, `cancelShare` |
| `TenantsAreFinal`, `OneTenantAtATime`, `TenantsStay`, `RentedOnce` | `SeatedIsFinal`, `OneCurrentTenant`, `NoTenantDisplaced`, `OneFinalMatch` | `LastingTenancies`: one handler in flight; single estates; no `offMarket`, `cancelAction`, `cancelShare`, `landlordCancel`, `removeSlot`, `expireTenant`, `deleteTenant` |
| `MarketTypes` | `TypeOK` | |
| `ApprovedOnMarket` | `ActiveIsApproved` | no `extend`, `deactivate`, `offMarket` |
| `LetStaysOffline` | `LetIsOffline` | one call in flight; no `unpublishBuilding` |
| `NamesAreOwn` | `RowNamesItsListing` | one call in flight |
| `LiveStaysKnown` | `LiveIsKnown` | one call in flight; nothing of `Losing` |
| `CountIsSent`, `AnnouncedIsUnread`, `ChatTypes` | `AnnouncedIsSent`, `UnreadIsAnnounced`, `TypeOK` | |
| `FindableOpen`, `ClosedWithMatch`, `ContactTypes` | `OpenIsFindable`, `ClosedIsMatched`, `TypeOK` | |
| `ScoresStayInRange`, `FoundIsWorthShowing`, `EasierIsNeverWorse`, `ProfileTypes` | `ScoresInRange`, `FoundScoresWell`, `EasierNeverWorse`, `TypeOK` | |
| `MemberIsFound`, `NoOwnerOfOwner`, `OneRowInOwnHousehold` | `MemberFound`, `OwnerIsMain`, `LinkedIsOwned` | `NewAddresses`: no `mainAddress`, `takenAddress`, `codeLogin` |
| `HouseholdTypes` | `TypeOK` | |

"One handler in flight" is what the runs of these properties have, too; with two, checks and stores of
different handlers cross: section 4 tells what that does to the calendar, and the run `rentedTwice` shows
it of `OneFinalMatch`. The theorems cover any numbers of prospects, estates, slots and rows, and every
endpoint that is not named. Of the endpoints that are named for the matching services and for households, each breaks the
property, or one of the three, on a small instance when it is added to the others.

### Matches, with any number of handlers in flight

`TypeCorrect`: `TypeOK` is inductive; it includes the records of the requests in flight, since a store
action writes what a check action has read. One lemma for each group of actions shows that it is kept.

`LateHaveTask`, `FinishNeedsCommit`, `CommitNeedsTop`, `CommitsHaveFinalIncome`: whether a match may
become TOP without a new task depends on the COMMIT it came from having one. The argument goes through
one relation on steps, `StageStep`: a match that is TOP, COMMIT or FINISH after a step was there or one
stage before it, or has a task now; FINISH from anywhere else needs an accepted link; no task is lost.
`EarlyStep` disposes of every action that leads to a stage before TOP only, and the few others (`ToTop`,
`StoreInvite`, `RequestFinalConfirm`, `CancelCommit`, `HandleFinalMatch`, `StoreAccept`) are proved one
by one. The two action properties follow from `StageStep` at once, `TopHasTask` by induction with
`TypeOK`. With two estates a cancellation at one clears the flag of the COMMIT at the other, which is why
`CommitsHaveFinalIncome` has one.

`ImplementsLifecycle`: `Init` maps to `LifecycleInit`, and by `StageStep`, `TypeOK` and `TopHasTask`
every step maps to a step of the lifecycle or a stutter. `LifecycleBonds` proves of the lifecycle itself
that whoever is past the candidates has a task, so that the mapping carries `TopHasTask` from the
abstract level.

`MarksAreDisjoint`: every step that adds marks of one kind takes the marks of the other kind of the same
pairs away, which `MarksStep` states.

### Matches, one handler after the other

`StillTrue` (`ChecksStayTrue`) is the base of `MatchSystemSerial`: what the handler in flight has checked
still holds. It is not trivial with one handler, because handlers write in several statements with parts
of their own between them: a landlord's cancellation deletes the visit and changes the stage apart, a
slot that is removed takes along the appointments listed before, new matches are inserted from the
candidates read before the old ones were deleted. `Checked` says, for each operation, what has to survive
its earlier parts. `CommitsAreShared` needs no more: a COMMIT is written by the handler that has seen the
profile shared.

`VisitsInCalendar` adds that only endpoints of the instance are in flight (`OnlyOpen`) and compares every
step with its effect on visits and slots. `InvitationsCanBeBooked` strengthens `InvitedCanBook` to
`AppointedAreBooked`: a visit row belongs to a match that is at VISIT or after it. `OneUnitPerCategory`
strengthens the property to `Solo`: who is handled at one unit is at rest (no row, NEW or FINISH) at the
others, because a knock that waits there could be invited next; with no estate offline and no buddy, and
categories that are equivalence classes. Among the endpoints it excludes is `move`: `moveToNewEstate`
knocks at the target without looking at a third unit where the prospect is handled, so that the property
needs categories of at most two units then; the run `units` has it, with two.

`TenancyInv` (`TenanciesLast`) strengthens the four properties of tenants: an estate has one live row at
most; its tenant has the final match; a final match has a live row of his own; what is let is a draft
(`LetIsDraft`). The last part is what makes renting again safe: `finalConfirm` asks for an estate that is
active or expired, and while a tenant lives there no link of another can be accepted (`OneSeat`).

### Market

`ApprovedOnMarket` holds for any number of calls, each of which writes rows it has read long before.
`IInv` says of every call in flight (`Fits`) that one which asks for publication has read its estates off
the market, so that writing their status back puts none on it, and that one which unpublishes has read
its estate on the market, so that saving the changed columns writes the status too. `RowsFit` reduces
every writing step to three cases: an estate stays as it is, gets a row that is off the market, or an
approved one.

`MarketTypes` is inductive with the records of calls. `LetInv`, for `LetStaysOffline`, says of a let
estate that it is a draft, offline or deleted, and asks for an approval only when it is not a draft and
in no building, and of the call in flight that what it has read is so.

`NameInv`, for `NamesAreOwn`, adds that a row's property is one of its estate, and what the worker and
the webhook handler in flight carry: a property of the estate, and listings of that property on the
market place they are for.

`LiveInv`, for `LiveStaysKnown`, is the largest invariant of the project. A listing that is live at
EstateSync is named by a row or about to be stored by the worker that posted it; the rest says when rows
may forget. Rows of an estate start, are posted and are scheduled together (`RowsAgree`); nothing is
named before the property was processed (`ProcessedFirst`); a row that names a live listing is posted,
published or scheduled (`LiveOnMarket`); what is scheduled is being withdrawn, or nothing of the estate
is live (`ScheduledEnds`, `WithdrawnEnds`); and webhooks on their way tell the truth about what
EstateSync has (`PropertyHooksTrue`, `OfferHooksTrue`), in any order. `LiveChecked` says the same of the
call in flight. `Losing` names what is left out: operations that start the rows of an estate again
(`request`, `publishBuilding`) or that close or schedule them (`unpublish`, `decline`, `deactivate`,
`unpublishBuilding`, `deactivateBuilding`) whatever is still out there, and deletions that EstateSync
refuses (`refuseDelete`), after which the handler forgets a listing that stays out. `request`,
`unpublish`, `deactivate`, and `publishBuilding` with the other two of buildings, break `LiveIsKnown` on
the instance of the run `listings`.

### Chat, contact requests, score, households

`CountIsSent`: the invariant needs the bound of every handler in flight, too: a handler that has read the
row writes one more than what it has read, later. `IInv` is `TypeOK`, that a message call's own message
is among the chats and uncommitted, that the count each call has read is no more than the messages sent
without its own, and the same of the stored row. `AnnouncedIsUnread` adds, for behaviours without
crossings and removed messages, that the row is exactly what the chats say (`Aligned`) and that the
handler in flight has read it so (`Serial`).

`ContactTypes`, `FindableOpen`: a handler gives requests to an account it has found earlier, so that
`IInv` adds what stays true of that account meanwhile: whoever is registered has an address and keeps it
(`HasAddress`), a request and a handler that works for an account name a registered one
(`BelongsToRegistered`), the account found for an address has that address (`ContactsKnown`), and the
requests that a handler is about to knock at have not gone meanwhile (`FoundRemain`). `ClosedWithMatch`
adds `Alone`: without crossings, the requests that `createKnock` found are still all that its update
closes.

`ScoreProofs` is arithmetic: a criterion is a fraction of `Scale`, rounded down, and everything rests on
its range and on its monotonicity in both arguments. The hardest case is the budget: a higher income
makes the same rent a smaller share, against a smaller share that is asked for (`SharesShrink`).
`ProfileInv`, the types and that options are finite, is the invariant; the properties follow from it for
one state, or one step.

`HouseholdProofs`: under `NewAddresses`, `Household` strengthens the three properties until they are inductive: who belongs to
somebody has at most his own main row; of who is on his own the first row is a main row; an address
belongs to one row; and who is invited has come later than a row of who invites him (`InvitedLater`). The
last part is what makes a merger safe: it excludes that households invite each other in a circle, and it
keeps the first row of the inviting household first when the rows of the other one join it, so that
`removeMember`, which spares the smallest id, never takes a main row that is needed. A removal renumbers
the sequence, so `Household` is stated of rows at any positions, each operation is one lemma about that
(`Merged`, `RowGone`, ...), and `Renumber` closes the gap at the end. `TypeOK` is inductive by itself
(`Typed`, `TypesStay`), whatever addresses are entered.

### Model-checked only

`CommitExpires` and `LetIsWithdrawn`: liveness under fairness, with `ENABLED` in it, is out of the
prover's reach. Of the proved properties, two runs check a part that the theorems' assumptions leave out:
`units` has `OneStagePerCategory` with `move`, at two units, and `offline` has `LiveIsKnown` with
`unpublish`, `deactivate` and refused deletions, at one market place.

## 6. Not modelled

* Times of slots: `getNotCrossRange`, `getCrossTimeslotQuery`, the zone of a search on the map.
* Jobs: delays and priorities, redelivery of a job whose worker has stalled, and the other jobs. `addJob`
  writes the options of a job into the shared defaults, so that a later job inherits them; as a worker may
  take a job at any later time, `LetIsWithdrawn` includes it.
* Permissions between members, incomes and documents; deletion of accounts.
* Likes, knocks and expiry of third-party offers: the same stages as the pipeline, without transactions.
* Plans and payments, notices and mail, imports, geo data, statistics: input and output without a state
  that the modelled tables depend on. They, and constants, migrations, locales and tests, are most of
  the repository's lines, so that the modelled handlers are a small part of it by lines.

## 7. Plan

1. The job queue with delays, redelivery and leaking options, under `Listings` and `FinalMatch`.
2. Third-party offers: their matches as a second, smaller pipeline.
3. Households with handlers in flight together; permissions.
4. `TimeRanges`: overlap and free slots against sets of minutes.
5. Theorems for several handlers in flight: which parts of `Checked` survive the handlers that lock the same
   rows, and so which of the properties of `MatchSystemSerial` need one handler.
6. `OneStagePerCategory` with `addBuddy`, and `LiveIsKnown` for two market places with `unpublish`, each with
   the restriction under which it holds.
