SPECIFICATION FairSpec
CONSTANTS
    Users = {Ann}
    ActiveTenants = {Ann}
    Estates = {Flat}
    NotShown = {Flat}
    Category <- Alone
    Building <- Alone
    Slots = {Morning}
    Rows = {Seat1}
    Requests = {r1, r2}
    None = None
    Idle = Idle
    Endpoints = {"matchByUser", "knock", "invite", "cancelInvite", "cancelShare", "top",
        "removeFromTop", "cancelTop", "commit", "cancelCommit", "expireCommit",
        "confirm", "expireTenant", "deleteTenant"}
INVARIANTS TypeOK TopHasTask CommitHasFinalIncome
PROPERTIES FinishFromCommit CommitFromTop FollowsLifecycle CommitExpires
