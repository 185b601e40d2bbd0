SPECIFICATION Spec
CONSTANTS
    Users = {Ann}
    ActiveTenants = {Ann}
    Estates = {Flat}
    NotShown = {}
    Category <- Alone
    Building <- Alone
    Slots = {Morning, Noon}
    Rows = {Seat1}
    Requests = {r1}
    None = None
    Idle = Idle
    Endpoints = {"dislike", "removeLike", "removeDislike", "matchByUser",
        "matchByEstate", "addBuddy", "knock", "cancelKnock", "invite",
        "cancelInvite", "createSlot", "removeSlot", "book", "cancelVisit",
        "landlordCancel", "share", "cancelShare", "respond", "top",
        "removeFromTop", "cancelTop", "commit", "cancelCommit", "expireCommit",
        "confirm", "unpublish", "extend", "offMarket", "deactivate"}
INVARIANTS InvitedCanBook VisitInCalendar
PROPERTIES CommitOnlyWhenShared
