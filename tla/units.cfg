SPECIFICATION Spec
CONSTANTS
    Users = {Ann}
    ActiveTenants = {Ann}
    Estates = {Flat, Loft}
    NotShown = {}
    Category <- Together
    Building <- Together
    Slots = {Morning}
    Rows = {Seat1}
    Requests = {r1}
    None = None
    Idle = Idle
    Endpoints = {"like", "dislike", "matchByUser", "knock", "cancelKnock", "move",
        "invite", "cancelInvite", "createSlot", "updateSlot", "book",
        "respond", "top", "cancelAction", "commit", "deactivate"}
INVARIANTS LikeExcludesDislike OneStagePerCategory
