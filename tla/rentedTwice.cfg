SPECIFICATION Spec
CONSTANTS
    Users = {Ann, Bob}
    ActiveTenants = {Ann, Bob}
    Estates = {Flat}
    NotShown = {Flat}
    Category <- Alone
    Building <- Alone
    Slots = {Morning}
    Rows = {Seat1, Seat2}
    Requests = {r1, r2}
    None = None
    Idle = Idle
    Endpoints = {"matchByUser", "knock", "invite", "commit", "cancelCommit", "confirm"}
INVARIANTS OneFinalMatch
