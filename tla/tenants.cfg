SPECIFICATION Spec
CONSTANTS
    Users = {Ann, Bob}
    ActiveTenants = {Ann, Bob}
    Estates = {Flat}
    NotShown = {Flat}
    Category <- Alone
    Building <- Alone
    Slots = {Morning}
    Rows = {Seat1, Seat2}
    Requests = {r1}
    None = None
    Idle = Idle
    Endpoints = {"matchByUser", "knock", "knockAnyway", "invite", "respond", "top",
        "removeFromTop", "commit", "cancelCommit", "confirm", "addTenant",
        "singleInvitation", "inviteTenant", "accept", "revoke", "disconnect",
        "publish", "unpublish", "deactivate"}
INVARIANTS SeatedIsFinal OneCurrentTenant
PROPERTIES NoTenantDisplaced
