SPECIFICATION Spec
CONSTANTS
    Estates = {Flat, Loft, Villa}
    Buildings = {House}
    House <- OneHouse
    Publishers = {}
    Props = {}
    Offers = {}
    Calls = {c1, c2}
    None = None
    Idle = Idle
    Endpoints = {"request", "publish", "approve", "decline", "unpublish",
        "publishBuilding", "unpublishBuilding", "deactivateBuilding",
        "editBuilding", "landlordOff"}
SYMMETRY Symmetry
INVARIANTS ActiveIsApproved
