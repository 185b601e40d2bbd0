SPECIFICATION Spec
CONSTANTS
    Estates = {Flat}
    Buildings = {}
    House <- Detached
    Publishers = {Is24, Immowelt}
    Props = {P1, P2}
    Offers = {O1, O2}
    Calls = {c1}
    None = None
    Idle = Idle
    Endpoints = {"publish", "edit", "delete", "rent", "vacate", "expire", "post",
        "withdraw"}
INVARIANTS TypeOK RowNamesItsListing LiveIsKnown
