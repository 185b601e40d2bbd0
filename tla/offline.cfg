SPECIFICATION FairSpec
CONSTANTS
    Estates = {Flat}
    Buildings = {}
    House <- Detached
    Publishers = {Is24}
    Props = {P1}
    Offers = {O1}
    Calls = {c1}
    None = None
    Idle = Idle
    Endpoints = {"publish", "unpublish", "deactivate", "offMarket", "extend", "edit",
        "delete", "remove", "rent", "vacate", "expire", "landlordOff", "post",
        "withdraw", "refuseDelete"}
INVARIANTS LetIsOffline LiveIsKnown
PROPERTIES LetIsWithdrawn
