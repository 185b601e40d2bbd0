SPECIFICATION Spec
CONSTANTS
    Scale = 1000
    HalfYear = 182
    Year = 365
    Mandatory = {"furnished", "kitchen"}
    Furnished = "furnished"
    Sources = {"employee"}
    None = None
    FirstProspect <- Suitable
    FirstEstate <- Flat
    ProspectValues <- TenantInput
    EstateValues <- EstateInput
    Members <- More
    MaxEdits = 3
INVARIANTS TypeOK ScoresInRange FoundScoresWell
PROPERTIES EasierNeverWorse
