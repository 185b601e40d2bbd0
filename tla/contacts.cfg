SPECIFICATION Spec
CONSTANTS
    Users = {Ann}
    Emails = {Home, Work}
    Estates = {Flat}
    Ids = {q1, q2}
    Calls = {c1, c2}
    None = None
    NoRow = NoRow
    Idle = Idle
SYMMETRY Symmetry
INVARIANTS TypeOK OpenIsFindable
PROPERTIES ClosedIsMatched
