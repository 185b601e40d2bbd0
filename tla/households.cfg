SPECIFICATION Spec
CONSTANTS
    Users = {Ann, Bob, Cid, Dan}
    MaxRows = 5
    None = None
    Endpoints = {"signUp", "addMember", "updateMember", "sendCode", "codeSignUp", "accept", "refuse",
        "removeMember", "leave"}
SYMMETRY Symmetry
INVARIANTS TypeOK OwnerIsMain MemberFound LinkedIsOwned
