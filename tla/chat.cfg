SPECIFICATION Spec
CONSTANTS
    MaxChats = 3
    Calls = {c1, c2}
    None = None
    Idle = Idle
    Endpoints = {"message", "markLastRead", "removeMessage", "update", "images",
        "deleteTask", "archive", "removeEstate"}
SYMMETRY Symmetry
INVARIANTS TypeOK AnnouncedIsSent UnreadIsAnnounced
CHECK_DEADLOCK FALSE
