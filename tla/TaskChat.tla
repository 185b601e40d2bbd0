------------------------------ MODULE TaskChat ------------------------------
(***************************************************************************)
(* The chat of a landlord and a tenant on a task.  What is unread is kept  *)
(* twice: as messages and last-read markers in the table chats, and as     *)
(* unread_role and unread_count in the row of tasks, which the handlers    *)
(* read outside their transaction and write back with what they have read. *)
(***************************************************************************)
EXTENDS Naturals, FiniteSets

CONSTANTS
    MaxChats,   \* bound: rows of chats that are ever inserted
    Calls,      \* handlers that can be in flight at the same time
    None,       \* no role, no message
    Idle,       \* a call slot that serves nothing
    Endpoints   \* the operations that are called in this instance

Parties == {"landlord", "tenant"}
Other(p) == IF p = "landlord" THEN "tenant" ELSE "landlord"
Ids == 1 .. MaxChats

ASSUME ChatAssumption ==
    /\ MaxChats \in Nat
    /\ None \notin Parties
    /\ None \notin Ids

VARIABLES
    task,    \* the row of tasks
    chats,   \* chats by id, in the order of created_at
    call,    \* the handlers in flight
    crossed  \* history: two handlers have been in flight together

vars == <<task, chats, call, crossed>>

\* "open" is NEW or IN PROGRESS, "closed" is RESOLVED or UNRESOLVED.
Task == [type : {"system", "common"},
         status : {"draft", "open", "closed", "archived", "deleted"},
         role : Parties \cup {None}, count : Nat, first : Ids \cup {None}]

\* A row that is not committed is pending; one that was rolled back, or a marker
\* that was deleted, is gone; a removed message keeps its row.
Chat == [sender : Parties \cup {None},
         kind : {"none", "pending", "message", "removed", "marker", "gone"}]

\* What a handler keeps while it waits: of the task, only what it uses later.
MessageCall == [op : {"message"}, party : Parties, chat : Ids,
                role : Parties \cup {None}, count : Nat]
ReadCall == [op : {"markLastRead"}, party : Parties, chat : Ids]
UpdateCall == [op : {"update"}, status : {"open", "closed"}]
ImagesCall == [op : {"images"}, row : Task]
Call == MessageCall \cup ReadCall \cup UpdateCall \cup ImagesCall

TypeOK ==
    /\ task \in Task
    /\ chats \in [Ids -> Chat]
    /\ call \in [Calls -> Call \cup {Idle}]
    /\ crossed \in BOOLEAN

\* Mutant: the count has no default.
NewTasksWithoutCount ==
    {[type |-> type, status |-> IF type = "system" THEN "draft" ELSE "open",
      role |-> None, count |-> None, first |-> None] : type \in {"system", "common"}}

\* createGlobalTask and create.
NewTasks ==
    {[type |-> type, status |-> IF type = "system" THEN "draft" ELSE "open",
      role |-> None, count |-> 0, first |-> None] : type \in {"system", "common"}}

Init ==
    /\ task \in NewTasks
    /\ chats = [i \in Ids |-> [sender |-> None, kind |-> "none"]]
    /\ call = [c \in Calls |-> Idle]
    /\ crossed = FALSE

-----------------------------------------------------------------------------
\* Handlers in flight.

Accepts(op) ==
    /\ op \in Endpoints
    /\ crossed' = (crossed \/ \E c \in Calls : call[c] # Idle)

Begin(c, new) ==
    /\ Accepts(new.op)
    /\ call[c] = Idle
    /\ call' = [call EXCEPT ![c] = new]

Serving(c, op) == call[c] # Idle /\ call[c].op = op
Ends(c) == call' = [call EXCEPT ![c] = Idle] /\ UNCHANGED crossed

\* The next row of chats.
IsNext(i) == \A j \in Ids : chats[j].kind = "none" <=> i <= j

\* A transaction inserts its row of chats.
Insert(c, new) ==
    /\ IsNext(new.chat)
    /\ Begin(c, new)
    /\ chats' = [chats EXCEPT ![new.chat] = [sender |-> new.party, kind |-> "pending"]]
    /\ UNCHANGED task

\* A statement may fail: the transaction is rolled back.
RollBack(c) ==
    /\ Serving(c, "message") \/ Serving(c, "markLastRead")
    /\ chats' = [chats EXCEPT ![call[c].chat].kind = "gone"]
    /\ Ends(c)
    /\ UNCHANGED task

-----------------------------------------------------------------------------
\* _saveToChats, and contactMultiple for each recipient: the row of chats is
\* inserted, the task is read, without the transaction, whatever its status.
SendMessage(c, p, i) ==
    Insert(c, [op |-> "message", party |-> p, chat |-> i, role |-> task.role, count |-> task.count])

\* The first message to somebody, when the task announced nothing or the messages
\* of the other.
IsFirst(c) == call[c].role \in {None, call[c].party}

\* Mutant: the first message to somebody adds to the count of the other.
CountedAdding(c) == call[c].count + 1

\* TaskService.updateUnreadMessageCount: from the row that was read.
Counted(c) == IF IsFirst(c) THEN 1 ELSE call[c].count + 1

StoreMessage(c) ==
    /\ Serving(c, "message")
    /\ chats' = [chats EXCEPT ![call[c].chat].kind = "message"]
    /\ task' = [task EXCEPT !.status = "open",
                            !.role = Other(call[c].party),
                            !.count = Counted(c),
                            !.first = IF IsFirst(c) THEN call[c].chat ELSE @]
    /\ Ends(c)

\* markLastRead: a new marker comes, which the deletion of the old ones has not
\* seen.
MarkLastRead(c, p, i) == Insert(c, [op |-> "markLastRead", party |-> p, chat |-> i])

\* The chats with the marker i of p instead of his older ones.
Marked(p, i) ==
    [j \in Ids |-> IF j = i THEN [sender |-> p, kind |-> "marker"]
                   ELSE IF j < i /\ chats[j] = [sender |-> p, kind |-> "marker"]
                   THEN [chats[j] EXCEPT !.kind = "gone"] ELSE chats[j]]

\* Mutant: the count is reset whoever has read.
StoreLastReadOfBoth(c) ==
    /\ Serving(c, "markLastRead")
    /\ chats' = Marked(call[c].party, call[c].chat)
    /\ task' = [task EXCEPT !.count = 0, !.first = call[c].chat]
    /\ Ends(c)

\* The count is reset if it is about the reader.
StoreLastRead(c) ==
    /\ Serving(c, "markLastRead")
    /\ chats' = Marked(call[c].party, call[c].chat)
    /\ task' = IF task.role = call[c].party
               THEN [task EXCEPT !.count = 0, !.first = call[c].chat] ELSE task
    /\ Ends(c)

\* removeChatMessage leaves the task as it is.
RemoveMessage(i) ==
    /\ Accepts("removeMessage")
    /\ chats[i].kind = "message"
    /\ chats' = [chats EXCEPT ![i].kind = "removed"]
    /\ UNCHANGED <<task, call>>

-----------------------------------------------------------------------------
\* The task itself.

\* TaskService.update: a Lucid instance saves the columns that differ from what
\* it has read.
ReadForUpdate(c, status) ==
    /\ task.status # status
    /\ Begin(c, [op |-> "update", status |-> status])
    /\ UNCHANGED <<task, chats>>

StoreUpdate(c) ==
    /\ Serving(c, "update")
    /\ task' = [task EXCEPT !.status = call[c].status]
    /\ Ends(c)
    /\ UNCHANGED chats

\* addImages and removeImages write the whole row back that they have read
\* before the files were stored.
ReadForImages(c) ==
    /\ Begin(c, [op |-> "images", row |-> task])
    /\ UNCHANGED <<task, chats>>

StoreImages(c) ==
    /\ Serving(c, "images")
    /\ task' = call[c].row
    /\ Ends(c)
    /\ UNCHANGED chats

\* A system task can't be deleted.
DeleteTask ==
    /\ Accepts("deleteTask")
    /\ task.type # "system"
    /\ task' = [task EXCEPT !.status = "deleted"]
    /\ UNCHANGED <<chats, call>>

\* TaskService.archiveTask, when somebody becomes the tenant of the estate.
ArchiveTask ==
    /\ Accepts("archive")
    /\ task' = [task EXCEPT !.status = "archived"]
    /\ UNCHANGED <<chats, call>>

\* deleteByEstateById, with the estate; every row of the task, markers too.
DeleteByEstate ==
    /\ Accepts("removeEstate")
    /\ task' = [task EXCEPT !.status = "deleted"]
    /\ chats' = [i \in Ids |-> IF chats[i].kind = "message"
                               THEN [chats[i] EXCEPT !.kind = "removed"] ELSE chats[i]]
    /\ UNCHANGED call

Next ==
    \/ DeleteTask \/ ArchiveTask \/ DeleteByEstate
    \/ \E i \in Ids : RemoveMessage(i)
    \/ \E c \in Calls :
          \/ StoreMessage(c) \/ StoreLastRead(c) \/ StoreUpdate(c) \/ StoreImages(c) \/ RollBack(c)
          \/ \E p \in Parties, i \in Ids : SendMessage(c, p, i) \/ MarkLastRead(c, p, i)
          \/ \E status \in {"open", "closed"} : ReadForUpdate(c, status)
          \/ ReadForImages(c)

Spec == Init /\ [][Next]_vars

-----------------------------------------------------------------------------
\* The messages that somebody has sent, removed ones too.
SentBy(p) == {i \in Ids : chats[i].sender = p /\ chats[i].kind \in {"message", "removed"}}

\* ChatService.getUnreadMessagesCount: the messages after the reader's marker and
\* after his own last message, whichever is later.
UnreadMessages(p) ==
    {i \in Ids : /\ chats[i].kind = "message"
                 /\ \A j \in i .. MaxChats : ~(chats[j].sender = p /\ chats[j].kind \in {"message", "marker"})}

\* What the task says is unread by somebody.
Announced(p) == IF task.role = p THEN task.count ELSE 0

\* However messages, readers and uploads cross, nobody is told of more unread
\* messages than the other has sent: getUserUnreadMessages takes unread_count
\* for the number of rows to show.
AnnouncedIsSent ==
    \A p \in Parties : Announced(p) <= Cardinality(SentBy(Other(p)))

\* With the handlers one after the other and no message removed, the task
\* announces what the chats say is unread, to both: as many messages as were
\* sent since the reader read or wrote himself.
UnreadIsAnnounced ==
    (/\ ~crossed
     /\ \A c \in Calls : call[c] = Idle
     /\ \A i \in Ids : chats[i].kind # "removed")
        => \A p \in Parties : Announced(p) = Cardinality(UnreadMessages(p))
=============================================================================
