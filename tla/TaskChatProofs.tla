--------------------------- MODULE TaskChatProofs ---------------------------
(***************************************************************************)
(* However handlers cross, the row of a task announces no more unread      *)
(* messages than the other has sent.  A count is computed from a row that  *)
(* was read earlier, so the invariant has to hold of every row that is     *)
(* kept by a handler in flight, and the row of chats of each of them must  *)
(* be its own: it becomes one more message when the count grows by one.    *)
(* As long as no two handlers are in flight together, the announcement is  *)
(* exact.                                                                  *)
(***************************************************************************)
EXTENDS TaskChat, FiniteSetTheorems, TLAPS

Inserting(c) == Serving(c, "message") \/ Serving(c, "markLastRead")

SentCount == [p \in Parties |-> Cardinality(SentBy(p))]

\* A count for role that the messages sent so far account for.
IsSent(role, count) == role # None => count <= SentCount[Other(role)]

OwnRow ==
    /\ \A c \in Calls : Inserting(c) =>
          chats[call[c].chat] = [sender |-> call[c].party, kind |-> "pending"]
    /\ \A c, d \in Calls : Inserting(c) /\ Inserting(d) /\ c # d => call[c].chat # call[d].chat

SeenIsSent ==
    \A c \in Calls :
        /\ Serving(c, "message") => IsSent(call[c].role, call[c].count)
        /\ Serving(c, "images") => IsSent(call[c].row.role, call[c].row.count)

IInv == TypeOK /\ OwnRow /\ SeenIsSent /\ IsSent(task.role, task.count)

-----------------------------------------------------------------------------
LEMMA Fields ==
    ASSUME TypeOK, NEW c \in Calls
    PROVE  /\ Serving(c, "message") =>
                 /\ call[c] \in MessageCall
                 /\ call[c].party \in Parties /\ call[c].chat \in Ids
                 /\ call[c].role \in Parties \cup {None} /\ call[c].count \in Nat
           /\ Serving(c, "markLastRead") =>
                 call[c] \in ReadCall /\ call[c].party \in Parties /\ call[c].chat \in Ids
           /\ Serving(c, "update") => call[c].status \in {"open", "closed"}
           /\ Serving(c, "images") =>
                 call[c].row \in Task /\ call[c].row.role \in Parties \cup {None} /\ call[c].row.count \in Nat
BY DEF TypeOK, Serving, Call, MessageCall, ReadCall, UpdateCall, ImagesCall, Task

LEMMA SentByIsFinite ==
    ASSUME NEW p PROVE IsFiniteSet(SentBy(p)) /\ Cardinality(SentBy(p)) \in Nat
<1>1. IsFiniteSet(Ids)
  BY ChatAssumption, FS_Interval DEF Ids
<1> QED BY <1>1, FS_Subset, FS_CardinalityType DEF SentBy

LEMMA SentCountIsNat == SentCount \in [Parties -> Nat]
BY SentByIsFinite DEF SentCount

-----------------------------------------------------------------------------
LEMMA CrossedIsBoolean ==
    ASSUME crossed \in BOOLEAN, NEW op, Accepts(op) PROVE crossed' \in BOOLEAN
<1> DEFINE busy == \E c \in Calls : call[c] # Idle
<1>1. busy \in BOOLEAN
  OBVIOUS
<1>2. crossed' = (crossed \/ busy)
  BY DEF Accepts
<1> HIDE DEF busy
<1> QED BY <1>1, <1>2

\* Nothing but well typed rows is written.
LEMMA TypeStep ==
    ASSUME TypeOK, [Next]_vars PROVE TypeOK'
<1> USE DEF TypeOK
<1>a. CASE DeleteTask \/ ArchiveTask \/ DeleteByEstate
  BY <1>a, CrossedIsBoolean DEF DeleteTask, ArchiveTask, DeleteByEstate, Task, Chat
<1>b. ASSUME NEW i \in Ids, RemoveMessage(i) PROVE TypeOK'
  BY <1>b, CrossedIsBoolean DEF RemoveMessage, Chat
<1>c. ASSUME NEW c \in Calls, StoreMessage(c) PROVE TypeOK'
  <2>1. Counted(c) \in Nat /\ Other(call[c].party) \in Parties
    BY <1>c, Fields DEF StoreMessage, Counted, IsFirst, Other, Parties
  <2>2. task' \in Task
    BY <1>c, <2>1, Fields DEF StoreMessage, Task
  <2>3. chats' \in [Ids -> Chat]
    BY <1>c, Fields DEF StoreMessage, Chat
  <2> QED BY <1>c, <2>2, <2>3 DEF StoreMessage, Ends
<1>d. ASSUME NEW c \in Calls, StoreLastRead(c) PROVE TypeOK'
  <2>1. task' \in Task
    BY <1>d, Fields DEF StoreLastRead, Task
  <2>2. chats' \in [Ids -> Chat]
    BY <1>d, Fields DEF StoreLastRead, Marked, Chat
  <2> QED BY <1>d, <2>1, <2>2 DEF StoreLastRead, Ends
<1>e. ASSUME NEW c \in Calls, StoreUpdate(c) PROVE TypeOK'
  BY <1>e, Fields DEF StoreUpdate, Ends, Task
<1>f. ASSUME NEW c \in Calls, StoreImages(c) PROVE TypeOK'
  BY <1>f, Fields DEF StoreImages, Ends
<1>g. ASSUME NEW c \in Calls, RollBack(c) PROVE TypeOK'
  BY <1>g, Fields DEF RollBack, Ends, Chat
<1>h. ASSUME NEW c \in Calls, NEW p \in Parties, NEW i \in Ids, SendMessage(c, p, i) PROVE TypeOK'
  <2>1. [op |-> "message", party |-> p, chat |-> i, role |-> task.role, count |-> task.count] \in Call
    BY DEF Call, MessageCall, Task
  <2> QED BY <1>h, <2>1, CrossedIsBoolean DEF SendMessage, Insert, Begin, Chat
<1>i. ASSUME NEW c \in Calls, NEW p \in Parties, NEW i \in Ids, MarkLastRead(c, p, i) PROVE TypeOK'
  <2>1. [op |-> "markLastRead", party |-> p, chat |-> i] \in Call
    BY DEF Call, ReadCall
  <2> QED BY <1>i, <2>1, CrossedIsBoolean DEF MarkLastRead, Insert, Begin, Chat
<1>j. ASSUME NEW c \in Calls, NEW status \in {"open", "closed"}, ReadForUpdate(c, status) PROVE TypeOK'
  <2>1. [op |-> "update", status |-> status] \in Call
    BY DEF Call, UpdateCall
  <2> QED BY <1>j, <2>1, CrossedIsBoolean DEF ReadForUpdate, Begin
<1>k. ASSUME NEW c \in Calls, ReadForImages(c) PROVE TypeOK'
  <2>1. [op |-> "images", row |-> task] \in Call
    BY DEF Call, ImagesCall
  <2> QED BY <1>k, <2>1, CrossedIsBoolean DEF ReadForImages, Begin
<1>l. CASE UNCHANGED vars
  BY <1>l DEF vars
<1> QED
  BY <1>a, <1>b, <1>c, <1>d, <1>e, <1>f, <1>g, <1>h, <1>i, <1>j, <1>k, <1>l DEF Next

\* A message that was sent stays one: removal keeps the row, and a handler
\* rewrites no row but its own.
LEMMA SentStays ==
    ASSUME TypeOK, OwnRow, [Next]_vars, NEW p PROVE SentBy(p) \subseteq SentBy(p)'
<1> USE DEF TypeOK
<1> SUFFICES ASSUME NEW j \in Ids, chats[j].sender = p, chats[j].kind \in {"message", "removed"}
             PROVE  chats'[j].sender = p /\ chats'[j].kind \in {"message", "removed"}
  BY DEF SentBy
<1>t. chats' \in [Ids -> Chat]
  BY TypeStep
<1>a. CASE DeleteTask \/ ArchiveTask \/ DeleteByEstate
  BY <1>a DEF DeleteTask, ArchiveTask, DeleteByEstate, Chat
<1>b. ASSUME NEW i \in Ids, RemoveMessage(i)
      PROVE  chats'[j].sender = p /\ chats'[j].kind \in {"message", "removed"}
  BY <1>b DEF RemoveMessage, Chat
<1>c. ASSUME NEW c \in Calls, StoreMessage(c) \/ StoreLastRead(c) \/ RollBack(c)
      PROVE  chats'[j].sender = p /\ chats'[j].kind \in {"message", "removed"}
  <2>1. Inserting(c)
    BY <1>c DEF StoreMessage, StoreLastRead, RollBack, Inserting
  <2>2. call[c].chat \in Ids /\ chats[call[c].chat].kind = "pending"
    <3>1. chats[call[c].chat] = [sender |-> call[c].party, kind |-> "pending"]
      BY <2>1 DEF OwnRow
    <3>2. call[c].chat \in Ids
      BY <2>1, Fields DEF Inserting
    <3> QED BY <3>1, <3>2
  <2>3. chats'[j] = chats[j]
    BY <1>c, <2>2 DEF StoreMessage, StoreLastRead, RollBack, Marked, Chat
  <2> QED BY <2>3
<1>d. ASSUME NEW c \in Calls, NEW new, Insert(c, new)
      PROVE  chats'[j].sender = p /\ chats'[j].kind \in {"message", "removed"}
  <2>1. chats[j].kind # "none" => j # new.chat
    BY <1>d DEF Insert, IsNext, Ids
  <2> QED BY <1>d, <2>1 DEF Insert
<1>e. CASE UNCHANGED chats
  BY <1>e
<1> QED
  BY <1>a, <1>b, <1>c, <1>d, <1>e
     DEF Next, vars, SendMessage, MarkLastRead, StoreUpdate, StoreImages, ReadForUpdate, ReadForImages

-----------------------------------------------------------------------------
\* Every handler in flight keeps a row of chats of its own: a new one is taken
\* from those that were never used, and the others write committed rows only.
LEMMA OwnRowStays ==
    ASSUME TypeOK, OwnRow, [Next]_vars PROVE OwnRow'
<1> USE DEF TypeOK
<1> DEFINE Pending(d) == chats[call[d].chat] = [sender |-> call[d].party, kind |-> "pending"]
<1>p. \A d \in Calls : Inserting(d) => Pending(d) /\ call[d].chat \in Ids
  BY Fields DEF OwnRow, Inserting
<1>q. \A c, d \in Calls : Inserting(c) /\ Inserting(d) /\ c # d => call[c].chat # call[d].chat
  BY DEF OwnRow
<1>r. ASSUME NEW d \in Calls, Inserting(d)
      PROVE  chats[call[d].chat].kind = "pending" /\ call[d].chat \in Ids
  <2>1. Pending(d) /\ call[d].chat \in Ids
    BY <1>p, <1>r, Zenon
  <2> QED BY <2>1
<1>a. ASSUME NEW c \in Calls, NEW new,
             new.op \in {"message", "markLastRead"} => new.chat \in Ids,
             Begin(c, new),
             \/ new.op \in {"message", "markLastRead"} /\ Insert(c, new)
             \/ new.op \notin {"message", "markLastRead"} /\ UNCHANGED chats
      PROVE  OwnRow'
  <2>1. \A d \in Calls : d # c => call'[d] = call[d]
    BY <1>a DEF Begin
  <2>2. call'[c] = new
    BY <1>a DEF Begin
  <2>3. CASE new.op \in {"message", "markLastRead"}
    <3>1. chats[new.chat].kind = "none" /\ new.chat \in Ids
      BY <2>3, <1>a DEF Insert, IsNext, Ids
    <3>2. \A d \in Calls : Inserting(d) => call[d].chat # new.chat
      BY <1>r, <3>1
    <3>3. /\ chats'[new.chat] = [sender |-> new.party, kind |-> "pending"]
          /\ \A i \in Ids : i # new.chat => chats'[i] = chats[i]
      BY <2>3, <1>a, <3>1 DEF Insert
    <3>4. ASSUME NEW d \in Calls, Inserting(d)' PROVE Pending(d)'
      BY <3>4, <1>p, <2>1, <2>2, <3>2, <3>3 DEF Inserting, Serving
    <3>5. ASSUME NEW d \in Calls, NEW e \in Calls, Inserting(d)', Inserting(e)', d # e
          PROVE  (call[d].chat # call[e].chat)'
      BY <3>5, <1>q, <2>1, <2>2, <3>2 DEF Inserting, Serving
    <3> QED BY <3>4, <3>5 DEF OwnRow
  <2>4. CASE new.op \notin {"message", "markLastRead"}
    <3>1. ~Inserting(c)' /\ chats' = chats
      BY <2>4, <2>2, <1>a DEF Inserting, Serving
    <3> QED BY <3>1, <2>1, <1>p, <1>q DEF OwnRow, Inserting, Serving
  <2> QED BY <2>3, <2>4
<1>b. ASSUME NEW c \in Calls, Ends(c),
             \A i \in Ids : (Inserting(c) => i # call[c].chat)
                               => chats'[i] = chats[i] \/ chats[i].kind \in {"message", "marker"}
      PROVE  OwnRow'
  <2>1. \A d \in Calls : d # c => call'[d] = call[d]
    BY <1>b DEF Ends
  <2>2. ~Inserting(c)'
    BY <1>b DEF Ends, Inserting, Serving
  <2>3. \A d \in Calls : Inserting(d) /\ d # c => chats'[call[d].chat] = chats[call[d].chat]
    BY <1>b, <1>r, <1>q
  <2> QED BY <2>1, <2>2, <2>3, <1>p, <1>q DEF OwnRow, Inserting, Serving
<1>c. ASSUME UNCHANGED call, \A i \in Ids : chats'[i] = chats[i] \/ chats[i].kind \in {"message", "marker"}
      PROVE  OwnRow'
  <2>1. \A d \in Calls : Inserting(d) => chats'[call[d].chat] = chats[call[d].chat]
    BY <1>c, <1>r
  <2> QED BY <2>1, <1>c, <1>p, <1>q DEF OwnRow, Inserting, Serving
<1>d. CASE DeleteTask \/ ArchiveTask \/ DeleteByEstate
  BY <1>d, <1>c DEF DeleteTask, ArchiveTask, DeleteByEstate
<1>e. ASSUME NEW i \in Ids, RemoveMessage(i) PROVE OwnRow'
  BY <1>e, <1>c DEF RemoveMessage
<1>f. ASSUME NEW c \in Calls, StoreMessage(c) \/ StoreLastRead(c) \/ RollBack(c) PROVE OwnRow'
  <2>1. Inserting(c) /\ Ends(c)
    BY <1>f DEF StoreMessage, StoreLastRead, RollBack, Inserting
  <2>2. ASSUME NEW i \in Ids, i # call[c].chat
        PROVE  chats'[i] = chats[i] \/ chats[i].kind \in {"message", "marker"}
    BY <1>f, <2>2 DEF StoreMessage, StoreLastRead, RollBack, Marked
  <2> QED BY <1>b, <2>1, <2>2
<1>g. ASSUME NEW c \in Calls, StoreUpdate(c) \/ StoreImages(c) PROVE OwnRow'
  BY <1>g, <1>b DEF StoreUpdate, StoreImages
<1>h. ASSUME NEW c \in Calls, NEW p \in Parties, NEW i \in Ids, SendMessage(c, p, i) PROVE OwnRow'
  BY <1>h, <1>a DEF SendMessage, Insert
<1>i. ASSUME NEW c \in Calls, NEW p \in Parties, NEW i \in Ids, MarkLastRead(c, p, i) PROVE OwnRow'
  BY <1>i, <1>a DEF MarkLastRead, Insert
<1>j. ASSUME NEW c \in Calls, NEW status, ReadForUpdate(c, status) PROVE OwnRow'
  BY <1>j, <1>a DEF ReadForUpdate
<1>k. ASSUME NEW c \in Calls, ReadForImages(c) PROVE OwnRow'
  BY <1>k, <1>a DEF ReadForImages
<1>l. CASE UNCHANGED vars
  BY <1>l, <1>c DEF vars
<1> QED
  BY <1>d, <1>e, <1>f, <1>g, <1>h, <1>i, <1>j, <1>k, <1>l DEF Next

-----------------------------------------------------------------------------
LEMMA NextSentByIsFinite ==
    ASSUME NEW p PROVE IsFiniteSet(SentBy(p)') /\ Cardinality(SentBy(p)') \in Nat
<1>1. IsFiniteSet(Ids)
  BY ChatAssumption, FS_Interval DEF Ids
<1>2. SentBy(p)' \subseteq Ids
  BY DEF SentBy
<1> QED BY <1>1, <1>2, FS_Subset, FS_CardinalityType

LEMMA SentCountGrows ==
    ASSUME TypeOK, OwnRow, [Next]_vars
    PROVE  /\ SentCount' \in [Parties -> Nat]
           /\ \A p \in Parties : SentCount[p] <= SentCount'[p]
<1>1. SentCount' \in [Parties -> Nat]
  BY NextSentByIsFinite DEF SentCount
<1>2. ASSUME NEW p \in Parties PROVE SentCount[p] <= SentCount'[p]
  <2>1. SentBy(p) \subseteq SentBy(p)'
    BY SentStays
  <2>2. Cardinality(SentBy(p)) <= Cardinality(SentBy(p)')
    BY <2>1, NextSentByIsFinite, FS_Subset
  <2> QED BY <2>2 DEF SentCount
<1> QED BY <1>1, <1>2

\* The message that is stored is one more than was sent when the row was read.
LEMMA StoredIsSent ==
    ASSUME IInv, NEW c \in Calls, StoreMessage(c)
    PROVE  IsSent(task.role, task.count)'
<1>1. PICK p \in Parties, i \in Ids : p = call[c].party /\ i = call[c].chat
  BY Fields DEF IInv, StoreMessage
<1>2. call[c].role \in Parties \cup {None} /\ call[c].count \in Nat
  BY Fields DEF IInv, StoreMessage
<1>3. chats[i] = [sender |-> p, kind |-> "pending"]
  BY <1>1 DEF IInv, OwnRow, StoreMessage, Inserting
<1>4. task'.role = Other(p) /\ task'.count = Counted(c)
  BY <1>1 DEF StoreMessage, IInv, TypeOK, Task
<1>5. Other(p) \in Parties /\ Other(Other(p)) = p
  BY DEF Other, Parties
<1>6. SentBy(p)' = SentBy(p) \cup {i} /\ i \notin SentBy(p)
  <2>1. /\ chats'[i].sender = p /\ chats'[i].kind = "message"
        /\ \A j \in Ids : j # i => chats'[j] = chats[j]
    BY <1>1, <1>3 DEF StoreMessage, IInv, TypeOK, Chat
  <2> QED BY <2>1, <1>3 DEF SentBy
<1>7. SentCount'[p] = SentCount[p] + 1 /\ SentCount[p] \in Nat
  BY <1>6, SentByIsFinite, FS_AddElement DEF SentCount
<1>8. Counted(c) <= SentCount[p] + 1
  <2>1. CASE IsFirst(c)
    BY <2>1, <1>7 DEF Counted
  <2>2. CASE ~IsFirst(c)
    <3>1. call[c].role = Other(p) /\ call[c].role # None
      BY <2>2, <1>1, <1>2, ChatAssumption DEF IsFirst, Other, Parties
    <3>2. call[c].count <= SentCount[p]
      BY <3>1, <1>5 DEF IInv, SeenIsSent, IsSent, StoreMessage
    <3> QED BY <3>2, <2>2, <1>2, <1>7 DEF Counted
  <2> QED BY <2>1, <2>2
<1>9. task'.count <= SentCount'[Other(task'.role)]
  BY <1>4, <1>5, <1>7, <1>8
<1> QED BY <1>9 DEF IsSent

\* What a row announced, in the table or in the hands of a handler, stays
\* accounted for, and nothing else is written than a stored message and a zero.
LEMMA CountStep ==
    ASSUME IInv, [Next]_vars
    PROVE  SeenIsSent' /\ IsSent(task.role, task.count)'
<1>0. TypeOK /\ TypeOK'
  BY TypeStep DEF IInv
<1>1. SentCount \in [Parties -> Nat] /\ SentCount' \in [Parties -> Nat]
  BY SentCountIsNat, SentCountGrows DEF IInv
<1>2. \A p \in Parties : SentCount[p] <= SentCount'[p]
  BY SentCountGrows DEF IInv
<1> DEFINE StillSent(role, count) == role # None => count <= SentCount'[Other(role)]
<1>3. ASSUME NEW role \in Parties \cup {None}, NEW count \in Nat, IsSent(role, count)
      PROVE  StillSent(role, count)
  <2>1. role # None => Other(role) \in Parties
    BY DEF Other, Parties
  <2> QED BY <2>1, <1>1, <1>2, <1>3 DEF IsSent
<1>4. task.role \in Parties \cup {None} /\ task.count \in Nat /\ StillSent(task.role, task.count)
  <2>1. task.role \in Parties \cup {None} /\ task.count \in Nat
    BY <1>0 DEF TypeOK, Task
  <2> QED BY <2>1, <1>3 DEF IInv
<1>5. ASSUME NEW d \in Calls, call'[d] = call[d]
      PROVE  /\ Serving(d, "message")' => StillSent(call'[d].role, call'[d].count)
             /\ Serving(d, "images")' => StillSent(call'[d].row.role, call'[d].row.count)
  <2>1. CASE Serving(d, "message")
    BY <2>1, <1>5, <1>0, <1>3, Fields DEF IInv, SeenIsSent, Serving
  <2>2. CASE Serving(d, "images")
    BY <2>2, <1>5, <1>0, <1>3, Fields DEF IInv, SeenIsSent, Serving
  <2> QED BY <2>1, <2>2, <1>5 DEF Serving
<1>6. SeenIsSent'
  <2>1. ASSUME NEW d \in Calls, call'[d] # call[d], call'[d] # Idle
        PROVE  /\ Serving(d, "message")' => StillSent(call'[d].role, call'[d].count)
               /\ Serving(d, "images")' => StillSent(call'[d].row.role, call'[d].row.count)
    <3>1. ASSUME NEW c \in Calls, Ends(c) PROVE FALSE
      BY <3>1, <2>1, <1>0 DEF Ends, TypeOK
    <3>2. ASSUME NEW c \in Calls, NEW new, Begin(c, new) PROVE call'[d] = new
      BY <3>2, <2>1, <1>0 DEF Begin, TypeOK
    <3>3. ASSUME NEW c \in Calls, NEW p \in Parties, NEW i \in Ids, SendMessage(c, p, i)
          PROVE  call'[d].op = "message" /\ call'[d].role = task.role /\ call'[d].count = task.count
      BY <3>3, <3>2 DEF SendMessage, Insert
    <3>4. ASSUME NEW c \in Calls, NEW p \in Parties, NEW i \in Ids, MarkLastRead(c, p, i)
          PROVE  call'[d].op = "markLastRead"
      BY <3>4, <3>2 DEF MarkLastRead, Insert
    <3>5. ASSUME NEW c \in Calls, NEW status, ReadForUpdate(c, status) PROVE call'[d].op = "update"
      BY <3>5, <3>2 DEF ReadForUpdate
    <3>6. ASSUME NEW c \in Calls, ReadForImages(c) PROVE call'[d].op = "images" /\ call'[d].row = task
      BY <3>6, <3>2 DEF ReadForImages
    <3>7. ~UNCHANGED call
      BY <2>1
    <3>8. CASE \E c \in Calls : ReadForImages(c)
      BY <3>8, <3>6, <1>4 DEF Serving
    <3>9. CASE \E c \in Calls, p \in Parties, i \in Ids : SendMessage(c, p, i)
      BY <3>9, <3>3, <1>4 DEF Serving
    <3> QED
      BY <3>1, <3>4, <3>5, <3>7, <3>8, <3>9
         DEF Next, vars, Serving, DeleteTask, ArchiveTask, DeleteByEstate, RemoveMessage,
             StoreMessage, StoreLastRead, StoreUpdate, StoreImages, RollBack
  <2> QED BY <2>1, <1>5 DEF SeenIsSent, IsSent, Serving
<1>7. IsSent(task.role, task.count)'
  <2>1. ASSUME NEW c \in Calls, StoreMessage(c) PROVE IsSent(task.role, task.count)'
    BY <2>1, StoredIsSent
  <2>2. ASSUME NEW c \in Calls, StoreLastRead(c) PROVE IsSent(task.role, task.count)'
    <3>1. CASE task' = task
      BY <3>1, <1>4 DEF IsSent
    <3>2. CASE task'.count = 0
      <4>1. task'.role # None => Other(task'.role) \in Parties
        BY <1>0 DEF TypeOK, Task, Other, Parties
      <4> QED BY <3>2, <4>1, <1>1 DEF IsSent
    <3> QED BY <3>1, <3>2, <2>2, <1>0 DEF StoreLastRead, TypeOK, Task
  <2>3. ASSUME NEW c \in Calls, StoreImages(c) PROVE IsSent(task.role, task.count)'
    <3>1. /\ call[c].row.role \in Parties \cup {None} /\ call[c].row.count \in Nat
          /\ IsSent(call[c].row.role, call[c].row.count)
      BY <2>3, <1>0, Fields DEF StoreImages, IInv, SeenIsSent
    <3> QED BY <2>3, <3>1, <1>3 DEF StoreImages, IsSent
  <2>4. CASE task'.role = task.role /\ task'.count = task.count
    BY <2>4, <1>4 DEF IsSent
  <2>5. CASE UNCHANGED task
    BY <2>5, <1>4 DEF IsSent
  <2>6. ASSUME NEW status, task' = [task EXCEPT !.status = status] PROVE IsSent(task.role, task.count)'
    BY <2>6, <2>4, <1>0 DEF TypeOK, Task
  <2> QED
    BY <2>1, <2>2, <2>3, <2>5, <2>6
       DEF Next, vars, DeleteTask, ArchiveTask, DeleteByEstate, RemoveMessage, StoreUpdate, RollBack,
           SendMessage, MarkLastRead, Insert, ReadForUpdate, ReadForImages
<1> QED BY <1>6, <1>7

LEMMA IInvHolds == Spec => []IInv
<1>1. ASSUME Init PROVE IInv
  <2>1. TypeOK
    <3>1. task \in Task
      BY <1>1 DEF Init, NewTasks, Task
    <3>2. chats \in [Ids -> Chat]
      BY <1>1 DEF Init, Chat
    <3>3. call \in [Calls -> Call \cup {Idle}] /\ crossed \in BOOLEAN
      BY <1>1 DEF Init
    <3> QED BY <3>1, <3>2, <3>3 DEF TypeOK
  <2>2. task.role = None
    BY <1>1 DEF Init, NewTasks
  <2> QED BY <1>1, <2>1, <2>2 DEF Init, IInv, OwnRow, SeenIsSent, IsSent, Inserting, Serving
<1>2. ASSUME IInv, [Next]_vars PROVE IInv'
  <2>1. TypeOK' /\ OwnRow'
    BY <1>2, TypeStep, OwnRowStays DEF IInv
  <2> QED BY <1>2, <2>1, CountStep DEF IInv
<1> QED BY <1>1, <1>2, PTL DEF Spec

\* Whatever messages, readers, edits and uploads are in flight together, the row
\* of a task announces no more unread messages than the other has sent.
THEOREM CountIsSent == Spec => []AnnouncedIsSent
<1>1. ASSUME IInv PROVE AnnouncedIsSent
  <2> SUFFICES ASSUME NEW p \in Parties PROVE Announced(p) <= Cardinality(SentBy(Other(p)))
    BY DEF AnnouncedIsSent
  <2>1. CASE task.role = p
    <3>1. Other(p) \in Parties
      BY DEF Other, Parties
    <3> QED BY <1>1, <2>1, <3>1, ChatAssumption DEF IInv, IsSent, Announced, SentCount
  <2>2. CASE task.role # p
    BY <2>2, SentByIsFinite DEF Announced
  <2> QED BY <2>1, <2>2
<1> QED BY <1>1, IInvHolds, PTL

-----------------------------------------------------------------------------
(* While no two handlers are in flight together, what a handler has read is *)
(* still the task, and its row of chats is the last one.                    *)

NoneRemoved == \A i \in Ids : chats[i].kind # "removed"

UnreadCount == [p \in Parties |-> Cardinality(UnreadMessages(p))]

Serial ==
    ~crossed =>
        /\ \A c, d \in Calls : call[c] # Idle /\ call[d] # Idle => c = d
        /\ \A c \in Calls :
              /\ Serving(c, "message") => call[c].role = task.role /\ call[c].count = task.count
              /\ Serving(c, "images") => call[c].row = task
              /\ Inserting(c) => \A j \in Ids : j > call[c].chat => chats[j].kind = "none"

\* What the row of the task says is unread, is unread.
Aligned == ~crossed /\ NoneRemoved => \A p \in Parties : Announced(p) = UnreadCount[p]

SerialInv == IInv /\ Serial /\ Aligned

\* The type of the row of a task, and of the handlers in flight.
THEOREM ChatTypes == Spec => []TypeOK
<1>1. IInv => TypeOK
  BY DEF IInv
<1> QED BY <1>1, IInvHolds, PTL

LEMMA Unread ==
    ASSUME NEW p
    PROVE  UnreadMessages(p) =
             {i \in Ids : /\ chats[i].kind = "message"
                          /\ \A j \in Ids : j >= i =>
                                ~(chats[j].sender = p /\ chats[j].kind \in {"message", "marker"})}
BY ChatAssumption DEF UnreadMessages, Ids

LEMMA NextUnread ==
    ASSUME NEW p
    PROVE  UnreadMessages(p)' =
             {i \in Ids : /\ chats'[i].kind = "message"
                          /\ \A j \in Ids : j >= i =>
                                ~(chats'[j].sender = p /\ chats'[j].kind \in {"message", "marker"})}
BY ChatAssumption DEF UnreadMessages, Ids

LEMMA UnreadIsFinite ==
    ASSUME NEW p
    PROVE  /\ IsFiniteSet(UnreadMessages(p)) /\ Cardinality(UnreadMessages(p)) \in Nat
<1>1. IsFiniteSet(Ids)
  BY ChatAssumption, FS_Interval DEF Ids
<1> QED BY <1>1, FS_Subset, FS_CardinalityType DEF UnreadMessages

\* Rows that are neither messages nor markers do not count.
LEMMA SameUnread ==
    ASSUME NEW p,
           \A j \in Ids : \/ chats'[j] = chats[j]
                          \/ /\ chats[j].kind \notin {"message", "marker"}
                             /\ chats'[j].kind \notin {"message", "marker"}
    PROVE  UnreadMessages(p)' = UnreadMessages(p)
BY Unread, NextUnread

\* A message that nothing was inserted after is unread by the other, and its sender
\* has read everything.
LEMMA StoredUnread ==
    ASSUME TypeOK, OwnRow, NEW c \in Calls, StoreMessage(c), NEW p \in Parties, NEW i \in Ids,
           p = call[c].party, i = call[c].chat,
           \A j \in Ids : j > i => chats[j].kind = "none"
    PROVE  /\ UnreadMessages(p)' = {}
           /\ UnreadMessages(Other(p))' = UnreadMessages(Other(p)) \cup {i}
           /\ i \notin UnreadMessages(Other(p))
<1>1. chats[i] = [sender |-> p, kind |-> "pending"]
  BY DEF OwnRow, Inserting, StoreMessage
<1>2. /\ chats'[i].sender = p /\ chats'[i].kind = "message"
      /\ \A j \in Ids : j # i => chats'[j] = chats[j]
  BY <1>1 DEF StoreMessage, TypeOK, Chat
<1>3. Other(p) # p
  BY DEF Other, Parties
<1>4. Ids \subseteq Nat
  BY DEF Ids
<1>5. UnreadMessages(p)' = {}
  <2>1. \A k \in Ids : chats'[k].kind = "message" => i >= k
    BY <1>2, <1>4
  <2> QED BY <2>1, <1>2, NextUnread
<1>6. UnreadMessages(Other(p))' = UnreadMessages(Other(p)) \cup {i}
  <2> DEFINE Reads(j) == chats[j].sender = Other(p) /\ chats[j].kind \in {"message", "marker"}
             ReadsNext(j) == chats'[j].sender = Other(p) /\ chats'[j].kind \in {"message", "marker"}
  <2>1. \A j \in Ids : ReadsNext(j) <=> Reads(j)
    BY <1>1, <1>2, <1>3
  <2>2. \A j \in Ids : j >= i => ~ReadsNext(j)
    BY <1>2, <1>3, <1>4
  <2>3. \A k \in Ids : k # i => (chats'[k].kind = "message" <=> chats[k].kind = "message")
    BY <1>2
  <2>4. chats'[i].kind = "message" /\ chats[i].kind # "message"
    BY <1>1, <1>2
  <2>5. UnreadMessages(Other(p)) =
           {k \in Ids : chats[k].kind = "message" /\ \A j \in Ids : j >= k => ~Reads(j)}
    BY Unread
  <2>6. UnreadMessages(Other(p))' =
           {k \in Ids : chats'[k].kind = "message" /\ \A j \in Ids : j >= k => ~ReadsNext(j)}
    BY NextUnread
  <2> HIDE DEF Reads, ReadsNext
  <2> QED BY <2>1, <2>2, <2>3, <2>4, <2>5, <2>6
<1>7. i \notin UnreadMessages(Other(p))
  BY <1>1, Unread
<1> QED BY <1>5, <1>6, <1>7

\* The marker that nothing was inserted after leaves its reader nothing, and the other
\* what he has not read.
LEMMA MarkedUnread ==
    ASSUME TypeOK, OwnRow, NEW c \in Calls, StoreLastRead(c), NEW p \in Parties, NEW i \in Ids,
           p = call[c].party, i = call[c].chat,
           \A j \in Ids : j > i => chats[j].kind = "none"
    PROVE  /\ UnreadMessages(p)' = {}
           /\ UnreadMessages(Other(p))' = UnreadMessages(Other(p))
<1>1. chats[i] = [sender |-> p, kind |-> "pending"]
  BY DEF OwnRow, Inserting, StoreLastRead
<1>2. /\ chats'[i].sender = p /\ chats'[i].kind = "marker"
      /\ \A j \in Ids : j # i =>
            \/ chats'[j] = chats[j]
            \/ /\ chats[j].sender = p /\ chats[j].kind = "marker"
               /\ chats'[j].sender = p /\ chats'[j].kind = "gone"
  BY DEF StoreLastRead, Marked, TypeOK, Chat
<1>3. Other(p) # p
  BY DEF Other, Parties
<1>4. Ids \subseteq Nat
  BY DEF Ids
<1>5. UnreadMessages(p)' = {}
  <2>1. \A k \in Ids : chats'[k].kind = "message" => i >= k
    BY <1>2, <1>4
  <2> QED BY <2>1, <1>2, NextUnread
<1>6. UnreadMessages(Other(p))' = UnreadMessages(Other(p))
  <2>1. \A k \in Ids : chats'[k].kind = "message" <=> chats[k].kind = "message"
    BY <1>1, <1>2
  <2>2. \A j \in Ids : (chats'[j].sender = Other(p) /\ chats'[j].kind \in {"message", "marker"})
                       <=> (chats[j].sender = Other(p) /\ chats[j].kind \in {"message", "marker"})
    BY <1>1, <1>2, <1>3
  <2> QED BY <2>1, <2>2, Unread, NextUnread
<1> QED BY <1>5, <1>6

\* A row that was removed stays removed.
LEMMA RemovedStays ==
    ASSUME TypeOK, OwnRow, [Next]_vars, NoneRemoved'
    PROVE  NoneRemoved
<1> SUFFICES ASSUME NEW j \in Ids, chats[j].kind = "removed"
             PROVE  chats'[j].kind = "removed"
  BY DEF NoneRemoved
<1>1. ASSUME NEW c \in Calls, Inserting(c)
      PROVE  j # call[c].chat
  <2>1. chats[call[c].chat] = [sender |-> call[c].party, kind |-> "pending"]
    BY <1>1 DEF OwnRow
  <2> QED BY <2>1
<1>2. ASSUME NEW c \in Calls, StoreMessage(c) \/ StoreLastRead(c) \/ RollBack(c)
      PROVE  chats'[j].kind = "removed"
  <2>1. j # call[c].chat
    BY <1>1, <1>2 DEF StoreMessage, StoreLastRead, RollBack, Inserting
  <2>2. chats'[j] = chats[j]
    BY <1>2, <2>1 DEF StoreMessage, StoreLastRead, RollBack, Marked, TypeOK
  <2> QED BY <2>2
<1>3. ASSUME NEW c \in Calls, NEW new, Insert(c, new)
      PROVE  chats'[j].kind = "removed"
  <2>1. j # new.chat
    BY <1>3 DEF Insert, IsNext, Ids
  <2> QED BY <1>3, <2>1 DEF Insert, TypeOK
<1>4. CASE DeleteByEstate
  BY <1>4 DEF DeleteByEstate
<1>5. ASSUME NEW i \in Ids, RemoveMessage(i)
      PROVE  chats'[j].kind = "removed"
  BY <1>5 DEF RemoveMessage, TypeOK, Chat
<1>6. CASE UNCHANGED chats
  BY <1>6
<1> QED
  BY <1>2, <1>3, <1>4, <1>5, <1>6
     DEF Next, vars, DeleteTask, ArchiveTask, SendMessage, MarkLastRead, StoreUpdate, StoreImages,
         ReadForUpdate, ReadForImages

\* As long as nothing crosses, a handler that begins is the only one.
LEMMA SerialStays ==
    ASSUME TypeOK, Serial, [Next]_vars
    PROVE  Serial'
<1> SUFFICES ASSUME ~crossed'
             PROVE  /\ \A c, d \in Calls : call'[c] # Idle /\ call'[d] # Idle => c = d
                    /\ \A c \in Calls :
                          /\ Serving(c, "message")' => /\ call'[c].role = task'.role
                                                       /\ call'[c].count = task'.count
                          /\ Serving(c, "images")' => call'[c].row = task'
                          /\ Inserting(c)' =>
                                \A j \in Ids : j > call'[c].chat => chats'[j].kind = "none"
  BY DEF Serial
<1>1. ASSUME NEW op, Accepts(op)
      PROVE  \A c \in Calls : call[c] = Idle
  BY <1>1 DEF Accepts
<1>2. CASE DeleteTask \/ ArchiveTask \/ DeleteByEstate \/ \E i \in Ids : RemoveMessage(i)
  <2>1. call' = call /\ \A c \in Calls : call[c] = Idle
    BY <1>1, <1>2 DEF DeleteTask, ArchiveTask, DeleteByEstate, RemoveMessage
  <2> QED BY <2>1 DEF Inserting, Serving
<1>3. ASSUME NEW c \in Calls, Ends(c), call[c] # Idle
      PROVE  \A d \in Calls : call'[d] = Idle
  <2>1. \A d \in Calls : call[d] # Idle => d = c
    BY <1>3 DEF Ends, Serial
  <2>2. \A d \in Calls : d # c => call'[d] = call[d]
    BY <1>3 DEF Ends
  <2>3. call'[c] = Idle
    BY <1>3 DEF Ends, TypeOK
  <2> QED BY <2>1, <2>2, <2>3
<1>4. CASE \E c \in Calls : \/ StoreMessage(c) \/ StoreLastRead(c) \/ StoreUpdate(c)
                            \/ StoreImages(c) \/ RollBack(c)
  <2>1. \A d \in Calls : call'[d] = Idle
    BY <1>3, <1>4 DEF StoreMessage, StoreLastRead, StoreUpdate, StoreImages, RollBack, Serving
  <2> QED BY <2>1 DEF Inserting, Serving
<1>5. ASSUME NEW c \in Calls, NEW new, Begin(c, new)
      PROVE  \A d \in Calls : call'[d] = IF d = c THEN new ELSE Idle
  BY <1>1, <1>5 DEF Begin, TypeOK
<1>6. ASSUME NEW c \in Calls, NEW p \in Parties, NEW i \in Ids,
             SendMessage(c, p, i) \/ MarkLastRead(c, p, i)
      PROVE  \A j \in Ids : j > i => chats'[j].kind = "none"
  <2>1. chats' = [chats EXCEPT ![i] = [sender |-> p, kind |-> "pending"]]
    BY <1>6 DEF SendMessage, MarkLastRead, Insert
  <2>2. \A j \in Ids : chats[j].kind = "none" <=> i <= j
    BY <1>6 DEF SendMessage, MarkLastRead, Insert, IsNext
  <2> QED BY <2>1, <2>2 DEF TypeOK, Ids
<1>7. ASSUME NEW c \in Calls, NEW p \in Parties, NEW i \in Ids, SendMessage(c, p, i)
      PROVE  /\ \A d \in Calls : d # c => call'[d] = Idle
             /\ call'[c].op = "message" /\ call'[c].chat = i
             /\ call'[c].role = task'.role /\ call'[c].count = task'.count
  BY <1>5, <1>7 DEF SendMessage, Insert
<1>8. ASSUME NEW c \in Calls, NEW p \in Parties, NEW i \in Ids, MarkLastRead(c, p, i)
      PROVE  /\ \A d \in Calls : d # c => call'[d] = Idle
             /\ call'[c].op = "markLastRead" /\ call'[c].chat = i
  BY <1>5, <1>8 DEF MarkLastRead, Insert
<1>9. ASSUME NEW c \in Calls, NEW status, ReadForUpdate(c, status)
      PROVE  (\A d \in Calls : d # c => call'[d] = Idle) /\ call'[c].op = "update"
  BY <1>5, <1>9 DEF ReadForUpdate
<1>10. ASSUME NEW c \in Calls, ReadForImages(c)
       PROVE  /\ \A d \in Calls : d # c => call'[d] = Idle
              /\ call'[c].op = "images" /\ call'[c].row = task'
  BY <1>5, <1>10 DEF ReadForImages
<1>11. CASE \E c \in Calls, p \in Parties, i \in Ids : SendMessage(c, p, i)
  BY <1>6, <1>7, <1>11 DEF Inserting, Serving
<1>12. CASE \E c \in Calls, p \in Parties, i \in Ids : MarkLastRead(c, p, i)
  BY <1>6, <1>8, <1>12 DEF Inserting, Serving
<1>13. CASE \E c \in Calls : ReadForImages(c) \/ \E status \in {"open", "closed"} : ReadForUpdate(c, status)
  BY <1>9, <1>10, <1>13 DEF Inserting, Serving
<1>14. CASE UNCHANGED vars
  BY <1>14 DEF vars, Serial, Inserting, Serving
<1> QED
  BY <1>2, <1>4, <1>11, <1>12, <1>13, <1>14 DEF Next

\* The task and the chats move together.
LEMMA AlignedStays ==
    ASSUME SerialInv, [Next]_vars
    PROVE  Aligned'
<1>0. TypeOK /\ TypeOK' /\ OwnRow
  BY TypeStep DEF SerialInv, IInv
<1> SUFFICES ASSUME ~crossed', NoneRemoved', NEW p \in Parties
             PROVE  Announced(p)' = Cardinality(UnreadMessages(p)')
  BY DEF Aligned, UnreadCount
<1>1. ~crossed /\ NoneRemoved
  <2>1. crossed => crossed'
    BY <1>0 DEF TypeOK, Next, vars, DeleteTask, ArchiveTask, DeleteByEstate, RemoveMessage, Accepts,
           StoreMessage, StoreLastRead, StoreUpdate, StoreImages, RollBack, Ends, SendMessage,
           MarkLastRead, Insert, Begin, ReadForUpdate, ReadForImages
  <2> QED BY <1>0, <2>1, RemovedStays
<1>2. \A q \in Parties : Announced(q) = Cardinality(UnreadMessages(q))
  BY <1>1 DEF SerialInv, Aligned, UnreadCount
<1>3. ASSUME task'.role = task.role, task'.count = task.count,
             \A j \in Ids : \/ chats'[j] = chats[j]
                            \/ /\ chats[j].kind \notin {"message", "marker"}
                               /\ chats'[j].kind \notin {"message", "marker"}
      PROVE  Announced(p)' = Cardinality(UnreadMessages(p)')
  <2>1. UnreadMessages(p)' = UnreadMessages(p)
    BY <1>3, SameUnread
  <2>2. Announced(p)' = Announced(p)
    BY <1>3 DEF Announced
  <2> QED BY <1>2, <2>1, <2>2
<1>4. ASSUME NEW c \in Calls, StoreMessage(c)
      PROVE  Announced(p)' = Cardinality(UnreadMessages(p)')
  <2>1. PICK q \in Parties, i \in Ids : q = call[c].party /\ i = call[c].chat
    BY <1>0, <1>4, Fields DEF StoreMessage
  <2>2. /\ \A j \in Ids : j > i => chats[j].kind = "none"
        /\ call[c].role = task.role /\ call[c].count = task.count
    BY <1>1, <1>4, <2>1 DEF SerialInv, Serial, StoreMessage, Inserting
  <2>3. /\ UnreadMessages(q)' = {}
        /\ UnreadMessages(Other(q))' = UnreadMessages(Other(q)) \cup {i}
        /\ i \notin UnreadMessages(Other(q))
    BY <1>0, <1>4, <2>1, <2>2, StoredUnread
  <2>4. task'.role = Other(q) /\ task'.count = Counted(c)
    BY <1>0, <1>4, <2>1 DEF StoreMessage, TypeOK, Task
  <2>5. Other(q) \in Parties /\ Other(q) # q /\ (p = q \/ p = Other(q))
    BY DEF Other, Parties
  <2>6. CASE p = q
    <3>1. Announced(p)' = 0
      BY <2>4, <2>5, <2>6 DEF Announced
    <3> QED BY <2>3, <2>6, <3>1, FS_EmptySet
  <2>7. CASE p = Other(q)
    <3>1. Announced(p)' = Counted(c)
      BY <2>4, <2>7 DEF Announced
    <3>2. Cardinality(UnreadMessages(p)') = Cardinality(UnreadMessages(p)) + 1
      BY <2>3, <2>7, UnreadIsFinite, FS_AddElement
    <3>3. Cardinality(UnreadMessages(p)) = IF task.role = p THEN task.count ELSE 0
      BY <1>2 DEF Announced
    <3>4. task.role \in Parties \cup {None} /\ task.count \in Nat
      BY <1>0 DEF TypeOK, Task
    <3>5. CASE IsFirst(c)
      <4>1. task.role # p
        BY <2>1, <2>2, <2>5, <2>7, <3>5, ChatAssumption DEF IsFirst
      <4> QED BY <3>1, <3>2, <3>3, <3>5, <4>1 DEF Counted
    <3>6. CASE ~IsFirst(c)
      <4>1. task.role = p
        BY <2>1, <2>2, <2>7, <3>4, <3>6 DEF IsFirst, Other, Parties
      <4> QED BY <2>2, <3>1, <3>2, <3>3, <3>6, <4>1 DEF Counted
    <3> QED BY <3>5, <3>6
  <2> QED BY <2>5, <2>6, <2>7
<1>5. ASSUME NEW c \in Calls, StoreLastRead(c)
      PROVE  Announced(p)' = Cardinality(UnreadMessages(p)')
  <2>1. PICK q \in Parties, i \in Ids : q = call[c].party /\ i = call[c].chat
    BY <1>0, <1>5, Fields DEF StoreLastRead
  <2>2. \A j \in Ids : j > i => chats[j].kind = "none"
    BY <1>1, <1>5, <2>1 DEF SerialInv, Serial, StoreLastRead, Inserting
  <2>3. UnreadMessages(q)' = {} /\ UnreadMessages(Other(q))' = UnreadMessages(Other(q))
    BY <1>0, <1>5, <2>1, <2>2, MarkedUnread
  <2>4. /\ task'.role = task.role
        /\ task'.count = IF task.role = q THEN 0 ELSE task.count
    BY <1>0, <1>5, <2>1 DEF StoreLastRead, TypeOK, Task
  <2>5. Other(q) \in Parties /\ Other(q) # q /\ (p = q \/ p = Other(q))
    BY DEF Other, Parties
  <2>6. CASE p = q
    <3>1. Announced(p)' = 0
      BY <2>4, <2>6 DEF Announced
    <3> QED BY <2>3, <2>6, <3>1, FS_EmptySet
  <2>7. CASE p = Other(q)
    <3>1. Announced(p)' = Announced(p)
      BY <2>4, <2>5, <2>7 DEF Announced
    <3> QED BY <1>2, <2>3, <2>7, <3>1
  <2> QED BY <2>5, <2>6, <2>7
<1>6. ASSUME NEW c \in Calls, StoreImages(c)
      PROVE  task' = task
  BY <1>1, <1>6 DEF StoreImages, SerialInv, Serial
<1>7. ASSUME NEW c \in Calls, RollBack(c)
      PROVE  \A j \in Ids : \/ chats'[j] = chats[j]
                            \/ /\ chats[j].kind \notin {"message", "marker"}
                               /\ chats'[j].kind \notin {"message", "marker"}
  <2>1. Inserting(c)
    BY <1>7 DEF RollBack, Inserting
  <2>2. chats[call[c].chat] = [sender |-> call[c].party, kind |-> "pending"]
    BY <1>0, <2>1 DEF OwnRow
  <2>3. chats[call[c].chat].kind = "pending"
    BY <2>2
  <2> QED BY <1>0, <1>7, <2>3 DEF RollBack, TypeOK, Chat
<1>8. ASSUME NEW c \in Calls, NEW new, Insert(c, new), new.chat \in Ids
      PROVE  \A j \in Ids : \/ chats'[j] = chats[j]
                            \/ /\ chats[j].kind \notin {"message", "marker"}
                               /\ chats'[j].kind \notin {"message", "marker"}
  <2>1. chats[new.chat].kind = "none"
    BY <1>8 DEF Insert, IsNext, Ids
  <2> QED BY <1>0, <1>8, <2>1 DEF Insert, TypeOK
<1>9. CASE DeleteByEstate
  <2>1. ASSUME NEW j \in Ids
        PROVE  chats[j].kind # "message"
    <3>1. chats'[j].kind # "removed"
      BY DEF NoneRemoved
    <3> QED BY <1>0, <1>9, <3>1 DEF DeleteByEstate, TypeOK, Chat
  <2>2. \A j \in Ids : chats'[j] = chats[j]
    BY <1>9, <2>1 DEF DeleteByEstate
  <2>3. task'.role = task.role /\ task'.count = task.count
    BY <1>0, <1>9 DEF DeleteByEstate, TypeOK, Task
  <2> QED BY <1>3, <2>2, <2>3
<1>10. ASSUME NEW i \in Ids, RemoveMessage(i)
       PROVE  FALSE
  <2>1. chats'[i].kind = "removed"
    BY <1>0, <1>10 DEF RemoveMessage, TypeOK, Chat
  <2> QED BY <2>1 DEF NoneRemoved
<1>11. CASE DeleteTask \/ ArchiveTask
  <2>1. task'.role = task.role /\ task'.count = task.count
    BY <1>0, <1>11 DEF DeleteTask, ArchiveTask, TypeOK, Task
  <2> QED BY <1>3, <1>11, <2>1 DEF DeleteTask, ArchiveTask
<1>12. ASSUME NEW c \in Calls, StoreUpdate(c)
       PROVE  task'.role = task.role /\ task'.count = task.count
  BY <1>0, <1>12 DEF StoreUpdate, TypeOK, Task
<1>13. CASE \E c \in Calls : StoreUpdate(c) \/ StoreImages(c) \/ RollBack(c)
  BY <1>3, <1>6, <1>7, <1>12, <1>13 DEF StoreUpdate, StoreImages, RollBack
<1>14. CASE \E c \in Calls, q \in Parties, i \in Ids : SendMessage(c, q, i) \/ MarkLastRead(c, q, i)
  <2>1. task' = task
    BY <1>14 DEF SendMessage, MarkLastRead, Insert
  <2> QED BY <1>3, <1>8, <1>14, <2>1 DEF SendMessage, MarkLastRead
<1>15. CASE UNCHANGED vars \/ \E c \in Calls : \/ ReadForImages(c)
                                               \/ \E status \in {"open", "closed"} : ReadForUpdate(c, status)
  BY <1>3, <1>15 DEF vars, ReadForImages, ReadForUpdate
<1> QED
  BY <1>4, <1>5, <1>9, <1>10, <1>11, <1>13, <1>14, <1>15 DEF Next

\* With the handlers one after the other and no message removed, the row of the task
\* tells each of the two exactly what is unread: a stored message, a marker and what a
\* handler writes back agree as long as nobody else has written in between.
THEOREM AnnouncedIsUnread == Spec => []UnreadIsAnnounced
<1>1. Init => Serial /\ Aligned
  <2> SUFFICES ASSUME Init
               PROVE  Serial /\ Aligned
    OBVIOUS
  <2>1. \A c \in Calls : call[c] = Idle
    BY DEF Init
  <2>2. \A p \in Parties : Announced(p) = 0
    <3>1. task.role = None
      BY DEF Init, NewTasks
    <3> QED BY <3>1, ChatAssumption DEF Announced
  <2>3. \A p \in Parties : Cardinality(UnreadMessages(p)) = 0
    <3>1. \A p : UnreadMessages(p) = {}
      BY DEF Init, UnreadMessages
    <3> QED BY <3>1, FS_EmptySet
  <2> QED BY <2>1, <2>2, <2>3 DEF Serial, Aligned, Inserting, Serving, UnreadCount
<1>2. IInv /\ Serial /\ Aligned /\ [Next]_vars => Serial' /\ Aligned'
  <2>1. IInv => TypeOK
    BY DEF IInv
  <2> QED BY <2>1, SerialStays, AlignedStays DEF SerialInv
<1>3. Aligned => UnreadIsAnnounced
  BY DEF Aligned, UnreadIsAnnounced, NoneRemoved, UnreadCount
<1> QED BY <1>1, <1>2, <1>3, IInvHolds, PTL DEF Spec
=============================================================================
