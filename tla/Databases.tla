----------------------------- MODULE Databases ------------------------------
(***************************************************************************)
(* The database behind the services: the historizing repository around the *)
(* in-memory or the MySQL database, whichever is configured, and handlers  *)
(* that load an attendee or its admin info, change what they loaded and    *)
(* save it.                                                                *)
(*                                                                         *)
(* A save is three accesses: the old version is read, its difference to    *)
(* the new one is recorded, and the new version is written.  Requests      *)
(* interleave between accesses; on MySQL an access may fail, and the       *)
(* service may be restarted.                                               *)
(***************************************************************************)
EXTENDS Integers, Sequences, FiniteSets, Functions, Folds

CONSTANTS
    Rows,           \* the columns an attendee may have (records)
    Infos, NoInfo,  \* admin infos, and the one for attendees who have none yet
    Statuses,       \* statuses after "new"
    Subjects,       \* users; "" is nobody
    Fold(_),        \* the collation
    Workers,        \* requests in progress at a time (bound)
    MaxEntries      \* attendees, status changes and history entries together (bound)

\* A row has all the columns, an admin info likewise.
ASSUME ColumnAssumption ==
    /\ NoInfo \in Infos
    /\ \A a, b \in Rows : DOMAIN a = DOMAIN b
    /\ \A a, b \in Infos : DOMAIN a = DOMAIN b

InMemory == INSTANCE InMemoryRepository
Mysql == INSTANCE MysqlRepository

VARIABLES
    database,   \* which one is configured, "inmemory" or "mysql"
    db,         \* its content
    req         \* worker -> the request it is handling

vars == <<database, db, req>>

Idle == [pc |-> "idle"]
At(w, step) == req[w].pc = step
Continue(w, r) == req' = [req EXCEPT ![w] = r]
Respond(w) == req' = [req EXCEPT ![w] = Idle]

IsMysql == database = "mysql"

Attendees == DOMAIN db.attendees

\* The repository that is configured answers.
GetAttendeeById(id) ==
    IF IsMysql THEN Mysql!GetAttendeeById(db, id) ELSE InMemory!GetAttendeeById(db, id)
GetAdminInfo(id) ==
    IF IsMysql THEN Mysql!GetAdminInfoByAttendeeId(db, id)
    ELSE InMemory!GetAdminInfoByAttendeeId(db, id)
GetStatusChanges(id) ==
    IF IsMysql THEN Mysql!GetStatusChangesByAttendeeId(db, id)
    ELSE InMemory!GetStatusChangesByAttendeeId(db, id)
GetLatestStatus(id) ==
    IF IsMysql THEN Mysql!GetLatestStatus(db, id) ELSE InMemory!GetLatestStatus(db, id)
FindByIdentity(subject) ==
    IF IsMysql THEN Mysql!FindByIdentity(db, subject) ELSE InMemory!FindByIdentity(db, subject)

History == IF IsMysql THEN db.histories ELSE db.history

\* How much was inserted into these three tables.
Entries ==
    Cardinality(Attendees) + Cardinality(DOMAIN History)
        + IF IsMysql THEN Len(db.status_changes)
          ELSE FoldFunction(LAMBDA list, n : Len(list) + n, 0, db.statusChanges)

\* What a handler works on, an attendee's row or its admin info.
Objects == Rows \cup Infos
Comments == {"userComments", "adminComments"}

Request ==
    [pc : {"edit", "old", "history", "save"}, entity : {"Attendee", "AdminInfo"}, id : Nat \ {0},
     object : Objects, shared : BOOLEAN, old : Objects]

TypeOK ==
    /\ database \in {"inmemory", "mysql"}
    /\ req \in [Workers -> Request \cup {Idle}]
    /\ Range(db.attendees) \subseteq Rows
    /\ Attendees \subseteq Nat \ {0} /\ DOMAIN db.adminInfo \subseteq Attendees
    /\ \A id \in Attendees : GetAdminInfo(id) \in Infos /\ Range(GetStatusChanges(id)) \subseteq Statuses
    /\ \A h \in Range(History) : h.entityId \in Attendees

Init ==
    /\ database \in {"inmemory", "mysql"}
    /\ db = IF IsMysql THEN Mysql!Migrate ELSE InMemory!Open
    /\ req = [w \in Workers |-> Idle]

-----------------------------------------------------------------------------
\* A registration that was found in order is added.
AddAttendee(row) ==
    /\ Entries < MaxEntries
    /\ db' = IF IsMysql THEN Mysql!AddAttendee(db, row) ELSE InMemory!AddAttendee(db, row)
    /\ UNCHANGED <<database, req>>

AddStatusChange(id, status) ==
    /\ Entries < MaxEntries
    /\ db' = IF IsMysql THEN Mysql!AddStatusChange(db, id, status)
             ELSE InMemory!AddStatusChange(db, id, status)
    /\ UNCHANGED <<database, req>>

\* The handler of PUT /attendees/{id} loads the attendee ...
LoadAttendee(w, id) ==
    LET found == GetAttendeeById(id) IN
    /\ At(w, "idle")
    /\ Continue(w, [pc |-> "edit", entity |-> "Attendee", id |-> id,
                    object |-> found.row, shared |-> found.shared, old |-> NoInfo])
    /\ UNCHANGED <<database, db>>

\* ... that of PUT /attendees/{id}/admin its admin info, always a new object.
LoadAdminInfo(w, id) ==
    /\ At(w, "idle")
    /\ Continue(w, [pc |-> "edit", entity |-> "AdminInfo", id |-> id,
                    object |-> GetAdminInfo(id), shared |-> FALSE, old |-> NoInfo])
    /\ UNCHANGED <<database, db>>

\* The body is mapped onto the object, all fields but the owner, or the request turned
\* down.  An object that the database shares changes there, too.
Edit(w, object) ==
    LET r == req[w] IN
    /\ At(w, "edit")
    /\ IF r.entity = "Attendee"
       THEN object \in Rows /\ object.identity = r.object.identity
       ELSE object \in Infos
    /\ Continue(w, [r EXCEPT !.pc = "old", !.object = object])
    /\ db' = IF r.shared THEN [db EXCEPT !.attendees[r.id] = object] ELSE db
    /\ UNCHANGED database

TurnDown(w) ==
    /\ At(w, "edit")
    /\ Respond(w)
    /\ UNCHANGED <<database, db>>

-----------------------------------------------------------------------------
\* UpdateAttendee and WriteAdminInfo of the historizing repository: the old version ...
ReadOldVersion(w) ==
    LET r == req[w] IN
    /\ At(w, "old")
    /\ Continue(w, [r EXCEPT !.pc = "history",
                             !.old = IF r.entity = "Attendee" THEN GetAttendeeById(r.id).row
                                     ELSE GetAdminInfo(r.id)])
    /\ UNCHANGED <<database, db>>

\* Mutant: the new values are recorded.
diffReverse_Forward(old, new) ==
    LET changed == {c \in DOMAIN old : old[c] # new[c]} \ Comments IN Restrict(new, changed)

\* The old values of the columns that change; comments are tagged to be ignored.
diffReverse(old, new) ==
    LET changed == {c \in DOMAIN old : old[c] # new[c]} \ Comments IN Restrict(old, changed)

\* ... its difference to the new one ...
RecordHistory(w) ==
    LET r == req[w]
        h == [entity |-> r.entity, entityId |-> r.id, diff |-> diffReverse(r.old, r.object)] IN
    /\ At(w, "history")
    /\ Entries < MaxEntries
    /\ db' = IF IsMysql THEN Mysql!RecordHistory(db, h) ELSE InMemory!RecordHistory(db, h)
    /\ Continue(w, [r EXCEPT !.pc = "save"])
    /\ UNCHANGED database

\* ... and the new version.
UpdateAttendee(w) ==
    LET r == req[w] IN
    /\ At(w, "save") /\ r.entity = "Attendee"
    /\ db' = IF IsMysql THEN Mysql!UpdateAttendee(db, r.id, r.object)
             ELSE InMemory!UpdateAttendee(db, r.id, r.object)
    /\ Respond(w)
    /\ UNCHANGED database

WriteAdminInfo(w) ==
    LET r == req[w] IN
    /\ At(w, "save") /\ r.entity = "AdminInfo"
    /\ db' = IF IsMysql THEN Mysql!WriteAdminInfo(db, r.id, r.object)
             ELSE InMemory!WriteAdminInfo(db, r.id, r.object)
    /\ Respond(w)
    /\ UNCHANGED database

\* An access to MySQL fails: the request ends with an error, and what was recorded stays.
AccessFails(w) ==
    /\ IsMysql
    /\ req[w].pc \in {"old", "history", "save"}
    /\ Respond(w)
    /\ UNCHANGED <<database, db>>

\* The service ends and starts again; an in-memory database would start from Init.
Restart ==
    /\ IsMysql
    /\ req' = [w \in Workers |-> Idle]
    /\ UNCHANGED <<database, db>>

Next ==
    \/ \E row \in Rows : AddAttendee(row)
    \/ \E id \in Attendees, status \in Statuses : AddStatusChange(id, status)
    \/ \E w \in Workers :
         \/ \E id \in Attendees : LoadAttendee(w, id) \/ LoadAdminInfo(w, id)
         \/ \E object \in Objects : Edit(w, object)
         \/ TurnDown(w) \/ ReadOldVersion(w) \/ RecordHistory(w)
         \/ UpdateAttendee(w) \/ WriteAdminInfo(w) \/ AccessFails(w)
    \/ Restart

Spec == Init /\ [][Next]_vars

-----------------------------------------------------------------------------
\* Mutant: whoever asks is looked up, logged in or not.
IsOwnerFor_Anybody(subject) == FindByIdentity(subject)

\* The registrations of the user who is logged in, none for nobody.
IsOwnerFor(subject) == IF subject # "" THEN FindByIdentity(subject) ELSE {}

(***************************************************************************)
(* Properties                                                              *)
(***************************************************************************)
\* What the services see of the tables, and what their handlers have in hand.
infos == [id \in Attendees |-> GetAdminInfo(id)]
statuses == [id \in Attendees |-> GetStatusChanges(id)]
latest == [id \in Attendees |-> GetLatestStatus(id)]
DraftOf(r) == IF r.pc = "idle" THEN [entity |-> "none"]
              ELSE [entity |-> r.entity, id |-> r.id, object |-> r.object]
drafts == [w \in Workers |-> DraftOf(req[w])]

\* Either database, with the historizing repository around it, keeps to what the
\* services expect: a handler works on a copy ("so later modifications won't also
\* modify it in the simulated db"), the tables change when it saves and by nothing else,
\* not by a save that failed halfway nor by a restart, and what the row then holds is
\* what the handler had in hand; the statuses an attendee was given stay, no other
\* attendee's are among them, and the one said to be the latest is the last one given.
Promise == INSTANCE Repository WITH
    attendees <- db.attendees,
    adminInfo <- infos,
    statusChanges <- statuses,
    latestStatus <- latest,
    draft <- drafts
KeepsPromise == Promise!Spec

\* A version put back together from a diff and the version that replaced it.
Undo(new, diff) == [c \in DOMAIN new |-> IF c \in DOMAIN diff THEN diff[c] ELSE new[c]]
SameButComments(a, b) ==
    DOMAIN a = DOMAIN b /\ \A c \in DOMAIN a \ Comments : a[c] = b[c]

\* A step overwrites what is kept of attendee id only so that the history can give it
\* back, or what an update that ran at the same time has replaced since it was read.
OverwritesUndoably(id) ==
    LET kept(entity, old, new) ==
          \/ old = new
          \/ \E h \in Range(History) :
               /\ h.entity = entity /\ h.entityId = id
               /\ SameButComments(Undo(new, h.diff), old)
          \/ \E w \in Workers :
               At(w, "save") /\ req[w].entity = entity /\ req[w].id = id /\ req[w].old # old
    IN  /\ kept("Attendee", db.attendees[id], db.attendees'[id])
        /\ kept("AdminInfo", GetAdminInfo(id), GetAdminInfo(id)')

\* "We diff reverse so the OLD value is printed in the diffs.  The new value is in the
\* database now": when a version is overwritten, the history holds an entry that gives
\* back what was read as the old version.
OverwrittenCanBeUndone == [][\A id \in Attendees : OverwritesUndoably(id)]_vars

\* A user owns the registrations with that identity and no others, and nobody owns
\* none, though MySQL leaves an empty identity out of the condition and some attendees
\* are registered without one.
OwnersOwnTheirs ==
    \A s \in Subjects \cup {""} :
        LET owned == {o.id : o \in IsOwnerFor(s)} IN
        /\ s # "" => {id \in Attendees : db.attendees[id].identity = s} \subseteq owned
        /\ \A id \in owned : s # "" /\ Fold(db.attendees[id].identity) = Fold(s)
=============================================================================
