-------------------------- MODULE MysqlRepository ---------------------------
(***************************************************************************)
(* The MySQL database as gorm is used to reach it: tables with a primary   *)
(* key each, by which Create appends and Save updates or inserts.  Texts   *)
(* are compared by the collation of their columns (utf8mb4_general_ci,     *)
(* entity/attendee.go), which takes upper for lower case, and a condition  *)
(* given as a struct leaves out the fields that are empty.                 *)
(***************************************************************************)
EXTENDS Integers, Sequences, FiniteSetsExt

CONSTANTS
    NoInfo,
    Fold(_)     \* texts with the same Fold are equal to the collation

\* The tables as Migrate leaves them.
Migrate ==
    [attendees |-> << >>, adminInfo |-> [id \in {} |-> NoInfo],
     status_changes |-> << >>, histories |-> << >>]

\* Update, or insert if there is no such row.
Save(table, id, value) == [i \in DOMAIN table \cup {id} |-> IF i = id THEN value ELSE table[i]]

\* Nothing is ever deleted, so the next number of a table is one more than its rows.
Create(table, value) == Append(table, value)

\* A field of a struct condition; empty, it is no condition at all.
Where(given, text) == given = "" \/ Fold(text) = Fold(given)
WhereId(given, id) == given = 0 \/ id = given

AddAttendee(db, row) == [db EXCEPT !.attendees = Create(@, row)]

UpdateAttendee(db, id, row) == [db EXCEPT !.attendees = Save(@, id, row)]

\* gorm fills a new struct.
GetAttendeeById(db, id) == [row |-> db.attendees[id], shared |-> FALSE]

GetAdminInfoByAttendeeId(db, id) ==
    IF id \in DOMAIN db.adminInfo THEN db.adminInfo[id] ELSE NoInfo

WriteAdminInfo(db, id, info) == [db EXCEPT !.adminInfo = Save(@, id, info)]

\* The primary keys of an attendee's status changes.
KeysOf(db, id) ==
    {key \in DOMAIN db.status_changes : WhereId(id, db.status_changes[key].attendeeId)}

\* The query has no order by: an answer is a status per primary key, and the rows may
\* come in any order.
GetStatusChangesByAttendeeId(db, id) ==
    [key \in KeysOf(db, id) |-> db.status_changes[key].status]

\* Mutant: the condition on the attendee is left out.
GetLatestStatus_OfAnybody(db, id) ==
    IF KeysOf(db, 0) = {} THEN "new" ELSE db.status_changes[Max(KeysOf(db, 0))].status

\* A query of its own: the last by primary key.
GetLatestStatus(db, id) ==
    IF KeysOf(db, id) = {} THEN "new" ELSE db.status_changes[Max(KeysOf(db, id))].status

AddStatusChange(db, id, status) ==
    [db EXCEPT !.status_changes = Create(@, [attendeeId |-> id, status |-> status])]

FindByIdentity(db, identity) ==
    {[id |-> id, shared |-> FALSE] :
        id \in {i \in DOMAIN db.attendees : Where(identity, db.attendees[i].identity)}}

RecordHistory(db, h) == [db EXCEPT !.histories = Create(@, h)]
=============================================================================
