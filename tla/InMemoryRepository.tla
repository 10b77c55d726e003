------------------------- MODULE InMemoryRepository -------------------------
(***************************************************************************)
(* The in-memory database, the one the acceptance tests run on: a record   *)
(* of Go maps and one sequence that numbers attendees and history entries  *)
(* alike, so that badge numbers have gaps.  Operations that write yield    *)
(* the new database, the others an answer.                                 *)
(*                                                                         *)
(* The maps hold pointers.  An answer with attendees says whether they are *)
(* "shared": the very objects that lie in the map, which whoever gets them *)
(* could change without another call.                                      *)
(***************************************************************************)
EXTENDS Integers, Sequences

CONSTANT NoInfo

EmptyMap == [id \in {} |-> NoInfo]

Open ==
    [attendees |-> EmptyMap, adminInfo |-> EmptyMap, statusChanges |-> EmptyMap,
     history |-> EmptyMap, idSequence |-> 0]

With(map, key, value) == [k \in DOMAIN map \cup {key} |-> IF k = key THEN value ELSE map[k]]

\* Mutant: the number before the increment is taken.
AddAttendee_PostIncrement(db, row) ==
    [db EXCEPT !.idSequence = @ + 1, !.attendees = With(@, db.idSequence, row)]

AddAttendee(db, row) ==
    LET newId == db.idSequence + 1 IN
    [db EXCEPT !.idSequence = newId, !.attendees = With(@, newId, row)]

\* An error for an attendee that is not present; the database stays as it is.
UpdateAttendee(db, id, row) ==
    IF id \in DOMAIN db.attendees THEN [db EXCEPT !.attendees = With(@, id, row)] ELSE db

\* Mutant: the attendee is not copied.
GetAttendeeById_Uncopied(db, id) == [row |-> db.attendees[id], shared |-> TRUE]

\* A copy, "so later modifications won't also modify it in the simulated db".
GetAttendeeById(db, id) == [row |-> db.attendees[id], shared |-> FALSE]

GetAdminInfoByAttendeeId(db, id) ==
    IF id \in DOMAIN db.adminInfo THEN db.adminInfo[id] ELSE NoInfo

WriteAdminInfo(db, id, info) ==
    IF id = 0 THEN db ELSE [db EXCEPT !.adminInfo = With(@, id, info)]

\* In the order in which they were added.
GetStatusChangesByAttendeeId(db, id) ==
    IF id \in DOMAIN db.statusChanges THEN db.statusChanges[id] ELSE << >>

GetLatestStatus(db, id) ==
    LET scList == GetStatusChangesByAttendeeId(db, id) IN
    IF scList = << >> THEN "new" ELSE scList[Len(scList)]

AddStatusChange(db, id, status) ==
    [db EXCEPT !.statusChanges =
        With(@, id, Append(GetStatusChangesByAttendeeId(db, id), status))]

\* The only reader that hands out the objects in the map.
FindByIdentity(db, identity) ==
    {[id |-> id, shared |-> TRUE] :
        id \in {i \in DOMAIN db.attendees : db.attendees[i].identity = identity}}

RecordHistory(db, h) ==
    LET newId == db.idSequence + 1 IN
    [db EXCEPT !.idSequence = newId, !.history = With(@, newId, h)]
=============================================================================
