---------------------------- MODULE Registration ----------------------------
(***************************************************************************)
(* Registering attendees and updating their data:                          *)
(*                                                                         *)
(*   POST /attendees        "register"   newAttendeeHandler                *)
(*   PUT  /attendees/{id}   "update"     updateAttendeeHandler             *)
(*                                                                         *)
(* with the checks for duplicates, for choices and for who may change      *)
(* them, and the repository that records the old version of a row in the   *)
(* history table before it saves the new one.  What an update does to dues *)
(* and status after the row is saved is the subject of StatusDues.         *)
(*                                                                         *)
(* One action is one access to the database with the computation up to the *)
(* next.  Nothing is locked, no two accesses share a transaction, and no   *)
(* index of the table is unique.                                           *)
(***************************************************************************)
EXTENDS Integers, Sequences, FiniteSets

CONSTANTS
    Keys,           \* nickname, zip code and email of an attendee, taken together
    Choices,        \* the flags, packages or options that can be picked
    Default,        \* the choices that are on by default
    ReadOnly,       \* the choices "only admin can change"
    Requires,       \* choice -> choices to be picked with it (constraint "k")
    Excludes,       \* choice -> choices not to be picked with it (constraint "!k")
    UserComments,   \* what attendees may leave as a comment
    Subjects,       \* logged in users who are not admins
    Workers,        \* requests in progress at a time (bound)
    MaxAttendees,   \* attendees registered (bound)
    MaxUpdates      \* entries in the history of an attendee (bound)

Admin == "admin"    \* the admin role, or the api token
Callers == Subjects \cup {Admin}

ASSUME CallerAssumption == Admin \notin Subjects
ASSUME ChoiceAssumption ==
    /\ Default \subseteq Choices /\ ReadOnly \subseteq Choices
    /\ Requires \in [Choices -> SUBSET Choices]
    /\ Excludes \in [Choices -> SUBSET Choices]

VARIABLES
    rows,       \* badge number -> the row of the table attendees
    history,    \* badge number -> the diffs recorded in the table history
    req,        \* worker -> the request it is handling
    replaced,   \* history variable: badge number -> what was overwritten of its row
    granted     \* history variable: badge number -> the read-only choices it may have

vars == <<rows, history, req, replaced, granted>>

Row == [key : Keys, choices : SUBSET Choices, owner : Callers, userComments : UserComments]

\* "Changes to attendees are historized, except User Comments" (README.md 62).
Historized == {"key", "choices", "owner"}
OfRow(row) == [c \in Historized |-> row[c]]

\* A diff holds the old values of the columns that change.
Diff == {[c \in columns |-> row[c]] : columns \in SUBSET Historized, row \in Row}

Steps == {"count", "insert", "old", "history", "save"}

\* The local variables of a handler: the badge number if there is one, the row to
\* write, and the old version as the repository reads it.
Request ==
    [pc : Steps, kind : {"register", "update"}, id : Nat, by : Callers, row : Row, old : Row]

Idle == [pc |-> "idle"]
Busy(w) == req[w].pc # "idle"
At(w, step) == req[w].pc = step

TypeOK ==
    /\ rows \in Seq(Row)
    /\ history \in Seq(Seq(Diff)) /\ Len(history) = Len(rows)
    /\ req \in [Workers -> Request \cup {Idle}]
    /\ replaced \in Seq(SUBSET {OfRow(row) : row \in Row}) /\ Len(replaced) = Len(rows)
    /\ granted \in Seq(SUBSET SUBSET ReadOnly) /\ Len(granted) = Len(rows)

Init ==
    /\ rows = << >>
    /\ history = << >>
    /\ req = [w \in Workers |-> Idle]
    /\ replaced = << >>
    /\ granted = << >>

-----------------------------------------------------------------------------
Continue(w, r) == req' = [req EXCEPT ![w] = r]
Respond(w) == req' = [req EXCEPT ![w] = Idle]

\* Mutant: only the choice that is picked anew is checked.
NoForbiddenChanges_PickedOnly(by, original, new) ==
    by # Admin => (new \ original) \cap ReadOnly = {}

\* checkNoForbiddenChanges for every choice; a packages choice cannot be admin_only.
NoForbiddenChanges(by, original, new) ==
    by # Admin => new \cap ReadOnly = original \cap ReadOnly

\* checkNoConstraintViolation for every choice.
NoConstraintViolation(new) ==
    \A k \in new : Requires[k] \subseteq new /\ Excludes[k] \cap new = {}

CanChangeChoiceTo(by, original, new) ==
    NoForbiddenChanges(by, original, new) /\ NoConstraintViolation(new)

-----------------------------------------------------------------------------
\* A valid registration arrives; its choices are compared with the defaults.
ReceiveRegistration(w, by, key, choices, comments) ==
    /\ ~Busy(w)
    /\ Len(rows) < MaxAttendees
    /\ CanChangeChoiceTo(by, Default, choices)
    /\ LET row == [key |-> key, choices |-> choices, owner |-> by, userComments |-> comments] IN
       Continue(w, [pc |-> "count", kind |-> "register", id |-> 0, by |-> by,
                    row |-> row, old |-> row])
    /\ UNCHANGED <<rows, history, replaced, granted>>

\* An update arrives: the handler loads the row, checks who may change it and
\* whether the new choices may follow those loaded, and maps the body onto it.
ReceiveUpdate(w, id, by, key, choices, comments) ==
    /\ ~Busy(w)
    /\ Len(history[id]) < MaxUpdates
    /\ by \in {rows[id].owner, Admin}
    /\ CanChangeChoiceTo(by, rows[id].choices, choices)
    /\ LET row == [rows[id] EXCEPT !.key = key, !.choices = choices, !.userComments = comments] IN
       Continue(w, [pc |-> "count", kind |-> "update", id |-> id, by |-> by,
                    row |-> row, old |-> row])
    /\ UNCHANGED <<rows, history, replaced, granted>>

Holders(key) == {id \in DOMAIN rows : rows[id].key = key}

Expected(kind) == IF kind = "register" THEN 0 ELSE 1

\* Mutant: one row with the key is tolerated on registration, too.
IsDuplicate_SecondOnly(r) == Cardinality(Holders(r.row.key)) > 1

\* isDuplicateAttendee: the rows with the new key are counted.
IsDuplicate(r) == Cardinality(Holders(r.row.key)) # Expected(r.kind)

CheckDuplicate(w) ==
    LET r == req[w] IN
    /\ At(w, "count")
    /\ IF IsDuplicate(r)
       THEN Respond(w)
       ELSE Continue(w, [r EXCEPT !.pc = IF r.kind = "register" THEN "insert" ELSE "old"])
    /\ UNCHANGED <<rows, history, replaced, granted>>

\* The read-only choices that an admin gives an attendee with a request.
Grants(r) == IF r.by = Admin THEN {r.row.choices \cap ReadOnly} ELSE {}

AddAttendee(w) ==
    LET r == req[w] IN
    /\ At(w, "insert")
    /\ rows' = Append(rows, r.row)
    /\ history' = Append(history, << >>)
    /\ replaced' = Append(replaced, {})
    /\ granted' = Append(granted, {Default \cap ReadOnly} \cup Grants(r))
    /\ Respond(w)

-----------------------------------------------------------------------------
\* The repository reads the row once more for the history ...
ReadOldVersion(w) ==
    LET r == req[w] IN
    /\ At(w, "old")
    /\ Continue(w, [r EXCEPT !.old = rows[r.id], !.pc = "history"])
    /\ UNCHANGED <<rows, history, replaced, granted>>

\* Mutant: comments are historized, too.
diffReverse_AllColumns(old, new) ==
    [column \in {c \in DOMAIN old : old[c] # new[c]} |-> old[column]]

\* Mutant: the new values are recorded.
diffReverse_NewValues(old, new) ==
    [column \in {c \in Historized : old[c] # new[c]} |-> new[column]]

\* "We diff reverse so the OLD value is printed in the diffs."
diffReverse(old, new) ==
    [column \in {c \in Historized : old[c] # new[c]} |-> old[column]]

\* ... records what is about to change ...
RecordHistory(w) ==
    LET r == req[w] IN
    /\ At(w, "history")
    /\ history' = [history EXCEPT ![r.id] = Append(@, diffReverse(r.old, r.row))]
    /\ Continue(w, [r EXCEPT !.pc = "save"])
    /\ UNCHANGED <<rows, replaced, granted>>

\* Mutant: only the choices that differ from the old version are saved.
UpdateAttendee_Merged(w) ==
    LET r == req[w]
        kept == rows[r.id].choices \ (r.old.choices \ r.row.choices) IN
    /\ At(w, "save")
    /\ rows' = [rows EXCEPT ![r.id] =
                   [r.row EXCEPT !.choices = kept \cup (@ \ r.old.choices)]]
    /\ replaced' = [replaced EXCEPT ![r.id] = @ \cup {OfRow(rows[r.id])}]
    /\ granted' = [granted EXCEPT ![r.id] = @ \cup Grants(r)]
    /\ Respond(w)
    /\ UNCHANGED history

\* ... and saves the whole row.
UpdateAttendee(w) ==
    LET r == req[w] IN
    /\ At(w, "save")
    /\ rows' = [rows EXCEPT ![r.id] = r.row]
    /\ replaced' = [replaced EXCEPT ![r.id] = @ \cup {OfRow(rows[r.id])}]
    /\ granted' = [granted EXCEPT ![r.id] = @ \cup Grants(r)]
    /\ Respond(w)
    /\ UNCHANGED history

\* An access fails; the handler answers with an error and undoes nothing.
Fail(w) ==
    /\ Busy(w)
    /\ Respond(w)
    /\ UNCHANGED <<rows, history, replaced, granted>>

Arrive(w) ==
    \E by \in Callers, key \in Keys, choices \in SUBSET Choices, comments \in UserComments :
        \/ ReceiveRegistration(w, by, key, choices, comments)
        \/ \E id \in DOMAIN rows : ReceiveUpdate(w, id, by, key, choices, comments)

Handle(w) ==
    \/ CheckDuplicate(w) \/ AddAttendee(w)
    \/ ReadOldVersion(w) \/ RecordHistory(w) \/ UpdateAttendee(w)
    \/ Fail(w)

Next == \E w \in Workers : Arrive(w) \/ Handle(w)

\* Requests come one after the other.
SerialNext ==
    \/ \E w \in Workers : (\A v \in Workers : ~Busy(v)) /\ Arrive(w)
    \/ \E w \in Workers : Handle(w)

Spec == Init /\ [][Next]_vars
SerialSpec == Init /\ [][SerialNext]_vars

-----------------------------------------------------------------------------
(***************************************************************************)
(* Properties                                                              *)
(***************************************************************************)
\* In any interleaving of requests, the read-only choices in a row are, all of them
\* together, the defaults or what an admin's request has given the attendee at some
\* time: an update that overwrites what an admin saved since it was loaded may bring
\* back an earlier grant, but makes up none (checkNoForbiddenChanges looks at the row
\* as loaded, Save writes the whole row).
ReadOnlyAsGranted ==
    \A id \in DOMAIN rows : rows[id].choices \cap ReadOnly \in granted[id]

\* A read-only choice of an attendee changes only by a request of an admin
\* ("only admin can change it", structure.go 60; attendeesrv.go 129).
ReadOnlyChangedByAdmin ==
    [][\A id \in DOMAIN rows :
         rows'[id].choices \cap ReadOnly # rows[id].choices \cap ReadOnly
            => \E w \in Workers : req[w] # req'[w] /\ req[w].by = Admin]_vars

\* The version of a row that results when a diff is taken back.
Undo(diff, row) == [c \in DOMAIN row |-> IF c \in DOMAIN diff THEN diff[c] ELSE row[c]]

\* The row of an attendee and what it was before each of the recorded changes.
Versions(id) ==
    LET entries == Len(history[id])
        before[n \in 0 .. entries] ==
            IF n = 0 THEN OfRow(rows[id]) ELSE Undo(history[id][entries - n + 1], before[n - 1]) IN
    {before[n] : n \in 0 .. entries}

\* Every row that was overwritten can be had back, all but the user's comments, from
\* the row of today and the history, whatever updates failed between the two writes.
ReplacedRowsInHistory == \A id \in DOMAIN rows : replaced[id] \subseteq Versions(id)

\* No attendee is registered with nickname, zip code and email of another
\* (openapi.yaml 130: 409, "duplicate (same nickname + email + zip code)").
RegisteredOnce ==
    [][\A id \in DOMAIN rows' \ DOMAIN rows : Holders(rows'[id].key) = {}]_vars
=============================================================================
