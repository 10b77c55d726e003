------------------------- MODULE Registration_proofs -------------------------
(***************************************************************************)
(* What holds of registrations and updates for every configuration of      *)
(* choices, every number of attendees and any interleaving of requests;    *)
(* in the second half, of requests one after the other.                    *)
(***************************************************************************)
EXTENDS Registration, FiniteSetTheorems, TLAPS

\* Where a handler is tells what kind of request it serves, and an update is on an
\* attendee that exists.
RequestsFit ==
    \A w \in Workers :
        Busy(w) => /\ req[w].pc = "insert" => req[w].kind = "register"
                   /\ req[w].pc \in {"old", "history", "save"} => req[w].kind = "update"
                   /\ req[w].kind = "update" => req[w].id \in DOMAIN rows

\* What a handler that is not an admin's is about to write has read-only choices that
\* are the defaults, or that the attendee has been given.
MayHave(r) == IF r.kind = "update" THEN granted[r.id] ELSE {Default \cap ReadOnly}
WritesAsGranted ==
    \A w \in Workers :
        Busy(w) /\ req[w].by # Admin => req[w].row.choices \cap ReadOnly \in MayHave(req[w])

Inv == TypeOK /\ RequestsFit /\ WritesAsGranted /\ ReadOnlyAsGranted

-----------------------------------------------------------------------------
\* A request that is not idle is typed.
LEMMA BusyTyped == ASSUME TypeOK, NEW w \in Workers, req[w].pc # "idle"
                   PROVE  req[w] \in Request
BY DEF TypeOK, Idle

\* The diff recorded for a row is one.
LEMMA DiffTyped == ASSUME NEW old \in Row, NEW new \in Row
                   PROVE  diffReverse(old, new) \in Diff
<1> DEFINE columns == {c \in Historized : old[c] # new[c]}
<1>1. columns \in SUBSET Historized
  OBVIOUS
<1>2. diffReverse(old, new) = [c \in columns |-> old[c]]
  BY DEF diffReverse
<1>. QED BY <1>1, <1>2 DEF Diff

-----------------------------------------------------------------------------
LEMMA InitInv == Init => Inv
<1> SUFFICES ASSUME Init PROVE Inv
  OBVIOUS
<1>1. TypeOK
  BY DEF Init, TypeOK
<1>2. RequestsFit /\ WritesAsGranted
  BY DEF Init, RequestsFit, WritesAsGranted, Busy, Idle
<1>3. ReadOnlyAsGranted
  BY DEF Init, ReadOnlyAsGranted
<1>. QED BY <1>1, <1>2, <1>3 DEF Inv

\* A request arrives: the tables are left alone, and what it is going to write has
\* been compared with the defaults or with the row as it is now.
LEMMA ArriveKeepsInv ==
    ASSUME Inv, NEW w \in Workers, NEW by \in Callers, NEW key \in Keys,
           NEW choices \in SUBSET Choices, NEW comments \in UserComments,
           \/ ReceiveRegistration(w, by, key, choices, comments)
           \/ \E id \in DOMAIN rows : ReceiveUpdate(w, id, by, key, choices, comments)
    PROVE  Inv'
<1> USE DEF Inv
<1>1. CASE ReceiveRegistration(w, by, key, choices, comments)
  <2> DEFINE row == [key |-> key, choices |-> choices, owner |-> by, userComments |-> comments]
             r == [pc |-> "count", kind |-> "register", id |-> 0, by |-> by,
                   row |-> row, old |-> row]
  <2>1. row \in Row
    BY DEF Row
  <2>2. r \in Request
    BY <2>1 DEF Request, Steps
  <2>3. req' = [req EXCEPT ![w] = r]
    BY <1>1 DEF ReceiveRegistration, Continue
  <2>4. UNCHANGED <<rows, history, replaced, granted>>
    BY <1>1 DEF ReceiveRegistration
  <2>5. by # Admin => choices \cap ReadOnly = Default \cap ReadOnly
    BY <1>1 DEF ReceiveRegistration, CanChangeChoiceTo, NoForbiddenChanges
  <2> HIDE DEF row
  <2>6. row.choices = choices
    BY DEF row
  <2>7. TypeOK'
    BY <2>2, <2>3, <2>4 DEF TypeOK
  <2>8. RequestsFit'
    BY <2>3, <2>4 DEF RequestsFit, Busy, TypeOK
  <2>9. WritesAsGranted'
    BY <2>3, <2>4, <2>5, <2>6 DEF WritesAsGranted, MayHave, Busy, TypeOK
  <2>10. ReadOnlyAsGranted'
    BY <2>4 DEF ReadOnlyAsGranted
  <2>. QED BY <2>7, <2>8, <2>9, <2>10
<1>2. CASE \E id \in DOMAIN rows : ReceiveUpdate(w, id, by, key, choices, comments)
  <2> PICK id \in DOMAIN rows : ReceiveUpdate(w, id, by, key, choices, comments)
    BY <1>2
  <2> DEFINE row == [rows[id] EXCEPT !.key = key, !.choices = choices, !.userComments = comments]
             r == [pc |-> "count", kind |-> "update", id |-> id, by |-> by,
                   row |-> row, old |-> row]
  <2>1. rows[id] \in Row /\ id \in Nat
    BY DEF TypeOK
  <2>2. row \in Row /\ row.choices = choices
    BY <2>1 DEF Row
  <2>3. r \in Request
    BY <2>1, <2>2 DEF Request, Steps
  <2>4. req' = [req EXCEPT ![w] = r]
    BY DEF ReceiveUpdate, Continue
  <2>5. UNCHANGED <<rows, history, replaced, granted>>
    BY DEF ReceiveUpdate
  <2>6. by # Admin => choices \cap ReadOnly = rows[id].choices \cap ReadOnly
    BY DEF ReceiveUpdate, CanChangeChoiceTo, NoForbiddenChanges
  <2>7. rows[id].choices \cap ReadOnly \in granted[id]
    BY DEF ReadOnlyAsGranted
  <2> HIDE DEF row
  <2>8. TypeOK'
    BY <2>3, <2>4, <2>5 DEF TypeOK
  <2>9. RequestsFit'
    BY <2>4, <2>5 DEF RequestsFit, Busy, TypeOK
  <2>10. WritesAsGranted'
    BY <2>2, <2>4, <2>5, <2>6, <2>7 DEF WritesAsGranted, MayHave, Busy, TypeOK
  <2>11. ReadOnlyAsGranted'
    BY <2>5 DEF ReadOnlyAsGranted
  <2>. QED BY <2>8, <2>9, <2>10, <2>11
<1>. QED BY <1>1, <1>2

\* A handler that ends, with nothing written, leaves the invariant in place.
LEMMA RespondKeepsInv ==
    ASSUME Inv, NEW w \in Workers, Respond(w), UNCHANGED <<rows, history, replaced, granted>>
    PROVE  Inv'
<1> USE DEF Inv, Respond
<1>1. TypeOK'
  BY DEF TypeOK
<1>2. RequestsFit' /\ WritesAsGranted'
  BY DEF RequestsFit, WritesAsGranted, MayHave, Busy, Idle, TypeOK
<1>3. ReadOnlyAsGranted'
  BY DEF ReadOnlyAsGranted
<1>. QED BY <1>1, <1>2, <1>3

LEMMA CheckDuplicateKeepsInv ==
    ASSUME Inv, NEW w \in Workers, CheckDuplicate(w)
    PROVE  Inv'
<1> DEFINE pc == IF req[w].kind = "register" THEN "insert" ELSE "old"
<1>1. req[w] \in Request /\ req[w].pc = "count"
  BY BusyTyped DEF Inv, CheckDuplicate, At
<1>2. UNCHANGED <<rows, history, replaced, granted>>
  BY DEF CheckDuplicate
<1>3. CASE Respond(w)
  BY <1>2, <1>3, RespondKeepsInv
<1>4. CASE Continue(w, [req[w] EXCEPT !.pc = pc])
  <2> DEFINE r == [req[w] EXCEPT !.pc = pc]
  <2>1. /\ r \in Request /\ r.pc = pc
        /\ r.kind = req[w].kind /\ r.id = req[w].id /\ r.by = req[w].by /\ r.row = req[w].row
    BY <1>1 DEF Request, Steps
  <2>2. req' = [req EXCEPT ![w] = r]
    BY <1>4 DEF Continue
  <2>3. r.kind \in {"register", "update"}
    BY <2>1 DEF Request
  <2> HIDE DEF r
  <2>4. TypeOK'
    BY <1>2, <2>1, <2>2 DEF Inv, TypeOK
  <2>5. RequestsFit'
    BY <1>1, <1>2, <2>1, <2>2, <2>3 DEF Inv, RequestsFit, Busy, TypeOK
  <2>6. WritesAsGranted'
    BY <1>1, <1>2, <2>1, <2>2 DEF Inv, WritesAsGranted, MayHave, Busy, TypeOK
  <2>7. ReadOnlyAsGranted'
    BY <1>2 DEF Inv, ReadOnlyAsGranted
  <2>. QED BY <2>4, <2>5, <2>6, <2>7 DEF Inv
<1>5. Respond(w) \/ Continue(w, [req[w] EXCEPT !.pc = pc])
  BY DEF CheckDuplicate
<1>. QED BY <1>3, <1>4, <1>5

LEMMA AddAttendeeKeepsInv ==
    ASSUME Inv, NEW w \in Workers, AddAttendee(w)
    PROVE  Inv'
<1> DEFINE r == req[w]
           new == Len(rows) + 1
<1>1. r \in Request /\ r.pc = "insert"
  BY BusyTyped DEF Inv, AddAttendee, At
<1>2. r.kind = "register" /\ r.row \in Row
  BY <1>1 DEF Inv, RequestsFit, Busy, Request
<1>3. r.by # Admin => r.row.choices \cap ReadOnly = Default \cap ReadOnly
  BY <1>1, <1>2 DEF Inv, WritesAsGranted, MayHave, Busy
<1>4. /\ rows' = Append(rows, r.row) /\ history' = Append(history, << >>)
      /\ replaced' = Append(replaced, {})
      /\ granted' = Append(granted, {Default \cap ReadOnly} \cup Grants(r))
      /\ req' = [req EXCEPT ![w] = Idle]
  BY DEF AddAttendee, Respond
<1> HIDE DEF r
<1>5. /\ rows' \in Seq(Row) /\ Len(rows') = new /\ DOMAIN rows' = 1 .. new
      /\ DOMAIN rows = 1 .. Len(rows) /\ Len(rows) \in Nat
      /\ rows'[new] = r.row
      /\ \A id \in DOMAIN rows : id \in DOMAIN rows' /\ rows'[id] = rows[id] /\ id # new
  BY <1>2, <1>4 DEF Inv, TypeOK
<1>6. history' \in Seq(Seq(Diff)) /\ Len(history') = new
  <2>1. << >> \in Seq(Diff)
    OBVIOUS
  <2>. QED BY <1>4, <2>1 DEF Inv, TypeOK
<1>7. replaced' \in Seq(SUBSET {OfRow(row) : row \in Row}) /\ Len(replaced') = new
  BY <1>4 DEF Inv, TypeOK
<1>8. /\ granted' \in Seq(SUBSET SUBSET ReadOnly) /\ Len(granted') = new
      /\ granted'[new] = {Default \cap ReadOnly} \cup Grants(r)
      /\ \A id \in DOMAIN rows : granted'[id] = granted[id]
  <2>1. {Default \cap ReadOnly} \cup Grants(r) \in SUBSET SUBSET ReadOnly
    BY DEF Grants
  <2>. QED BY <1>4, <1>5, <2>1 DEF Inv, TypeOK
<1>9. TypeOK'
  BY <1>4, <1>5, <1>6, <1>7, <1>8 DEF Inv, TypeOK
<1>10. RequestsFit'
  BY <1>4, <1>5 DEF Inv, RequestsFit, Busy, Idle, TypeOK
<1>11. WritesAsGranted'
  <2> SUFFICES ASSUME NEW v \in Workers, Busy(v)', req'[v].by # Admin
               PROVE  req'[v].row.choices \cap ReadOnly \in MayHave(req[v])'
    BY DEF WritesAsGranted, Busy
  <2>1. v # w /\ req'[v] = req[v] /\ Busy(v)
    BY <1>4 DEF Busy, Idle, Inv, TypeOK
  <2>2. req[v].kind = "update" => req[v].id \in DOMAIN rows
    BY <2>1 DEF Inv, RequestsFit
  <2>3. req[v].row.choices \cap ReadOnly \in MayHave(req[v])
    BY <2>1 DEF Inv, WritesAsGranted
  <2>. QED BY <1>8, <2>1, <2>2, <2>3 DEF MayHave
<1>12. ReadOnlyAsGranted'
  <2> SUFFICES ASSUME NEW id \in DOMAIN rows'
               PROVE  rows'[id].choices \cap ReadOnly \in granted'[id]
    BY DEF ReadOnlyAsGranted
  <2>1. CASE id = new
    BY <1>3, <1>5, <1>8, <2>1 DEF Grants
  <2>2. CASE id # new
    BY <1>5, <1>8, <2>2 DEF Inv, ReadOnlyAsGranted
  <2>. QED BY <2>1, <2>2
<1>. QED BY <1>9, <1>10, <1>11, <1>12 DEF Inv

LEMMA ReadOldVersionKeepsInv ==
    ASSUME Inv, NEW w \in Workers, ReadOldVersion(w)
    PROVE  Inv'
<1> DEFINE r == [req[w] EXCEPT !.old = rows[req[w].id], !.pc = "history"]
<1>1. req[w] \in Request /\ req[w].pc = "old"
  BY BusyTyped DEF Inv, ReadOldVersion, At
<1>2. req[w].kind = "update" /\ req[w].id \in DOMAIN rows
  BY <1>1 DEF Inv, RequestsFit, Busy
<1>3. rows[req[w].id] \in Row
  BY <1>2 DEF Inv, TypeOK
<1>4. /\ r \in Request /\ r.pc = "history"
      /\ r.kind = req[w].kind /\ r.id = req[w].id /\ r.by = req[w].by /\ r.row = req[w].row
  BY <1>1, <1>3 DEF Request, Steps
<1>5. req' = [req EXCEPT ![w] = r] /\ UNCHANGED <<rows, history, replaced, granted>>
  BY DEF ReadOldVersion, Continue
<1> HIDE DEF r
<1>6. TypeOK'
  BY <1>4, <1>5 DEF Inv, TypeOK
<1>7. RequestsFit'
  BY <1>2, <1>4, <1>5 DEF Inv, RequestsFit, Busy, TypeOK
<1>8. WritesAsGranted'
  BY <1>1, <1>4, <1>5 DEF Inv, WritesAsGranted, MayHave, Busy, TypeOK
<1>9. ReadOnlyAsGranted'
  BY <1>5 DEF Inv, ReadOnlyAsGranted
<1>. QED BY <1>6, <1>7, <1>8, <1>9 DEF Inv

LEMMA RecordHistoryKeepsInv ==
    ASSUME Inv, NEW w \in Workers, RecordHistory(w)
    PROVE  Inv'
<1> DEFINE r == [req[w] EXCEPT !.pc = "save"]
           id == req[w].id
           diff == diffReverse(req[w].old, req[w].row)
<1>1. req[w] \in Request /\ req[w].pc = "history"
  BY BusyTyped DEF Inv, RecordHistory, At
<1>2. req[w].kind = "update" /\ id \in DOMAIN rows
  BY <1>1 DEF Inv, RequestsFit, Busy
<1>3. diff \in Diff
  BY <1>1, DiffTyped DEF Request
<1>4. /\ r \in Request /\ r.pc = "save"
      /\ r.kind = req[w].kind /\ r.id = id /\ r.by = req[w].by /\ r.row = req[w].row
  BY <1>1 DEF Request, Steps
<1>5. /\ req' = [req EXCEPT ![w] = r] /\ UNCHANGED <<rows, replaced, granted>>
      /\ history' = [history EXCEPT ![id] = Append(history[id], diff)]
  BY DEF RecordHistory, Continue
<1> HIDE DEF r, diff, id
<1>6. history' \in Seq(Seq(Diff)) /\ Len(history') = Len(history)
  <2>1. id \in DOMAIN history /\ history[id] \in Seq(Diff)
    BY <1>2 DEF Inv, TypeOK
  <2>2. Append(history[id], diff) \in Seq(Diff)
    BY <1>3, <2>1
  <2>. QED BY <1>5, <2>1, <2>2 DEF Inv, TypeOK
<1>7. TypeOK'
  BY <1>4, <1>5, <1>6 DEF Inv, TypeOK
<1>8. RequestsFit'
  BY <1>2, <1>4, <1>5 DEF Inv, RequestsFit, Busy, TypeOK, id
<1>9. WritesAsGranted'
  BY <1>1, <1>4, <1>5 DEF Inv, WritesAsGranted, MayHave, Busy, TypeOK, id
<1>10. ReadOnlyAsGranted'
  BY <1>5 DEF Inv, ReadOnlyAsGranted
<1>. QED BY <1>7, <1>8, <1>9, <1>10 DEF Inv

LEMMA UpdateAttendeeKeepsInv ==
    ASSUME Inv, NEW w \in Workers, UpdateAttendee(w)
    PROVE  Inv'
<1> DEFINE r == req[w]
           id == req[w].id
<1>1. r \in Request /\ r.pc = "save"
  BY BusyTyped DEF Inv, UpdateAttendee, At
<1>2. r.kind = "update" /\ id \in DOMAIN rows /\ r.row \in Row
  BY <1>1 DEF Inv, RequestsFit, Busy, Request
<1>3. r.by # Admin => r.row.choices \cap ReadOnly \in granted[id]
  BY <1>1, <1>2 DEF Inv, WritesAsGranted, MayHave, Busy
<1>4. /\ rows' = [rows EXCEPT ![id] = r.row]
      /\ replaced' = [replaced EXCEPT ![id] = replaced[id] \cup {OfRow(rows[id])}]
      /\ granted' = [granted EXCEPT ![id] = granted[id] \cup Grants(r)]
      /\ req' = [req EXCEPT ![w] = Idle] /\ UNCHANGED history
  BY DEF UpdateAttendee, Respond
<1> HIDE DEF r, id
<1>5. /\ rows' \in Seq(Row) /\ Len(rows') = Len(rows) /\ DOMAIN rows' = DOMAIN rows
      /\ rows'[id] = r.row /\ \A i \in DOMAIN rows : i # id => rows'[i] = rows[i]
  BY <1>2, <1>4 DEF Inv, TypeOK
<1>6. replaced' \in Seq(SUBSET {OfRow(row) : row \in Row}) /\ Len(replaced') = Len(replaced)
  <2>1. /\ OfRow(rows[id]) \in {OfRow(row) : row \in Row} /\ id \in DOMAIN replaced
        /\ replaced[id] \in SUBSET {OfRow(row) : row \in Row}
    BY <1>2 DEF Inv, TypeOK
  <2>. QED BY <1>4, <2>1 DEF Inv, TypeOK
<1>7. /\ granted' \in Seq(SUBSET SUBSET ReadOnly) /\ Len(granted') = Len(granted)
      /\ granted'[id] = granted[id] \cup Grants(r)
      /\ \A i \in DOMAIN rows : granted[i] \subseteq granted'[i]
  <2>1. /\ id \in DOMAIN granted /\ DOMAIN granted = DOMAIN rows
        /\ granted[id] \cup Grants(r) \in SUBSET SUBSET ReadOnly
    BY <1>2 DEF Inv, TypeOK, Grants
  <2>. QED BY <1>4, <2>1 DEF Inv, TypeOK
<1>8. TypeOK'
  BY <1>4, <1>5, <1>6, <1>7 DEF Inv, TypeOK
<1>9. RequestsFit'
  BY <1>4, <1>5 DEF Inv, RequestsFit, Busy, Idle, TypeOK
<1>10. WritesAsGranted'
  <2> SUFFICES ASSUME NEW v \in Workers, Busy(v)', req'[v].by # Admin
               PROVE  req'[v].row.choices \cap ReadOnly \in MayHave(req[v])'
    BY DEF WritesAsGranted, Busy
  <2>1. v # w /\ req'[v] = req[v] /\ Busy(v)
    BY <1>4 DEF Busy, Idle, Inv, TypeOK
  <2>2. req[v].kind = "update" => req[v].id \in DOMAIN rows
    BY <2>1 DEF Inv, RequestsFit
  <2>3. req[v].row.choices \cap ReadOnly \in MayHave(req[v])
    BY <2>1 DEF Inv, WritesAsGranted
  <2>. QED BY <1>7, <2>1, <2>2, <2>3 DEF MayHave
<1>11. ReadOnlyAsGranted'
  <2> SUFFICES ASSUME NEW i \in DOMAIN rows'
               PROVE  rows'[i].choices \cap ReadOnly \in granted'[i]
    BY DEF ReadOnlyAsGranted
  <2>1. CASE i = id
    BY <1>3, <1>5, <1>7, <2>1 DEF Grants
  <2>2. CASE i # id
    BY <1>5, <1>7, <2>2 DEF Inv, ReadOnlyAsGranted
  <2>. QED BY <2>1, <2>2
<1>. QED BY <1>8, <1>9, <1>10, <1>11 DEF Inv

-----------------------------------------------------------------------------
LEMMA NextKeepsInv == Inv /\ [Next]_vars => Inv'
<1> SUFFICES ASSUME Inv, [Next]_vars PROVE Inv'
  OBVIOUS
<1>1. CASE \E w \in Workers : Arrive(w)
  BY <1>1, ArriveKeepsInv DEF Arrive
<1>2. CASE \E w \in Workers : CheckDuplicate(w)
  BY <1>2, CheckDuplicateKeepsInv
<1>3. CASE \E w \in Workers : AddAttendee(w)
  BY <1>3, AddAttendeeKeepsInv
<1>4. CASE \E w \in Workers : ReadOldVersion(w)
  BY <1>4, ReadOldVersionKeepsInv
<1>5. CASE \E w \in Workers : RecordHistory(w)
  BY <1>5, RecordHistoryKeepsInv
<1>6. CASE \E w \in Workers : UpdateAttendee(w)
  BY <1>6, UpdateAttendeeKeepsInv
<1>7. CASE \E w \in Workers : Fail(w)
  BY <1>7, RespondKeepsInv DEF Fail
<1>8. CASE UNCHANGED vars
  BY <1>8 DEF vars, Inv, TypeOK, RequestsFit, WritesAsGranted, MayHave, ReadOnlyAsGranted, Busy
<1>. QED BY <1>1, <1>2, <1>3, <1>4, <1>5, <1>6, <1>7, <1>8 DEF Next, Handle

\* Tables and requests are well typed, with any number of requests at a time.
THEOREM TypeCorrect == Spec => []TypeOK
<1>1. Inv => TypeOK
  BY DEF Inv
<1>. QED BY InitInv, NextKeepsInv, <1>1, PTL DEF Spec

\* Whatever requests interleave, the read-only choices in a row are the defaults or
\* were given to the attendee by an admin: the check against a row read earlier
\* (validate, checkNoForbiddenChanges) is enough for that.
THEOREM ReadOnlyStaysGranted == Spec => []ReadOnlyAsGranted
<1>1. Inv => ReadOnlyAsGranted
  BY DEF Inv
<1>. QED BY InitInv, NextKeepsInv, <1>1, PTL DEF Spec

-----------------------------------------------------------------------------
(***************************************************************************)
(* Requests one after the other.  What a handler has read and counted is   *)
(* then still so when it writes, and the trail of versions of an attendee, *)
(* from the row of today back through the history, loses none of them.     *)
(***************************************************************************)
OneAtATime == \A v, w \in Workers : Busy(v) /\ Busy(w) => v = w

\* What a handler knows of the tables.
Knows(r) ==
    /\ r.kind = "update" /\ r.by # Admin
          => r.row.choices \cap ReadOnly = rows[r.id].choices \cap ReadOnly
    /\ r.pc = "insert" => Holders(r.row.key) = {}
    /\ r.pc \in {"history", "save"} => r.old = rows[r.id]
    /\ r.pc = "save" => /\ history[r.id] # << >>
                        /\ history[r.id][Len(history[r.id])] = diffReverse(rows[r.id], r.row)

\* b goes from the row back through the entries of its history.
Trail(row, entries, b) ==
    b = [n \in 0 .. Len(entries) |->
            IF n = 0 THEN row ELSE Undo(entries[Len(entries) - n + 1], b[n - 1])]

\* There is a trail, and each trail comes by all the rows in old.
Recoverable(row, entries, old) ==
    /\ \E b : Trail(row, entries, b)
    /\ \A b : Trail(row, entries, b) => \A o \in old : \E n \in 0 .. Len(entries) : b[n] = o

SerialInv ==
    /\ Inv
    /\ OneAtATime
    /\ \A w \in Workers : Busy(w) => Knows(req[w])
    /\ \A id \in DOMAIN rows : Recoverable(OfRow(rows[id]), history[id], replaced[id])

\* Taking back what was recorded of a change gives the old row, be it saved or not.
LEMMA UndoDiff ==
  ASSUME NEW old \in Row, NEW new \in Row
  PROVE  /\ Undo(diffReverse(old, new), OfRow(new)) = OfRow(old)
         /\ Undo(diffReverse(old, new), OfRow(old)) = OfRow(old)
<1>. DEFINE d == diffReverse(old, new)
<1>1. /\ DOMAIN d = {c \in Historized : old[c] # new[c]}
      /\ \A c \in DOMAIN d : d[c] = old[c]
  BY DEF diffReverse
<1>. HIDE DEF d
<1>2. \A row : DOMAIN OfRow(row) = Historized /\ \A c \in Historized : OfRow(row)[c] = row[c]
  BY DEF OfRow
<1>3. \A c \in Historized : (IF c \in DOMAIN d THEN d[c] ELSE OfRow(new)[c]) = old[c]
  BY <1>1, <1>2
<1>4. \A c \in Historized : (IF c \in DOMAIN d THEN d[c] ELSE OfRow(old)[c]) = old[c]
  BY <1>1, <1>2
<1>5. Undo(d, OfRow(new)) = [c \in Historized |-> old[c]]
  BY <1>2, <1>3 DEF Undo
<1>6. Undo(d, OfRow(old)) = [c \in Historized |-> old[c]]
  BY <1>2, <1>4 DEF Undo
<1>. QED
  BY <1>5, <1>6 DEF d, OfRow

\* A new row has nothing behind it.
LEMMA NewRecoverable == \A row : Recoverable(row, << >>, {})
<1>. SUFFICES ASSUME NEW row PROVE Recoverable(row, << >>, {})
  OBVIOUS
<1>. DEFINE b == [n \in 0 .. 0 |-> row]
<1>1. b = [n \in 0 .. Len(<< >>) |->
             IF n = 0 THEN row ELSE Undo(<< >>[Len(<< >>) - n + 1], b[n - 1])]
  <2>1. Len(<< >>) = 0 /\ \A n \in 0 .. 0 : n = 0
    OBVIOUS
  <2>. QED
    BY <2>1
<1>. HIDE DEF b
<1>. QED
  BY <1>1 DEF Recoverable, Trail

\* An entry that takes back what is not yet saved makes the trail longer by a step on
\* the spot.
LEMMA RecordRecoverable ==
  ASSUME NEW row, NEW diff, Undo(diff, row) = row, NEW entries \in Seq(Diff), NEW old,
         Recoverable(row, entries, old)
  PROVE  Recoverable(row, Append(entries, diff), old)
<1>. DEFINE len == Len(entries)
            more == Append(entries, diff)
            At1(c, n) == IF n = 0 THEN row ELSE Undo(more[Len(more) - n + 1], c[n - 1])
            At0(b, n) == IF n = 0 THEN row ELSE Undo(entries[len - n + 1], b[n - 1])
<1>1. /\ len \in Nat /\ Len(more) = len + 1 /\ more[len + 1] = diff
      /\ \A i \in 1 .. len : more[i] = entries[i]
  OBVIOUS
<1>. HIDE DEF len, more
\* Both ways of stepping agree.
<1>2. ASSUME NEW b, NEW c, NEW n \in 0 .. len, \A m \in 0 .. len : c[m + 1] = b[m], c[0] = row
      PROVE  At1(c, n + 1) = At0(b, n)
  <2>1. CASE n = 0
    <3>1. (len + 1) - (0 + 1) + 1 = len + 1 /\ (0 + 1) - 1 = 0 /\ 0 + 1 # 0
      BY <1>1
    <3>2. At1(c, 0 + 1) = Undo(diff, row)
      BY <1>1, <1>2, <3>1
    <3>. QED
      BY <2>1, <3>2
  <2>2. CASE n # 0
    <3>1. /\ n + 1 # 0 /\ (len + 1) - (n + 1) + 1 = len - n + 1 /\ len - n + 1 \in 1 .. len
          /\ (n + 1) - 1 = n /\ n - 1 \in 0 .. len /\ (n - 1) + 1 = n
      BY <1>1, <2>2
    <3>2. c[n] = b[n - 1] /\ more[(len + 1) - (n + 1) + 1] = entries[len - n + 1]
      BY <1>1, <1>2, <3>1
    <3>. QED
      BY <1>1, <2>2, <3>1, <3>2
  <2>. QED
    BY <2>1, <2>2
<1>3. \E c : Trail(row, more, c)
  <2>1. PICK b : Trail(row, entries, b)
    BY DEF Recoverable
  <2>. DEFINE c == [n \in 0 .. len + 1 |-> IF n = 0 THEN row ELSE b[n - 1]]
  <2>2. /\ c = [n \in 0 .. len + 1 |-> c[n]] /\ c[0] = row /\ c[1] = b[0]
        /\ \A m \in 0 .. len : c[m + 1] = b[m]
    BY <1>1
  <2>3. b[0] = row /\ \A n \in 0 .. len : b[n] = At0(b, n)
    BY <1>1, <2>1 DEF Trail, len
  <2>. HIDE DEF c
  <2>4. ASSUME NEW n \in 0 .. len + 1
        PROVE  c[n] = At1(c, n)
    <3>1. CASE n = 0
      BY <2>2, <3>1
    <3>2. CASE n # 0
      <4>1. n - 1 \in 0 .. len /\ (n - 1) + 1 = n
        BY <1>1, <3>2
      <4>2. c[n] = At0(b, n - 1)
        BY <2>2, <2>3, <4>1
      <4>3. At1(c, n) = At0(b, n - 1)
        <5>. HIDE DEF At0, At1
        <5>. QED
          BY <1>2, <2>2, <4>1
      <4>. QED
        BY <4>2, <4>3
    <3>. QED
      BY <3>1, <3>2
  <2>5. c = [n \in 0 .. Len(more) |-> At1(c, n)]
    BY <1>1, <2>2, <2>4
  <2>. QED
    BY <2>5 DEF Trail
<1>4. ASSUME NEW c, Trail(row, more, c), NEW o \in old
      PROVE  \E n \in 0 .. Len(more) : c[n] = o
  <2>. DEFINE b == [n \in 0 .. len |-> c[n + 1]]
  <2>1. \A n \in 0 .. len + 1 : c[n] = At1(c, n)
    BY <1>1, <1>4 DEF Trail
  <2>2. c[0] = row
    BY <1>1, <2>1
  <2>4. b = [n \in 0 .. len |-> b[n]] /\ \A n \in 0 .. len : c[n + 1] = b[n]
    OBVIOUS
  <2>. HIDE DEF b
  <2>5. ASSUME NEW n \in 0 .. len
        PROVE  b[n] = At0(b, n)
    <3>1. n + 1 \in 0 .. len + 1
      BY <1>1
    <3>2. b[n] = At1(c, n + 1)
      <4>. HIDE DEF At1
      <4>. QED
        BY <2>1, <2>4, <3>1
    <3>. HIDE DEF At0, At1
    <3>. QED
      BY <1>2, <2>2, <2>4, <3>2
  <2>6. Trail(row, entries, b)
    BY <2>4, <2>5 DEF Trail, len
  <2>7. PICK n \in 0 .. len : b[n] = o
    BY <1>4, <2>6 DEF Recoverable, len
  <2>8. n + 1 \in 0 .. Len(more) /\ c[n + 1] = o
    BY <1>1, <2>4, <2>7
  <2>. QED
    BY <2>8
<1>. QED
  BY <1>3, <1>4 DEF Recoverable, more

\* Once the change is saved the first step takes it back, and the rest of the trail
\* is what it was.
LEMMA SaveRecoverable ==
  ASSUME NEW row, NEW new, NEW entries \in Seq(Diff), entries # << >>, NEW old,
         Undo(entries[Len(entries)], row) = row,
         Undo(entries[Len(entries)], new) = row,
         Recoverable(row, entries, old)
  PROVE  Recoverable(new, entries, old \cup {row})
<1>. DEFINE len == Len(entries)
            Back(from, b, n) == IF n = 0 THEN from ELSE Undo(entries[len - n + 1], b[n - 1])
            IsTrail(from, b) == b = [n \in 0 .. len |-> Back(from, b, n)]
            From(to, b) == [n \in 0 .. len |-> IF n = 0 THEN to ELSE b[n]]
<1>1. len \in Nat /\ len >= 1 /\ 0 \in 0 .. len /\ 1 \in 0 .. len /\ len - 1 + 1 = len /\ 1 - 1 = 0
  OBVIOUS
<1>2. Undo(entries[len], row) = row /\ Undo(entries[len], new) = row
  OBVIOUS
<1>. HIDE DEF len
\* A trail from either row gives one from the other by its first element.
<1>3. ASSUME NEW from, NEW to, NEW b, from \in {row, new}, to \in {row, new},
             IsTrail(from, b)
      PROVE  b[1] = row /\ IsTrail(to, From(to, b))
  <2>. DEFINE c == From(to, b)
  <2>1. \A n \in 0 .. len : b[n] = Back(from, b, n)
    BY <1>3
  <2>2. b[0] = from
    BY <1>1, <2>1
  <2>3. b[1] = row
    <3>1. b[1] = Undo(entries[len - 1 + 1], b[1 - 1])
      BY <1>1, <2>1
    <3>. QED
      BY <1>1, <1>2, <1>3, <2>2, <3>1
  <2>4. c = [n \in 0 .. len |-> c[n]] /\ c[0] = to /\ \A n \in 1 .. len : c[n] = b[n]
    BY <1>1
  <2>. HIDE DEF c
  <2>5. ASSUME NEW n \in 0 .. len
        PROVE  c[n] = Back(to, c, n)
    <3>1. CASE n = 0
      BY <2>4, <3>1
    <3>2. CASE n = 1
      <4>1. 1 \in 1 .. len
        BY <1>1
      <4>2. c[1] = row
        BY <2>3, <2>4, <4>1
      <4>3. Back(to, c, 1) = Undo(entries[len], to)
        BY <1>1, <2>4
      <4>. QED
        BY <1>2, <1>3, <3>2, <4>2, <4>3
    <3>3. CASE n \notin {0, 1}
      <4>1. n \in 1 .. len /\ n - 1 \in 1 .. len
        BY <1>1, <3>3
      <4>2. c[n] = b[n] /\ c[n - 1] = b[n - 1] /\ b[n] = Back(from, b, n)
        BY <2>1, <2>4, <4>1
      <4>. QED
        BY <3>3, <4>2
    <3>. QED
      BY <3>1, <3>2, <3>3
  <2>6. c = [n \in 0 .. len |-> Back(to, c, n)]
    <3>. HIDE DEF Back
    <3>. QED
      BY <2>4, <2>5
  <2>. QED
    BY <2>3, <2>6 DEF c
<1>4. \E c : Trail(new, entries, c)
  <2>1. PICK b : IsTrail(row, b)
    BY DEF Recoverable, Trail, len
  <2>. DEFINE c == From(new, b)
  <2>2. IsTrail(new, c)
    <3>. HIDE DEF IsTrail, From
    <3>. QED
      BY <1>3, <2>1
  <2>. HIDE DEF c
  <2>. QED
    BY <2>2 DEF Trail, len
<1>5. ASSUME NEW b, Trail(new, entries, b), NEW o \in old \cup {row}
      PROVE  \E n \in 0 .. Len(entries) : b[n] = o
  <2>1. IsTrail(new, b)
    BY <1>5 DEF Trail, len
  <2>. DEFINE c == From(row, b)
  <2>2. b[1] = row /\ IsTrail(row, c)
    <3>. HIDE DEF IsTrail, From
    <3>. QED
      BY <1>3, <2>1
  <2>3. c[0] = row /\ \A n \in 1 .. len : c[n] = b[n]
    BY <1>1
  <2>. HIDE DEF c
  <2>4. CASE o = row
    BY <1>1, <2>2, <2>4 DEF len
  <2>5. CASE o # row
    <3>1. Trail(row, entries, c)
      BY <2>2 DEF Trail, len
    <3>2. PICK n \in 0 .. len : c[n] = o
      BY <1>5, <2>5, <3>1 DEF Recoverable, len
    <3>3. n # 0
      BY <2>3, <2>5, <3>2
    <3>4. n \in 1 .. len
      BY <1>1, <3>3
    <3>. QED
      BY <2>3, <3>2, <3>4 DEF len
  <2>. QED
    BY <2>4, <2>5
<1>. QED
  BY <1>4, <1>5 DEF Recoverable

LEMMA InitSerial == Init => SerialInv
<1>. SUFFICES ASSUME Init PROVE SerialInv
  OBVIOUS
<1>1. \A w \in Workers : ~Busy(w)
  BY DEF Init, Busy, Idle
<1>2. rows = << >>
  BY DEF Init
<1>. QED
  BY <1>1, <1>2, InitInv DEF SerialInv, OneAtATime

\* The others are idle, so what is known of the tables is known to w alone.
LEMMA StepSerial ==
  ASSUME SerialInv, Inv', NEW w \in Workers, \A v \in Workers \ {w} : ~Busy(v),
         NEW r, req' = [req EXCEPT ![w] = r],
         r # Idle => Knows(r)',
         \A id \in DOMAIN rows' : Recoverable(OfRow(rows'[id]), history'[id], replaced'[id])
  PROVE  SerialInv'
<1>1. req'[w] = r /\ \A v \in Workers \ {w} : req'[v] = req[v]
  BY DEF SerialInv, Inv, TypeOK
<1>2. \A v \in Workers \ {w} : ~Busy(v)'
  BY <1>1 DEF Busy
<1>3. Busy(w)' => r # Idle
  BY <1>1 DEF Busy, Idle
<1>4. OneAtATime'
  BY <1>2 DEF OneAtATime
<1>5. ASSUME NEW v \in Workers, Busy(v)'
      PROVE  Knows(req[v])'
  <2>1. v = w
    BY <1>2, <1>5
  <2>. QED
    BY <1>1, <1>3, <1>5, <2>1 DEF Knows
<1>. QED
  BY <1>4, <1>5 DEF SerialInv

LEMMA SameTablesSerial ==
  ASSUME SerialInv, Inv', NEW w \in Workers, \A v \in Workers \ {w} : ~Busy(v),
         NEW r, req' = [req EXCEPT ![w] = r], r # Idle => Knows(r),
         UNCHANGED <<rows, history, replaced, granted>>
  PROVE  SerialInv'
<1>1. r # Idle => Knows(r)'
  BY DEF Knows, Holders
<1>2. \A id \in DOMAIN rows' : Recoverable(OfRow(rows'[id]), history'[id], replaced'[id])
  BY DEF SerialInv
<1>. QED
  BY <1>1, <1>2, StepSerial

LEMMA ArriveSerial ==
  ASSUME SerialInv, NEW w \in Workers, \A v \in Workers : ~Busy(v), Arrive(w)
  PROVE  SerialInv'
<1>1. Inv'
  BY ArriveKeepsInv DEF Arrive, SerialInv
<1>2. PICK by \in Callers, key \in Keys, choices \in SUBSET Choices, comments \in UserComments :
          \/ ReceiveRegistration(w, by, key, choices, comments)
          \/ \E id \in DOMAIN rows : ReceiveUpdate(w, id, by, key, choices, comments)
  BY DEF Arrive
<1>3. CASE ReceiveRegistration(w, by, key, choices, comments)
  <2>. DEFINE row == [key |-> key, choices |-> choices, owner |-> by, userComments |-> comments]
              r == [pc |-> "count", kind |-> "register", id |-> 0, by |-> by,
                    row |-> row, old |-> row]
  <2>1. req' = [req EXCEPT ![w] = r] /\ UNCHANGED <<rows, history, replaced, granted>>
    BY <1>3 DEF ReceiveRegistration, Continue
  <2>2. Knows(r)
    BY DEF Knows
  <2>. HIDE DEF r
  <2>. QED
    BY <1>1, <2>1, <2>2, SameTablesSerial
<1>4. CASE \E id \in DOMAIN rows : ReceiveUpdate(w, id, by, key, choices, comments)
  <2>0. PICK id \in DOMAIN rows : ReceiveUpdate(w, id, by, key, choices, comments)
    BY <1>4
  <2>. DEFINE row == [rows[id] EXCEPT !.key = key, !.choices = choices, !.userComments = comments]
              r == [pc |-> "count", kind |-> "update", id |-> id, by |-> by,
                    row |-> row, old |-> row]
  <2>1. req' = [req EXCEPT ![w] = r] /\ UNCHANGED <<rows, history, replaced, granted>>
    BY <2>0 DEF ReceiveUpdate, Continue
  <2>2. by # Admin => choices \cap ReadOnly = rows[id].choices \cap ReadOnly
    BY <2>0 DEF ReceiveUpdate, CanChangeChoiceTo, NoForbiddenChanges
  <2>3. row.choices = choices
    <3>1. rows[id] \in Row
      BY DEF SerialInv, Inv, TypeOK
    <3>. QED
      BY <3>1 DEF Row
  <2>. HIDE DEF row
  <2>4. Knows(r)
    BY <2>2, <2>3 DEF Knows
  <2>. HIDE DEF r
  <2>. QED
    BY <1>1, <2>1, <2>4, SameTablesSerial
<1>. QED
  BY <1>2, <1>3, <1>4

LEMMA RespondSerial ==
  ASSUME SerialInv, Inv', NEW w \in Workers, \A v \in Workers \ {w} : ~Busy(v), Respond(w),
         UNCHANGED <<rows, history, replaced, granted>>
  PROVE  SerialInv'
BY SameTablesSerial DEF Respond

LEMMA CheckDuplicateSerial ==
  ASSUME SerialInv, NEW w \in Workers, \A v \in Workers \ {w} : ~Busy(v), CheckDuplicate(w)
  PROVE  SerialInv'
<1>. DEFINE pc == IF req[w].kind = "register" THEN "insert" ELSE "old"
            r == [req[w] EXCEPT !.pc = pc]
<1>0. Inv'
  BY CheckDuplicateKeepsInv DEF SerialInv
<1>1. req[w] \in Request /\ Knows(req[w])
  BY BusyTyped DEF SerialInv, Inv, CheckDuplicate, At, Busy
<1>2. UNCHANGED <<rows, history, replaced, granted>>
  BY DEF CheckDuplicate
<1>3. CASE IsDuplicate(req[w])
  BY <1>0, <1>2, <1>3, RespondSerial DEF CheckDuplicate
<1>4. CASE ~IsDuplicate(req[w])
  <2>1. req' = [req EXCEPT ![w] = r]
    BY <1>4 DEF CheckDuplicate, Continue
  <2>2. /\ r.pc = pc /\ r.kind = req[w].kind /\ r.id = req[w].id
        /\ r.by = req[w].by /\ r.row = req[w].row
    BY <1>1 DEF Request
  <2>3. pc = "insert" => Holders(req[w].row.key) = {}
    <3>1. IsFiniteSet(Holders(req[w].row.key))
      <4>1. IsFiniteSet(1 .. Len(rows))
        BY FS_Interval DEF SerialInv, Inv, TypeOK
      <4>2. Holders(req[w].row.key) \in SUBSET (1 .. Len(rows))
        BY DEF Holders, SerialInv, Inv, TypeOK
      <4>. QED
        BY <4>1, <4>2, FS_Subset
    <3>2. req[w].kind = "register" => Cardinality(Holders(req[w].row.key)) = 0
      BY <1>4 DEF IsDuplicate, Expected
    <3>. QED
      BY <3>1, <3>2, FS_EmptySet
  <2>. HIDE DEF r
  <2>4. Knows(r)
    BY <1>1, <2>2, <2>3 DEF Knows
  <2>. QED
    BY <1>0, <1>2, <2>1, <2>4, SameTablesSerial
<1>. QED
  BY <1>3, <1>4

LEMMA AddAttendeeSerial ==
  ASSUME SerialInv, NEW w \in Workers, \A v \in Workers \ {w} : ~Busy(v), AddAttendee(w)
  PROVE  SerialInv'
<1>. DEFINE row == req[w].row
            new == Len(rows) + 1
<1>1. Inv'
  BY AddAttendeeKeepsInv DEF SerialInv
<1>2. req[w] \in Request
  BY BusyTyped DEF SerialInv, Inv, AddAttendee, At
<1>3. row \in Row
  BY <1>2 DEF Request
<1>4. /\ rows' = Append(rows, row) /\ history' = Append(history, << >>)
      /\ replaced' = Append(replaced, {}) /\ req' = [req EXCEPT ![w] = Idle]
  BY DEF AddAttendee, Respond
<1>. HIDE DEF row
<1>5. /\ DOMAIN rows' = DOMAIN rows \cup {new}
      /\ rows'[new] = row /\ history'[new] = << >> /\ replaced'[new] = {}
      /\ \A id \in DOMAIN rows : /\ rows'[id] = rows[id] /\ history'[id] = history[id]
                                 /\ replaced'[id] = replaced[id]
  BY <1>3, <1>4 DEF SerialInv, Inv, TypeOK
<1>6. ASSUME NEW id \in DOMAIN rows'
      PROVE  Recoverable(OfRow(rows'[id]), history'[id], replaced'[id])
  <2>1. CASE id = new
    BY <1>5, <2>1, NewRecoverable
  <2>2. CASE id # new
    BY <1>5, <2>2 DEF SerialInv
  <2>. QED
    BY <2>1, <2>2
<1>. QED
  BY <1>1, <1>4, <1>6, StepSerial

LEMMA ReadOldVersionSerial ==
  ASSUME SerialInv, NEW w \in Workers, \A v \in Workers \ {w} : ~Busy(v), ReadOldVersion(w)
  PROVE  SerialInv'
<1>. DEFINE r == [req[w] EXCEPT !.old = rows[req[w].id], !.pc = "history"]
<1>1. Inv'
  BY ReadOldVersionKeepsInv DEF SerialInv
<1>2. req[w] \in Request /\ Knows(req[w])
  BY BusyTyped DEF SerialInv, Inv, ReadOldVersion, At, Busy
<1>3. req' = [req EXCEPT ![w] = r] /\ UNCHANGED <<rows, history, replaced, granted>>
  BY DEF ReadOldVersion, Continue
<1>4. /\ r.pc = "history" /\ r.kind = req[w].kind /\ r.id = req[w].id
      /\ r.by = req[w].by /\ r.row = req[w].row /\ r.old = rows[r.id]
  BY <1>2 DEF Request
<1>. HIDE DEF r
<1>5. Knows(r)
  BY <1>2, <1>4 DEF Knows
<1>. QED
  BY <1>1, <1>3, <1>5, SameTablesSerial

LEMMA RecordHistorySerial ==
  ASSUME SerialInv, NEW w \in Workers, \A v \in Workers \ {w} : ~Busy(v), RecordHistory(w)
  PROVE  SerialInv'
<1>0. PICK r, id, diff :
          /\ r = [req[w] EXCEPT !.pc = "save"] /\ id = req[w].id
          /\ diff = diffReverse(req[w].old, req[w].row)
  OBVIOUS
<1>1. Inv'
  BY RecordHistoryKeepsInv DEF SerialInv
<1>2. req[w] \in Request /\ Knows(req[w]) /\ Busy(w) /\ req[w].pc = "history"
  BY BusyTyped DEF SerialInv, Inv, RecordHistory, At, Busy
<1>3. id \in DOMAIN rows /\ req[w].old = rows[id] /\ req[w].old \in Row /\ req[w].row \in Row
  BY <1>0, <1>2 DEF SerialInv, Inv, RequestsFit, Knows, Request
<1>4. /\ req' = [req EXCEPT ![w] = r] /\ UNCHANGED <<rows, replaced, granted>>
      /\ history' = [history EXCEPT ![id] = Append(history[id], diff)]
  BY <1>0 DEF RecordHistory, Continue
<1>5. /\ r.pc = "save" /\ r.kind = req[w].kind /\ r.id = id
      /\ r.by = req[w].by /\ r.row = req[w].row /\ r.old = req[w].old
  BY <1>0, <1>2 DEF Request
<1>6. Undo(diff, OfRow(rows[id])) = OfRow(rows[id]) /\ diff = diffReverse(rows[id], r.row)
  BY <1>0, <1>3, <1>5, UndoDiff
<1>7. id \in DOMAIN history /\ history[id] \in Seq(Diff) /\ DOMAIN history = DOMAIN rows
  BY <1>3 DEF SerialInv, Inv, TypeOK
<1>8. /\ history'[id] = Append(history[id], diff)
      /\ \A i \in DOMAIN rows \ {id} : history'[i] = history[i]
  BY <1>4, <1>7
<1>9. history'[id] # << >> /\ history'[id][Len(history'[id])] = diff
  BY <1>7, <1>8
<1>10. Knows(r)'
  BY <1>0, <1>2, <1>3, <1>4, <1>5, <1>6, <1>9 DEF Knows
<1>11. ASSUME NEW i \in DOMAIN rows'
       PROVE  Recoverable(OfRow(rows'[i]), history'[i], replaced'[i])
  <2>1. CASE i = id
    <3>1. Recoverable(OfRow(rows[id]), Append(history[id], diff), replaced[id])
      BY <1>3, <1>6, <1>7, RecordRecoverable DEF SerialInv
    <3>. QED
      BY <1>4, <1>8, <2>1, <3>1
  <2>2. CASE i # id
    BY <1>4, <1>8, <2>2 DEF SerialInv
  <2>. QED
    BY <2>1, <2>2
<1>. QED
  BY <1>1, <1>4, <1>10, <1>11, StepSerial

LEMMA UpdateAttendeeSerial ==
  ASSUME SerialInv, NEW w \in Workers, \A v \in Workers \ {w} : ~Busy(v), UpdateAttendee(w)
  PROVE  SerialInv'
<1>. DEFINE row == req[w].row
            id == req[w].id
<1>1. Inv'
  BY UpdateAttendeeKeepsInv DEF SerialInv
<1>2. req[w] \in Request /\ Knows(req[w]) /\ Busy(w) /\ req[w].pc = "save"
  BY BusyTyped DEF SerialInv, Inv, UpdateAttendee, At, Busy
<1>3. /\ id \in DOMAIN rows /\ row \in Row /\ rows[id] \in Row
      /\ history[id] # << >> /\ history[id][Len(history[id])] = diffReverse(rows[id], row)
  BY <1>2 DEF SerialInv, Inv, TypeOK, RequestsFit, Knows, Request
<1>4. /\ rows' = [rows EXCEPT ![id] = row] /\ UNCHANGED history
      /\ replaced' = [replaced EXCEPT ![id] = replaced[id] \cup {OfRow(rows[id])}]
      /\ req' = [req EXCEPT ![w] = Idle]
  BY DEF UpdateAttendee, Respond
<1>5. /\ id \in DOMAIN history /\ id \in DOMAIN replaced /\ history[id] \in Seq(Diff)
      /\ DOMAIN replaced = DOMAIN rows
  BY <1>3 DEF SerialInv, Inv, TypeOK
<1>. HIDE DEF row, id
<1>6. ASSUME NEW i \in DOMAIN rows'
      PROVE  Recoverable(OfRow(rows'[i]), history'[i], replaced'[i])
  <2>1. CASE i = id
    <3>1. /\ Undo(history[id][Len(history[id])], OfRow(rows[id])) = OfRow(rows[id])
          /\ Undo(history[id][Len(history[id])], OfRow(row)) = OfRow(rows[id])
      BY <1>3, UndoDiff
    <3>2. Recoverable(OfRow(row), history[id], replaced[id] \cup {OfRow(rows[id])})
      BY <1>3, <1>5, <3>1, SaveRecoverable DEF SerialInv
    <3>. QED
      BY <1>3, <1>4, <1>5, <2>1, <3>2
  <2>2. CASE i # id
    BY <1>4, <1>5, <2>2 DEF SerialInv
  <2>. QED
    BY <2>1, <2>2
<1>. QED
  BY <1>1, <1>4, <1>6, StepSerial

\* A request that arrives leaves the table alone.
LEMMA ArriveKeepsRows ==
  ASSUME NEW w \in Workers, Arrive(w)
  PROVE  rows' = rows
<1>1. \A by \in Callers, key \in Keys, choices \in SUBSET Choices, comments \in UserComments :
         ReceiveRegistration(w, by, key, choices, comments) => rows' = rows
  BY DEF ReceiveRegistration
<1>2. \A by \in Callers, key \in Keys, choices \in SUBSET Choices, comments \in UserComments :
         \A id \in DOMAIN rows :
            ReceiveUpdate(w, id, by, key, choices, comments) => rows' = rows
  BY DEF ReceiveUpdate
<1>. QED
  BY <1>1, <1>2, Zenon DEF Arrive

\* While a request is handled, the others are idle.
LEMMA HandledAlone ==
  ASSUME SerialInv, NEW w \in Workers, Handle(w)
  PROVE  \A v \in Workers \ {w} : ~Busy(v)
<1>1. Busy(w)
  BY DEF Handle, CheckDuplicate, AddAttendee, ReadOldVersion, RecordHistory,
         UpdateAttendee, Fail, At, Busy
<1>. QED
  BY <1>1 DEF SerialInv, OneAtATime

LEMMA NextSerial == SerialInv /\ [SerialNext]_vars => SerialInv'
<1>. SUFFICES ASSUME SerialInv, [SerialNext]_vars PROVE SerialInv'
  OBVIOUS
<1>1. ASSUME NEW w \in Workers, \A v \in Workers : ~Busy(v), Arrive(w) PROVE SerialInv'
  BY <1>1, ArriveSerial
<1>2. ASSUME NEW w \in Workers, Handle(w) PROVE SerialInv'
  <2>1. \A v \in Workers \ {w} : ~Busy(v)
    BY <1>2, HandledAlone
  <2>2. CASE Fail(w)
    BY <2>1, <2>2, RespondSerial, RespondKeepsInv DEF Fail, SerialInv
  <2>. QED
    BY <1>2, <2>1, <2>2, CheckDuplicateSerial, AddAttendeeSerial, ReadOldVersionSerial,
       RecordHistorySerial, UpdateAttendeeSerial DEF Handle
<1>3. CASE UNCHANGED vars
  <2>1. Inv'
    BY <1>3, NextKeepsInv DEF SerialInv
  <2>. QED
    BY <1>3, <2>1 DEF vars, SerialInv, OneAtATime, Knows, Holders, Busy
<1>. QED
  BY <1>1, <1>2, <1>3 DEF SerialNext

LEMMA SerialInvariant == SerialSpec => []SerialInv
  BY InitSerial, NextSerial, PTL DEF SerialSpec

\* With requests one after the other, every row that was overwritten can be had back
\* from the row of today and the history, however many updates were cut off between
\* the history entry and the row: taking such an entry back changes nothing.
THEOREM ReplacedRowsAreInHistory == SerialSpec => []ReplacedRowsInHistory
<1>1. SerialInv => ReplacedRowsInHistory
  <2>. SUFFICES ASSUME SerialInv, NEW id \in DOMAIN rows PROVE replaced[id] \subseteq Versions(id)
    BY DEF ReplacedRowsInHistory
  <2>. DEFINE len == Len(history[id])
              Back(b) == [n \in 0 .. len |->
                            IF n = 0 THEN OfRow(rows[id])
                            ELSE Undo(history[id][len - n + 1], b[n - 1])]
              before == CHOOSE b : b = Back(b)
  <2>1. Recoverable(OfRow(rows[id]), history[id], replaced[id])
    BY DEF SerialInv
  <2>2. before = Back(before)
    <3>1. \E b : b = Back(b)
      BY <2>1 DEF Recoverable, Trail
    <3>. HIDE DEF Back
    <3>. QED
      BY <3>1
  <2>3. \A o \in replaced[id] : \E n \in 0 .. len : before[n] = o
    <3>1. Trail(OfRow(rows[id]), history[id], before)
      BY <2>2 DEF Trail
    <3>. HIDE DEF before
    <3>. QED
      BY <2>1, <3>1 DEF Recoverable
  <2>4. Versions(id) = {before[n] : n \in 0 .. len}
    BY DEF Versions
  <2>. QED
    BY <2>3, <2>4
<1>. QED
  BY <1>1, SerialInvariant, PTL

\* No registration that finds no row with its key counted ends in a second one.
THEOREM RegisteredJustOnce == SerialSpec => RegisteredOnce
<1>1. SerialInv /\ [SerialNext]_vars
        => [\A id \in DOMAIN rows' \ DOMAIN rows : Holders(rows'[id].key) = {}]_vars
  <2>. SUFFICES ASSUME SerialInv, SerialNext, NEW id \in DOMAIN rows' \ DOMAIN rows
       PROVE  Holders(rows'[id].key) = {}
    BY DEF vars
  <2>1. PICK w \in Workers : AddAttendee(w)
    <3>1. ASSUME NEW w \in Workers, Arrive(w) \/ Handle(w), ~AddAttendee(w)
          PROVE  DOMAIN rows' = DOMAIN rows
      BY <3>1, ArriveKeepsRows DEF Handle, CheckDuplicate, ReadOldVersion, RecordHistory,
                                   UpdateAttendee, Fail, SerialInv, Inv, TypeOK
    <3>. QED
      BY <3>1 DEF SerialNext
  <2>2. req[w].pc = "insert" /\ Knows(req[w]) /\ req[w] \in Request
    BY <2>1, BusyTyped DEF AddAttendee, At, Busy, SerialInv, Inv
  <2>3. rows'[id] = req[w].row
    <3>1. rows' = Append(rows, req[w].row) /\ rows \in Seq(Row) /\ req[w].row \in Row
      BY <2>1, <2>2 DEF AddAttendee, SerialInv, Inv, TypeOK, Request
    <3>2. id = Len(rows) + 1
      BY <3>1
    <3>. QED
      BY <3>1, <3>2
  <2>. QED
    BY <2>2, <2>3 DEF Knows
<1>. QED
  BY <1>1, SerialInvariant, PTL DEF SerialSpec, RegisteredOnce

\* A read-only choice changes only by a request of an admin, also where an admin has
\* written the row before.
THEOREM ReadOnlyIsForAdmins == SerialSpec => ReadOnlyChangedByAdmin
<1>1. SerialInv /\ [SerialNext]_vars
        => [\A id \in DOMAIN rows :
              rows'[id].choices \cap ReadOnly # rows[id].choices \cap ReadOnly
                 => \E w \in Workers : req[w] # req'[w] /\ req[w].by = Admin]_vars
  <2>. SUFFICES ASSUME SerialInv, SerialNext, NEW id \in DOMAIN rows,
                       rows'[id].choices \cap ReadOnly # rows[id].choices \cap ReadOnly
       PROVE  \E w \in Workers : req[w] # req'[w] /\ req[w].by = Admin
    BY DEF vars
  <2>1. PICK w \in Workers : UpdateAttendee(w)
    <3>1. ASSUME NEW w \in Workers, Arrive(w) \/ Handle(w), ~UpdateAttendee(w)
          PROVE  rows'[id] = rows[id]
      <4>1. CASE AddAttendee(w)
        <5>1. req[w] \in Request
          BY <4>1, BusyTyped DEF AddAttendee, At, SerialInv, Inv
        <5>2. rows' = Append(rows, req[w].row) /\ rows \in Seq(Row) /\ req[w].row \in Row
          BY <4>1, <5>1 DEF AddAttendee, SerialInv, Inv, TypeOK, Request
        <5>. QED
          BY <5>2
      <4>2. CASE ~AddAttendee(w)
        BY <3>1, <4>2, ArriveKeepsRows DEF Handle, CheckDuplicate, ReadOldVersion,
                                           RecordHistory, Fail
      <4>. QED
        BY <4>1, <4>2
    <3>. QED
      BY <3>1 DEF SerialNext
  <2>2. /\ req[w].pc = "save" /\ Busy(w) /\ Knows(req[w]) /\ req[w] \in Request
        /\ req[w].kind = "update"
    BY <2>1, BusyTyped DEF UpdateAttendee, At, Busy, SerialInv, Inv, RequestsFit
  <2>3. rows' = [rows EXCEPT ![req[w].id] = req[w].row] /\ req'[w] = Idle
    BY <2>1 DEF UpdateAttendee, Respond, SerialInv, Inv, TypeOK
  <2>4. id = req[w].id /\ rows'[id] = req[w].row
    BY <2>3 DEF SerialInv, Inv, TypeOK
  <2>5. req[w].by = Admin
    BY <2>2, <2>4 DEF Knows
  <2>6. req[w] # req'[w]
    BY <2>2, <2>3 DEF Busy, Idle
  <2>. QED
    BY <2>5, <2>6
<1>. QED
  BY <1>1, SerialInvariant, PTL DEF SerialSpec, ReadOnlyChangedByAdmin
=============================================================================
