-------------------------- MODULE Databases_proofs --------------------------
(***************************************************************************)
(* What holds of both databases and the historizing repository for any     *)
(* rows, any collation and any interleaving of requests: that a version    *)
(* that is overwritten is in the history, that users own their             *)
(* registrations and nobody any, and that either of them implements        *)
(* Repository.                                                             *)
(***************************************************************************)
EXTENDS Databases, LoopLemmas, TLAPS

Ids == Nat \ {0}
Maps(S) == UNION {[D -> S] : D \in SUBSET Ids}
Kind(entity) == IF entity = "Attendee" THEN Rows ELSE Infos
HistoryEntries == [entity : {"Attendee", "AdminInfo"}, entityId : Ids,
             diff : {diffReverse(old, new) : old \in Objects, new \in Objects}]

\* The parts of either database that these proofs look at, and where its numbers end.
MysqlFits(d) ==
    /\ DOMAIN d = {"attendees", "adminInfo", "status_changes", "histories"}
    /\ d.attendees \in Seq(Rows)
    /\ d.adminInfo \in Maps(Infos)
    /\ d.histories \in Seq(HistoryEntries)

MemoryFits(d) ==
    /\ DOMAIN d = {"attendees", "adminInfo", "statusChanges", "history", "idSequence"}
    /\ d.attendees \in Maps(Rows)
    /\ d.adminInfo \in Maps(Infos)
    /\ d.history \in Maps(HistoryEntries)
    /\ d.idSequence \in Nat
    /\ \A id \in DOMAIN d.attendees \cup DOMAIN d.history : id <= d.idSequence

AdminInfoIn(d, id) == IF id \in DOMAIN d.adminInfo THEN d.adminInfo[id] ELSE NoInfo

DbFits ==
    /\ database \in {"inmemory", "mysql"}
    /\ IF IsMysql THEN MysqlFits(db) ELSE MemoryFits(db)

\* A handler works on a copy, and on an attendee that exists.
RequestFits(r, ids) ==
    \/ r = Idle
    \/ /\ r \in Request
       /\ ~r.shared
       /\ r.id \in ids
       /\ r.object \in Kind(r.entity)
       /\ r.pc \in {"history", "save"} => r.old \in Kind(r.entity)

\* What is about to be overwritten, as it was read, is in the history.
Undoable(r, entries) ==
    \E h \in entries :
        /\ h.entity = r.entity /\ h.entityId = r.id
        /\ SameButComments(Undo(r.object, h.diff), r.old)

Fits ==
    /\ DbFits
    /\ DOMAIN req = Workers
    /\ \A w \in Workers : /\ RequestFits(req[w], Attendees)
                          /\ At(w, "save") => Undoable(req[w], Range(History))

-----------------------------------------------------------------------------
LEMMA WithIsMap ==
    ASSUME NEW S, NEW f \in Maps(S), NEW k \in Ids, NEW v \in S
    PROVE  InMemory!With(f, k, v) \in Maps(S)
<1>1. PICK D \in SUBSET Ids : f \in [D -> S]
  BY DEF Maps
<1>2. InMemory!With(f, k, v) \in [D \cup {k} -> S]
  BY <1>1 DEF InMemory!With
<1>3. D \cup {k} \in SUBSET Ids
  OBVIOUS
<1> QED BY <1>2, <1>3 DEF Maps

LEMMA SaveIsWith ==
    ASSUME NEW f, NEW k, NEW v
    PROVE  Mysql!Save(f, k, v) = InMemory!With(f, k, v)
BY DEF Mysql!Save, InMemory!With

LEMMA EmptyIsMap == ASSUME NEW S PROVE [id \in {} |-> NoInfo] \in Maps(S)
<1>1. [id \in {} |-> NoInfo] \in [{} -> S] /\ {} \in SUBSET Ids
  OBVIOUS
<1> QED BY <1>1 DEF Maps

LEMMA DiffCanBeUndone ==
    ASSUME NEW entity, NEW old \in Kind(entity), NEW new \in Kind(entity)
    PROVE  SameButComments(Undo(new, diffReverse(old, new)), old)
<1>1. DOMAIN old = DOMAIN new
  BY ColumnAssumption DEF Kind
<1> QED BY <1>1 DEF SameButComments, Undo, diffReverse, Restrict

LEMMA MoreFits ==
    ASSUME NEW r, NEW ids, NEW more, ids \subseteq more, RequestFits(r, ids)
    PROVE  RequestFits(r, more)
BY DEF RequestFits

LEMMA MoreUndoable ==
    ASSUME NEW r, NEW entries, NEW more, entries \subseteq more, Undoable(r, entries)
    PROVE  Undoable(r, more)
BY DEF Undoable

\* The answers that handlers and the historizing repository work with.
LEMMA Answers ==
    ASSUME DbFits
    PROVE  /\ Attendees \subseteq Ids
           /\ \A id \in Attendees : /\ GetAttendeeById(id) = [row |-> db.attendees[id], shared |-> FALSE]
                                    /\ db.attendees[id] \in Rows
           /\ \A id : GetAdminInfo(id) = AdminInfoIn(db, id)
           /\ \A id : GetAdminInfo(id) \in Infos
<1>1. \A id : GetAttendeeById(id) = [row |-> db.attendees[id], shared |-> FALSE]
  BY DEF GetAttendeeById, Mysql!GetAttendeeById, InMemory!GetAttendeeById
<1>2. \A id : GetAdminInfo(id) = AdminInfoIn(db, id)
  BY DEF AdminInfoIn, GetAdminInfo, Mysql!GetAdminInfoByAttendeeId, InMemory!GetAdminInfoByAttendeeId
<1>3. db.adminInfo \in Maps(Infos)
  BY DEF DbFits, MysqlFits, MemoryFits
<1>4. \A id : GetAdminInfo(id) \in Infos
  BY <1>2, <1>3, ColumnAssumption DEF Maps, AdminInfoIn
<1>5. Attendees \subseteq Ids /\ \A id \in Attendees : db.attendees[id] \in Rows
  <2>1. CASE IsMysql
    BY <2>1 DEF DbFits, MysqlFits, Attendees, Ids
  <2>2. CASE ~IsMysql
    BY <2>2 DEF DbFits, MemoryFits, Attendees, Maps
  <2> QED BY <2>1, <2>2
<1> QED BY <1>1, <1>2, <1>4, <1>5

-----------------------------------------------------------------------------
LEMMA MemoryAddAttendee ==
    ASSUME NEW d, MemoryFits(d), NEW row \in Rows,
           NEW e, e = InMemory!AddAttendee(d, row)
    PROVE  /\ MemoryFits(e)
           /\ DOMAIN d.attendees \subseteq DOMAIN e.attendees
           /\ \A id \in DOMAIN d.attendees : e.attendees[id] = d.attendees[id]
           /\ e.adminInfo = d.adminInfo /\ e.history = d.history
<1> DEFINE newId == d.idSequence + 1
<1>1. newId \in Ids /\ newId \notin DOMAIN d.attendees
  BY DEF MemoryFits, Ids
<1>2. /\ e.attendees = InMemory!With(d.attendees, newId, row)
      /\ e.adminInfo = d.adminInfo /\ e.history = d.history /\ e.idSequence = newId
      /\ DOMAIN e = DOMAIN d
  BY DEF MemoryFits, InMemory!AddAttendee
<1> HIDE DEF newId
<1>3. d.attendees \in Maps(Rows)
  BY DEF MemoryFits
<1>4. /\ e.attendees \in Maps(Rows) /\ DOMAIN e.attendees = DOMAIN d.attendees \cup {newId}
      /\ \A x \in DOMAIN d.attendees : e.attendees[x] = d.attendees[x]
  <2>1. InMemory!With(d.attendees, newId, row) \in Maps(Rows)
    BY <1>1, <1>3, WithIsMap, Zenon
  <2> QED BY <1>1, <1>2, <2>1 DEF InMemory!With
<1>5. \A id \in DOMAIN e.attendees \cup DOMAIN e.history : id <= e.idSequence
  <2>1. /\ d.idSequence \in Nat
        /\ \A id \in DOMAIN d.attendees \cup DOMAIN d.history : id \in Nat /\ id <= d.idSequence
    BY DEF MemoryFits, Maps, Ids
  <2> QED BY <1>2, <1>4, <2>1 DEF newId
<1> QED BY <1>1, <1>2, <1>4, <1>5 DEF MemoryFits, Ids, newId

LEMMA MemoryRecordHistory ==
    ASSUME NEW d, MemoryFits(d), NEW h \in HistoryEntries,
           NEW e, e = InMemory!RecordHistory(d, h)
    PROVE  /\ MemoryFits(e)
           /\ e.attendees = d.attendees /\ e.adminInfo = d.adminInfo
           /\ Range(d.history) \cup {h} \subseteq Range(e.history)
<1> DEFINE newId == d.idSequence + 1
<1>1. newId \in Ids /\ newId \notin DOMAIN d.history
  BY DEF MemoryFits, Ids
<1>2. /\ e.history = InMemory!With(d.history, newId, h)
      /\ e.adminInfo = d.adminInfo /\ e.attendees = d.attendees /\ e.idSequence = newId
      /\ DOMAIN e = DOMAIN d
  BY DEF MemoryFits, InMemory!RecordHistory
<1> HIDE DEF newId
<1>3. d.history \in Maps(HistoryEntries)
  BY DEF MemoryFits
<1>4. /\ e.history \in Maps(HistoryEntries) /\ DOMAIN e.history = DOMAIN d.history \cup {newId}
      /\ \A x \in DOMAIN d.history : e.history[x] = d.history[x]
      /\ e.history[newId] = h
  <2>1. InMemory!With(d.history, newId, h) \in Maps(HistoryEntries)
    BY <1>1, <1>3, WithIsMap, Zenon
  <2> QED BY <1>1, <1>2, <2>1 DEF InMemory!With
<1>5. \A id \in DOMAIN e.attendees \cup DOMAIN e.history : id <= e.idSequence
  <2>1. /\ d.idSequence \in Nat
        /\ \A id \in DOMAIN d.attendees \cup DOMAIN d.history : id \in Nat /\ id <= d.idSequence
    BY DEF MemoryFits, Maps, Ids
  <2> QED BY <1>2, <1>4, <2>1 DEF newId
<1>6. Range(d.history) \cup {h} \subseteq Range(e.history)
  BY <1>4 DEF Range
<1> QED BY <1>1, <1>2, <1>4, <1>5, <1>6 DEF MemoryFits, Ids, newId

LEMMA MemoryUpdateAttendee ==
    ASSUME NEW d, MemoryFits(d), NEW id \in DOMAIN d.attendees, NEW row \in Rows,
           NEW e, e = InMemory!UpdateAttendee(d, id, row)
    PROVE  /\ MemoryFits(e)
           /\ DOMAIN e.attendees = DOMAIN d.attendees
           /\ \A x \in DOMAIN d.attendees : e.attendees[x] = IF x = id THEN row ELSE d.attendees[x]
           /\ e.adminInfo = d.adminInfo /\ e.history = d.history
<1>1. /\ e.attendees = InMemory!With(d.attendees, id, row)
      /\ e.adminInfo = d.adminInfo /\ e.history = d.history /\ e.idSequence = d.idSequence
      /\ DOMAIN e = DOMAIN d
  BY DEF MemoryFits, InMemory!UpdateAttendee
<1>2. d.attendees \in Maps(Rows) /\ id \in Ids
  BY DEF MemoryFits, Maps
<1>3. InMemory!With(d.attendees, id, row) \in Maps(Rows)
  BY <1>2, WithIsMap, Zenon
<1>4. DOMAIN e.attendees = DOMAIN d.attendees
  BY <1>1 DEF InMemory!With
<1>5. MemoryFits(e)
  BY <1>1, <1>3, <1>4 DEF MemoryFits
<1> QED BY <1>1, <1>4, <1>5 DEF InMemory!With

LEMMA MemoryWriteAdminInfo ==
    ASSUME NEW d, MemoryFits(d), NEW id \in Ids, NEW info \in Infos,
           NEW e, e = InMemory!WriteAdminInfo(d, id, info)
    PROVE  /\ MemoryFits(e)
           /\ \A x : AdminInfoIn(e, x) = IF x = id THEN info ELSE AdminInfoIn(d, x)
           /\ e.attendees = d.attendees /\ e.history = d.history
<1>1. /\ e.adminInfo = InMemory!With(d.adminInfo, id, info)
      /\ e.attendees = d.attendees /\ e.history = d.history /\ e.idSequence = d.idSequence
      /\ DOMAIN e = DOMAIN d
  BY DEF MemoryFits, InMemory!WriteAdminInfo, Ids
<1>2. d.adminInfo \in Maps(Infos)
  BY DEF MemoryFits
<1>3. InMemory!With(d.adminInfo, id, info) \in Maps(Infos)
  BY <1>2, WithIsMap, Zenon
<1>4. MemoryFits(e)
  BY <1>1, <1>3 DEF MemoryFits
<1> QED BY <1>1, <1>4 DEF InMemory!With, AdminInfoIn

LEMMA MemoryAddStatusChange ==
    ASSUME NEW d, MemoryFits(d), NEW id, NEW status,
           NEW e, e = InMemory!AddStatusChange(d, id, status)
    PROVE  /\ MemoryFits(e)
           /\ e.attendees = d.attendees /\ e.adminInfo = d.adminInfo /\ e.history = d.history
<1>1. /\ e.adminInfo = d.adminInfo /\ e.attendees = d.attendees
      /\ e.history = d.history /\ e.idSequence = d.idSequence /\ DOMAIN e = DOMAIN d
  BY DEF MemoryFits, InMemory!AddStatusChange
<1> QED BY <1>1 DEF MemoryFits

-----------------------------------------------------------------------------
LEMMA MysqlAddAttendee ==
    ASSUME NEW d, MysqlFits(d), NEW row \in Rows, NEW e, e = Mysql!AddAttendee(d, row)
    PROVE  /\ MysqlFits(e)
           /\ DOMAIN d.attendees \subseteq DOMAIN e.attendees
           /\ \A id \in DOMAIN d.attendees : e.attendees[id] = d.attendees[id]
           /\ e.adminInfo = d.adminInfo /\ e.histories = d.histories
<1>1. /\ e.attendees = Append(d.attendees, row)
      /\ e.adminInfo = d.adminInfo /\ e.histories = d.histories /\ DOMAIN e = DOMAIN d
  BY DEF MysqlFits, Mysql!AddAttendee, Mysql!Create
<1>2. d.attendees \in Seq(Rows)
  BY DEF MysqlFits
<1>3. /\ e.attendees \in Seq(Rows)
      /\ DOMAIN d.attendees \subseteq DOMAIN e.attendees
      /\ \A id \in DOMAIN d.attendees : e.attendees[id] = d.attendees[id]
  BY <1>1, <1>2
<1> QED BY <1>1, <1>3 DEF MysqlFits

LEMMA MysqlRecordHistory ==
    ASSUME NEW d, MysqlFits(d), NEW h \in HistoryEntries, NEW e, e = Mysql!RecordHistory(d, h)
    PROVE  /\ MysqlFits(e)
           /\ e.attendees = d.attendees /\ e.adminInfo = d.adminInfo
           /\ Range(d.histories) \cup {h} \subseteq Range(e.histories)
<1>1. /\ e.histories = Append(d.histories, h)
      /\ e.adminInfo = d.adminInfo /\ e.attendees = d.attendees /\ DOMAIN e = DOMAIN d
  BY DEF MysqlFits, Mysql!RecordHistory, Mysql!Create
<1>2. d.histories \in Seq(HistoryEntries)
  BY DEF MysqlFits
<1>3. /\ e.histories \in Seq(HistoryEntries)
      /\ DOMAIN d.histories \subseteq DOMAIN e.histories
      /\ \A i \in DOMAIN d.histories : e.histories[i] = d.histories[i]
      /\ Len(d.histories) + 1 \in DOMAIN e.histories
      /\ e.histories[Len(d.histories) + 1] = h
  BY <1>1, <1>2
<1>4. Range(d.histories) \cup {h} \subseteq Range(e.histories)
  BY <1>3 DEF Range
<1> QED BY <1>1, <1>3, <1>4 DEF MysqlFits

LEMMA MysqlUpdateAttendee ==
    ASSUME NEW d, MysqlFits(d), NEW id \in DOMAIN d.attendees, NEW row \in Rows,
           NEW e, e = Mysql!UpdateAttendee(d, id, row)
    PROVE  /\ MysqlFits(e)
           /\ DOMAIN e.attendees = DOMAIN d.attendees
           /\ \A x \in DOMAIN d.attendees : e.attendees[x] = IF x = id THEN row ELSE d.attendees[x]
           /\ e.adminInfo = d.adminInfo /\ e.histories = d.histories
<1>1. /\ e.attendees = Mysql!Save(d.attendees, id, row)
      /\ e.adminInfo = d.adminInfo /\ e.histories = d.histories /\ DOMAIN e = DOMAIN d
  BY DEF MysqlFits, Mysql!UpdateAttendee
<1>2. d.attendees \in Seq(Rows)
  BY DEF MysqlFits
<1>3. Mysql!Save(d.attendees, id, row) = [d.attendees EXCEPT ![id] = row]
  BY <1>2 DEF Mysql!Save
<1>4. /\ e.attendees \in Seq(Rows) /\ DOMAIN e.attendees = DOMAIN d.attendees
      /\ \A x \in DOMAIN d.attendees : e.attendees[x] = IF x = id THEN row ELSE d.attendees[x]
  BY <1>1, <1>2, <1>3
<1> QED BY <1>1, <1>4 DEF MysqlFits

LEMMA MysqlWriteAdminInfo ==
    ASSUME NEW d, MysqlFits(d), NEW id \in Ids, NEW info \in Infos,
           NEW e, e = Mysql!WriteAdminInfo(d, id, info)
    PROVE  /\ MysqlFits(e)
           /\ \A x : AdminInfoIn(e, x) = IF x = id THEN info ELSE AdminInfoIn(d, x)
           /\ e.attendees = d.attendees /\ e.histories = d.histories
<1>1. /\ e.adminInfo = InMemory!With(d.adminInfo, id, info)
      /\ e.attendees = d.attendees /\ e.histories = d.histories /\ DOMAIN e = DOMAIN d
  BY SaveIsWith DEF MysqlFits, Mysql!WriteAdminInfo
<1>2. d.adminInfo \in Maps(Infos)
  BY DEF MysqlFits
<1>3. InMemory!With(d.adminInfo, id, info) \in Maps(Infos)
  BY <1>2, WithIsMap, Zenon
<1>4. MysqlFits(e)
  BY <1>1, <1>3 DEF MysqlFits
<1> QED BY <1>1, <1>4 DEF InMemory!With, AdminInfoIn

LEMMA MysqlAddStatusChange ==
    ASSUME NEW d, MysqlFits(d), NEW id, NEW status,
           NEW e, e = Mysql!AddStatusChange(d, id, status)
    PROVE  /\ MysqlFits(e)
           /\ e.attendees = d.attendees /\ e.adminInfo = d.adminInfo /\ e.histories = d.histories
<1>1. /\ e.adminInfo = d.adminInfo /\ e.attendees = d.attendees
      /\ e.histories = d.histories /\ DOMAIN e = DOMAIN d
  BY DEF MysqlFits, Mysql!AddStatusChange
<1> QED BY <1>1 DEF MysqlFits

-----------------------------------------------------------------------------
\* What a step makes of the database, seen through the repository that is configured.
LEMMA AddAttendeeFits ==
    ASSUME DbFits, NEW row \in Rows, AddAttendee(row)
    PROVE  /\ DbFits'
           /\ Attendees \subseteq Attendees'
           /\ \A id \in Attendees : db'.attendees[id] = db.attendees[id]
           /\ db'.adminInfo = db.adminInfo /\ History' = History
<1>1. CASE IsMysql
  <2>1. MysqlFits(db) /\ db' = Mysql!AddAttendee(db, row) /\ database' = database
    BY <1>1 DEF DbFits, AddAttendee
  <2>2. /\ MysqlFits(db')
        /\ DOMAIN db.attendees \subseteq DOMAIN db'.attendees
        /\ \A id \in DOMAIN db.attendees : db'.attendees[id] = db.attendees[id]
        /\ db'.adminInfo = db.adminInfo /\ db'.histories = db.histories
    BY <2>1, MysqlAddAttendee
  <2> QED BY <1>1, <2>1, <2>2 DEF DbFits, Attendees, History, IsMysql
<1>2. CASE ~IsMysql
  <2>1. MemoryFits(db) /\ db' = InMemory!AddAttendee(db, row) /\ database' = database
    BY <1>2 DEF DbFits, AddAttendee
  <2>2. /\ MemoryFits(db')
        /\ DOMAIN db.attendees \subseteq DOMAIN db'.attendees
        /\ \A id \in DOMAIN db.attendees : db'.attendees[id] = db.attendees[id]
        /\ db'.adminInfo = db.adminInfo /\ db'.history = db.history
    BY <2>1, MemoryAddAttendee
  <2> QED BY <1>2, <2>1, <2>2 DEF DbFits, Attendees, History, IsMysql
<1> QED BY <1>1, <1>2

LEMMA AddStatusChangeFits ==
    ASSUME DbFits, NEW id, NEW status, AddStatusChange(id, status)
    PROVE  /\ DbFits' /\ db'.attendees = db.attendees
           /\ db'.adminInfo = db.adminInfo /\ History' = History
<1>1. CASE IsMysql
  <2>1. MysqlFits(db) /\ db' = Mysql!AddStatusChange(db, id, status) /\ database' = database
    BY <1>1 DEF DbFits, AddStatusChange
  <2>2. /\ MysqlFits(db') /\ db'.attendees = db.attendees
        /\ db'.adminInfo = db.adminInfo /\ db'.histories = db.histories
    BY <2>1, MysqlAddStatusChange
  <2> QED BY <1>1, <2>1, <2>2 DEF DbFits, History, IsMysql
<1>2. CASE ~IsMysql
  <2>1. MemoryFits(db) /\ db' = InMemory!AddStatusChange(db, id, status) /\ database' = database
    BY <1>2 DEF DbFits, AddStatusChange
  <2>2. /\ MemoryFits(db') /\ db'.attendees = db.attendees
        /\ db'.adminInfo = db.adminInfo /\ db'.history = db.history
    BY <2>1, MemoryAddStatusChange
  <2> QED BY <1>2, <2>1, <2>2 DEF DbFits, History, IsMysql
<1> QED BY <1>1, <1>2

LEMMA RecordHistoryFits ==
    ASSUME DbFits, NEW w, RecordHistory(w),
           NEW h \in HistoryEntries,
           h = [entity |-> req[w].entity, entityId |-> req[w].id,
                diff |-> diffReverse(req[w].old, req[w].object)]
    PROVE  /\ DbFits' /\ db'.attendees = db.attendees /\ db'.adminInfo = db.adminInfo
           /\ Range(History) \cup {h} \subseteq Range(History')
<1>1. CASE IsMysql
  <2>1. MysqlFits(db) /\ db' = Mysql!RecordHistory(db, h) /\ database' = database
    BY <1>1 DEF DbFits, RecordHistory
  <2>2. /\ MysqlFits(db') /\ db'.attendees = db.attendees /\ db'.adminInfo = db.adminInfo
        /\ Range(db.histories) \cup {h} \subseteq Range(db'.histories)
    BY <2>1, MysqlRecordHistory
  <2> QED BY <1>1, <2>1, <2>2 DEF DbFits, History, IsMysql
<1>2. CASE ~IsMysql
  <2>1. MemoryFits(db) /\ db' = InMemory!RecordHistory(db, h) /\ database' = database
    BY <1>2 DEF DbFits, RecordHistory
  <2>2. /\ MemoryFits(db') /\ db'.attendees = db.attendees /\ db'.adminInfo = db.adminInfo
        /\ Range(db.history) \cup {h} \subseteq Range(db'.history)
    BY <2>1, MemoryRecordHistory
  <2> QED BY <1>2, <2>1, <2>2 DEF DbFits, History, IsMysql
<1> QED BY <1>1, <1>2

LEMMA UpdateAttendeeFits ==
    ASSUME DbFits, NEW w, UpdateAttendee(w), NEW id \in Attendees, id = req[w].id,
           NEW row \in Rows, row = req[w].object
    PROVE  /\ DbFits'
           /\ Attendees' = Attendees
           /\ \A x \in Attendees : db'.attendees[x] = IF x = id THEN row ELSE db.attendees[x]
           /\ db'.adminInfo = db.adminInfo /\ History' = History
<1>1. CASE IsMysql
  <2>1. MysqlFits(db) /\ db' = Mysql!UpdateAttendee(db, id, row) /\ database' = database
    BY <1>1 DEF DbFits, UpdateAttendee
  <2>2. /\ MysqlFits(db') /\ DOMAIN db'.attendees = DOMAIN db.attendees
        /\ \A x \in DOMAIN db.attendees :
             db'.attendees[x] = IF x = id THEN row ELSE db.attendees[x]
        /\ db'.adminInfo = db.adminInfo /\ db'.histories = db.histories
    BY <2>1, MysqlUpdateAttendee DEF Attendees
  <2> QED BY <1>1, <2>1, <2>2 DEF DbFits, Attendees, History, IsMysql
<1>2. CASE ~IsMysql
  <2>1. MemoryFits(db) /\ db' = InMemory!UpdateAttendee(db, id, row) /\ database' = database
    BY <1>2 DEF DbFits, UpdateAttendee
  <2>2. /\ MemoryFits(db') /\ DOMAIN db'.attendees = DOMAIN db.attendees
        /\ \A x \in DOMAIN db.attendees :
             db'.attendees[x] = IF x = id THEN row ELSE db.attendees[x]
        /\ db'.adminInfo = db.adminInfo /\ db'.history = db.history
    BY <2>1, MemoryUpdateAttendee DEF Attendees
  <2> QED BY <1>2, <2>1, <2>2 DEF DbFits, Attendees, History, IsMysql
<1> QED BY <1>1, <1>2

LEMMA WriteAdminInfoFits ==
    ASSUME DbFits, NEW w, WriteAdminInfo(w), NEW id \in Ids, id = req[w].id,
           NEW info \in Infos, info = req[w].object
    PROVE  /\ DbFits' /\ db'.attendees = db.attendees /\ History' = History
           /\ \A x : AdminInfoIn(db', x) = IF x = id THEN info ELSE AdminInfoIn(db, x)
<1>1. CASE IsMysql
  <2>1. MysqlFits(db) /\ db' = Mysql!WriteAdminInfo(db, id, info) /\ database' = database
    BY <1>1 DEF DbFits, WriteAdminInfo
  <2>2. /\ MysqlFits(db') /\ db'.attendees = db.attendees /\ db'.histories = db.histories
        /\ \A x : AdminInfoIn(db', x) = IF x = id THEN info ELSE AdminInfoIn(db, x)
    BY <2>1, MysqlWriteAdminInfo
  <2> QED BY <1>1, <2>1, <2>2 DEF DbFits, History, IsMysql
<1>2. CASE ~IsMysql
  <2>1. MemoryFits(db) /\ db' = InMemory!WriteAdminInfo(db, id, info) /\ database' = database
    BY <1>2 DEF DbFits, WriteAdminInfo
  <2>2. /\ MemoryFits(db') /\ db'.attendees = db.attendees /\ db'.history = db.history
        /\ \A x : AdminInfoIn(db', x) = IF x = id THEN info ELSE AdminInfoIn(db, x)
    BY <2>1, MemoryWriteAdminInfo
  <2> QED BY <1>2, <2>1, <2>2 DEF DbFits, History, IsMysql
<1> QED BY <1>1, <1>2

-----------------------------------------------------------------------------
LEMMA RequestsKept ==
    ASSUME Fits, DbFits', req' = req,
           Attendees \subseteq Attendees', Range(History) \subseteq Range(History')
    PROVE  Fits'
<1>1. \A w \in Workers : RequestFits(req[w], Attendees')
  BY MoreFits DEF Fits
<1>2. \A w \in Workers : At(w, "save") => Undoable(req[w], Range(History'))
  BY MoreUndoable DEF Fits
<1> QED BY <1>1, <1>2 DEF Fits, At

LEMMA RequestChanged ==
    ASSUME Fits, DbFits', NEW w \in Workers, NEW r, req' = [req EXCEPT ![w] = r],
           Attendees \subseteq Attendees', Range(History) \subseteq Range(History'),
           RequestFits(r, Attendees'),
           r.pc = "save" => Undoable(r, Range(History'))
    PROVE  Fits'
<1>1. \A v \in Workers : req'[v] = IF v = w THEN r ELSE req[v]
  BY DEF Fits
<1>2. \A v \in Workers : RequestFits(req[v], Attendees')
  BY MoreFits DEF Fits
<1>3. \A v \in Workers : At(v, "save") => Undoable(req[v], Range(History'))
  BY MoreUndoable DEF Fits
<1>4. DOMAIN req' = Workers
  BY DEF Fits
<1>5. ASSUME NEW v \in Workers
      PROVE  /\ RequestFits(req'[v], Attendees')
             /\ req'[v].pc = "save" => Undoable(req'[v], Range(History'))
  <2>1. CASE v = w
    BY <1>1, <2>1
  <2>2. CASE v # w
    BY <1>1, <1>2, <1>3, <2>2 DEF At
  <2> QED BY <2>1, <2>2
<1> QED BY <1>4, <1>5 DEF Fits, At

LEMMA Ended ==
    ASSUME Fits, NEW w \in Workers, Respond(w), DbFits',
           Attendees \subseteq Attendees', Range(History) \subseteq Range(History')
    PROVE  Fits'
<1>1. RequestFits(Idle, Attendees') /\ Idle.pc # "save"
  BY DEF RequestFits, Idle
<1> QED BY <1>1, RequestChanged DEF Respond

\* A request that has begun.
LEMMA Begun ==
    ASSUME Fits, NEW w \in Workers, ~At(w, "idle")
    PROVE  /\ req[w] \in Request /\ ~req[w].shared
           /\ req[w].id \in Attendees /\ req[w].object \in Kind(req[w].entity)
           /\ req[w].pc \in {"history", "save"} => req[w].old \in Kind(req[w].entity)
BY DEF Fits, RequestFits, At, Idle

LEMMA LoadedFits ==
    ASSUME Fits, NEW w \in Workers, NEW id \in Attendees, UNCHANGED <<database, db>>,
           NEW entity \in {"Attendee", "AdminInfo"}, NEW object \in Kind(entity),
           req' = [req EXCEPT ![w] =
                     [pc |-> "edit", entity |-> entity, id |-> id, object |-> object,
                      shared |-> FALSE, old |-> NoInfo]]
    PROVE  Fits'
<1> DEFINE r == [pc |-> "edit", entity |-> entity, id |-> id, object |-> object,
                 shared |-> FALSE, old |-> NoInfo]
<1>1. DbFits' /\ Attendees' = Attendees /\ History' = History
  BY DEF Fits, DbFits, IsMysql, Attendees, History
<1>2. id \in Nat \ {0} /\ object \in Objects /\ NoInfo \in Objects
  <2>1. Attendees \subseteq Ids
    BY Answers DEF Fits
  <2> QED BY <2>1, ColumnAssumption DEF Objects, Kind, Ids
<1>3. RequestFits(r, Attendees')
  <2>1. r \in Request
    BY <1>2 DEF Request
  <2> QED BY <1>1, <2>1 DEF RequestFits
<1>4. r.pc # "save"
  OBVIOUS
<1>5. req' = [req EXCEPT ![w] = r]
  OBVIOUS
<1> HIDE DEF r
<1> QED BY <1>1, <1>3, <1>4, <1>5, RequestChanged

LEMMA LoadAttendeeFits ==
    ASSUME Fits, NEW w \in Workers, NEW id \in Attendees, LoadAttendee(w, id)
    PROVE  Fits'
<1>1. /\ db.attendees[id] \in Kind("Attendee")
      /\ GetAttendeeById(id) = [row |-> db.attendees[id], shared |-> FALSE]
  BY Answers DEF Fits, Kind
<1>2. /\ UNCHANGED <<database, db>>
      /\ req' = [req EXCEPT ![w] =
                   [pc |-> "edit", entity |-> "Attendee", id |-> id, object |-> db.attendees[id],
                    shared |-> FALSE, old |-> NoInfo]]
  BY <1>1 DEF LoadAttendee, Continue
<1> QED BY <1>1, <1>2, LoadedFits

LEMMA LoadAdminInfoFits ==
    ASSUME Fits, NEW w \in Workers, NEW id \in Attendees, LoadAdminInfo(w, id)
    PROVE  Fits'
<1>1. GetAdminInfo(id) \in Kind("AdminInfo")
  BY Answers DEF Fits, Kind
<1> QED BY <1>1, LoadedFits DEF LoadAdminInfo, Continue

LEMMA EditFits ==
    ASSUME Fits, NEW w \in Workers, NEW object, Edit(w, object)
    PROVE  Fits'
<1> DEFINE r == [req[w] EXCEPT !.pc = "old", !.object = object]
<1>1. /\ req[w] \in Request /\ ~req[w].shared /\ req[w].id \in Attendees
  BY Begun DEF Edit, At
<1>2. UNCHANGED <<database, db>> /\ object \in Kind(req[w].entity)
  BY <1>1 DEF Edit, Request, Kind
<1>3. DbFits' /\ Attendees' = Attendees /\ History' = History
  BY <1>2 DEF Fits, DbFits, IsMysql, Attendees, History
<1>4. /\ r \in Request /\ r.pc = "old" /\ r.entity = req[w].entity /\ r.object = object
      /\ r.id = req[w].id /\ r.shared = req[w].shared
  BY <1>1, <1>2 DEF Request, Kind, Objects
<1>5. req' = [req EXCEPT ![w] = r]
  BY DEF Edit, Continue
<1> HIDE DEF r
<1>6. RequestFits(r, Attendees') /\ r.pc # "save"
  BY <1>1, <1>2, <1>3, <1>4 DEF RequestFits
<1> QED BY <1>3, <1>5, <1>6, RequestChanged

LEMMA ReadOldVersionFits ==
    ASSUME Fits, NEW w \in Workers, ReadOldVersion(w)
    PROVE  Fits'
<1> DEFINE old == IF req[w].entity = "Attendee" THEN GetAttendeeById(req[w].id).row
                  ELSE GetAdminInfo(req[w].id)
           r == [req[w] EXCEPT !.pc = "history", !.old = old]
<1>1. /\ req[w] \in Request /\ ~req[w].shared /\ req[w].id \in Attendees
      /\ req[w].object \in Kind(req[w].entity)
  BY Begun DEF ReadOldVersion, At
<1>2. old \in Kind(req[w].entity) /\ UNCHANGED <<database, db>>
  BY <1>1, Answers DEF Fits, Kind, ReadOldVersion
<1>3. DbFits' /\ Attendees' = Attendees /\ History' = History
  BY <1>2 DEF Fits, DbFits, IsMysql, Attendees, History
<1>4. req' = [req EXCEPT ![w] = r]
  BY DEF ReadOldVersion, Continue
<1> HIDE DEF old
<1>5. /\ r \in Request /\ r.pc = "history" /\ r.entity = req[w].entity /\ r.old = old
      /\ r.object = req[w].object /\ r.id = req[w].id /\ r.shared = req[w].shared
  BY <1>1, <1>2 DEF Request, Kind, Objects
<1> HIDE DEF r
<1>6. RequestFits(r, Attendees') /\ r.pc # "save"
  BY <1>1, <1>2, <1>3, <1>5 DEF RequestFits
<1> QED BY <1>3, <1>4, <1>6, RequestChanged

LEMMA RecordedFits ==
    ASSUME Fits, NEW w \in Workers, RecordHistory(w)
    PROVE  Fits'
<1> DEFINE h == [entity |-> req[w].entity, entityId |-> req[w].id,
                 diff |-> diffReverse(req[w].old, req[w].object)]
           r == [req[w] EXCEPT !.pc = "save"]
<1>1. /\ req[w] \in Request /\ ~req[w].shared /\ req[w].id \in Attendees
      /\ req[w].object \in Kind(req[w].entity) /\ req[w].old \in Kind(req[w].entity)
  BY Begun DEF RecordHistory, At
<1>2. h \in HistoryEntries
  BY <1>1 DEF Request, HistoryEntries, Ids
<1>3. /\ DbFits' /\ db'.attendees = db.attendees
      /\ Range(History) \cup {h} \subseteq Range(History')
  BY <1>2, RecordHistoryFits DEF Fits
<1>4. /\ r \in Request /\ r.pc = "save" /\ r.entity = req[w].entity /\ r.old = req[w].old
      /\ r.object = req[w].object /\ r.id = req[w].id /\ r.shared = req[w].shared
  BY <1>1 DEF Request
<1>5. req' = [req EXCEPT ![w] = r]
  BY DEF RecordHistory, Continue
<1>6. h.entity = req[w].entity /\ h.entityId = req[w].id
      /\ h.diff = diffReverse(req[w].old, req[w].object)
  OBVIOUS
<1> HIDE DEF h, r
<1>7. SameButComments(Undo(r.object, h.diff), r.old)
  BY <1>1, <1>4, <1>6, DiffCanBeUndone
<1>8. Undoable(r, Range(History'))
  BY <1>3, <1>4, <1>6, <1>7 DEF Undoable
<1>9. RequestFits(r, Attendees')
  BY <1>1, <1>3, <1>4 DEF RequestFits, Attendees
<1> QED BY <1>3, <1>5, <1>8, <1>9, RequestChanged DEF Attendees

LEMMA UpdatedFits ==
    ASSUME Fits, NEW w \in Workers, UpdateAttendee(w)
    PROVE  /\ Fits' /\ db'.adminInfo = db.adminInfo
           /\ \A x \in Attendees :
                db'.attendees[x] = IF x = req[w].id THEN req[w].object ELSE db.attendees[x]
<1>1. req[w].id \in Attendees /\ req[w].object \in Rows
  BY Begun DEF UpdateAttendee, At, Kind
<1>2. /\ DbFits' /\ Attendees' = Attendees
      /\ \A x \in Attendees :
           db'.attendees[x] = IF x = req[w].id THEN req[w].object ELSE db.attendees[x]
      /\ db'.adminInfo = db.adminInfo /\ History' = History
  BY <1>1, UpdateAttendeeFits DEF Fits
<1>3. Fits'
  BY <1>2, Ended DEF UpdateAttendee
<1> QED BY <1>2, <1>3

LEMMA WrittenFits ==
    ASSUME Fits, NEW w \in Workers, WriteAdminInfo(w)
    PROVE  /\ Fits' /\ db'.attendees = db.attendees
           /\ \A x : AdminInfoIn(db', x) =
                       IF x = req[w].id THEN req[w].object ELSE AdminInfoIn(db, x)
<1>1. req[w].id \in Ids /\ req[w].object \in Infos
  BY Begun, Answers DEF Fits, WriteAdminInfo, At, Kind
<1>2. /\ DbFits' /\ db'.attendees = db.attendees /\ History' = History
      /\ \A x : AdminInfoIn(db', x) =
                  IF x = req[w].id THEN req[w].object ELSE AdminInfoIn(db, x)
  BY <1>1, WriteAdminInfoFits DEF Fits
<1>3. Fits'
  BY <1>2, Ended DEF WriteAdminInfo, Attendees
<1> QED BY <1>2, <1>3

\* Steps that leave the database alone.
LEMMA UnchangedDb ==
    ASSUME Fits, UNCHANGED <<database, db>>
    PROVE  DbFits' /\ Attendees' = Attendees /\ History' = History
BY DEF Fits, DbFits, IsMysql, Attendees, History

LEMMA FitsInit == Init => Fits
<1> SUFFICES ASSUME Init PROVE Fits
  OBVIOUS
<1>1. DbFits
  <2>1. CASE IsMysql
    <3>1. db = Mysql!Migrate
      BY <2>1 DEF Init
    <3>2. [id \in {} |-> NoInfo] \in Maps(Infos)
      BY EmptyIsMap
    <3>3. MysqlFits(db)
      BY <3>1, <3>2 DEF MysqlFits, Mysql!Migrate
    <3> QED BY <2>1, <3>3 DEF DbFits, Init
  <2>2. CASE ~IsMysql
    <3>1. db = InMemory!Open
      BY <2>2 DEF Init
    <3>2. \A S : InMemory!EmptyMap \in Maps(S)
      BY EmptyIsMap DEF InMemory!EmptyMap
    <3>3. DOMAIN InMemory!EmptyMap = {}
      BY DEF InMemory!EmptyMap
    <3>4. MemoryFits(db)
      BY <3>1, <3>2, <3>3 DEF MemoryFits, InMemory!Open
    <3> QED BY <2>2, <3>4 DEF DbFits, Init
  <2> QED BY <2>1, <2>2
<1>2. DOMAIN req = Workers /\ \A w \in Workers : req[w] = Idle
  BY DEF Init
<1>3. \A w \in Workers : RequestFits(req[w], Attendees) /\ ~At(w, "save")
  BY <1>2 DEF RequestFits, At, Idle
<1> QED BY <1>1, <1>2, <1>3 DEF Fits

LEMMA FitsStep == Fits /\ [Next]_vars => Fits'
<1> SUFFICES ASSUME Fits, [Next]_vars PROVE Fits'
  OBVIOUS
<1>1. CASE UNCHANGED vars
  <2>1. UNCHANGED <<database, db>> /\ req' = req
    BY <1>1 DEF vars
  <2> QED BY <2>1, UnchangedDb, RequestsKept
<1>2. ASSUME NEW row \in Rows, AddAttendee(row) PROVE Fits'
  <2>1. req' = req
    BY <1>2 DEF AddAttendee
  <2> QED BY <1>2, <2>1, AddAttendeeFits, RequestsKept DEF Fits
<1>3. ASSUME NEW id, NEW status, AddStatusChange(id, status) PROVE Fits'
  <2>1. req' = req
    BY <1>3 DEF AddStatusChange
  <2>2. DbFits' /\ Attendees' = Attendees /\ History' = History
    BY <1>3, AddStatusChangeFits DEF Fits, Attendees
  <2> QED BY <2>1, <2>2, RequestsKept
<1>4. ASSUME NEW w \in Workers, TurnDown(w) \/ AccessFails(w) PROVE Fits'
  <2>1. UNCHANGED <<database, db>> /\ Respond(w)
    BY <1>4 DEF TurnDown, AccessFails
  <2> QED BY <2>1, UnchangedDb, Ended
<1>5. CASE Restart
  <2>1. UNCHANGED <<database, db>> /\ req' = [w \in Workers |-> Idle]
    BY <1>5 DEF Restart
  <2>2. DOMAIN req' = Workers /\ \A w \in Workers : req'[w] = Idle
    BY <2>1
  <2>3. \A w \in Workers : RequestFits(req'[w], Attendees') /\ req'[w].pc # "save"
    BY <2>2 DEF RequestFits, Idle
  <2> QED BY <2>1, <2>2, <2>3, UnchangedDb DEF Fits, At
<1>6. ASSUME NEW w \in Workers, ReadOldVersion(w) \/ RecordHistory(w)
                                  \/ UpdateAttendee(w) \/ WriteAdminInfo(w)
      PROVE  Fits'
  BY <1>6, ReadOldVersionFits, RecordedFits, UpdatedFits, WrittenFits
<1>7. ASSUME NEW w \in Workers, NEW object, Edit(w, object) PROVE Fits'
  BY <1>7, EditFits
<1>8. ASSUME NEW w \in Workers, NEW id \in Attendees, LoadAttendee(w, id) \/ LoadAdminInfo(w, id)
      PROVE  Fits'
  BY <1>8, LoadAttendeeFits, LoadAdminInfoFits
<1> QED BY <1>1, <1>2, <1>3, <1>4, <1>5, <1>6, <1>7, <1>8 DEF Next

-----------------------------------------------------------------------------
LEMMA AdminInfoNow == ASSUME NEW id
                      PROVE  /\ GetAdminInfo(id) = AdminInfoIn(db, id)
                             /\ GetAdminInfo(id)' = AdminInfoIn(db', id)
BY DEF AdminInfoIn, GetAdminInfo, Mysql!GetAdminInfoByAttendeeId, InMemory!GetAdminInfoByAttendeeId

\* Neither changes.
LEMMA Untouched ==
    ASSUME NEW id, db'.attendees[id] = db.attendees[id], db'.adminInfo = db.adminInfo
    PROVE  OverwritesUndoably(id)
<1>1. GetAdminInfo(id)' = GetAdminInfo(id)
  BY AdminInfoNow DEF AdminInfoIn
<1> QED BY <1>1 DEF OverwritesUndoably

LEMMA UpdateUndoable ==
    ASSUME Fits, NEW w \in Workers, UpdateAttendee(w), NEW id \in Attendees
    PROVE  OverwritesUndoably(id)
<1>1. GetAdminInfo(id)' = GetAdminInfo(id)
  BY UpdatedFits, AdminInfoNow DEF AdminInfoIn
<1>2. db'.attendees[id] = IF id = req[w].id THEN req[w].object ELSE db.attendees[id]
  BY UpdatedFits
<1>3. CASE id # req[w].id
  BY <1>1, <1>2, <1>3 DEF OverwritesUndoably
<1>4. CASE id = req[w].id
  <2>1. PICK h \in Range(History) :
          /\ h.entity = req[w].entity /\ h.entityId = req[w].id
          /\ SameButComments(Undo(req[w].object, h.diff), req[w].old)
    BY DEF Fits, UpdateAttendee, Undoable
  <2>2. At(w, "save") /\ req[w].entity = "Attendee"
    BY DEF UpdateAttendee
  <2>3. CASE req[w].old = db.attendees[id]
    <3>1. SameButComments(Undo(db'.attendees[id], h.diff), db.attendees[id])
      BY <1>2, <1>4, <2>1, <2>3
    <3> QED BY <1>1, <1>4, <2>1, <2>2, <3>1 DEF OverwritesUndoably
  <2>4. CASE req[w].old # db.attendees[id]
    BY <1>1, <1>4, <2>2, <2>4 DEF OverwritesUndoably
  <2> QED BY <2>3, <2>4
<1> QED BY <1>3, <1>4

LEMMA WriteUndoable ==
    ASSUME Fits, NEW w \in Workers, WriteAdminInfo(w), NEW id \in Attendees
    PROVE  OverwritesUndoably(id)
<1>1. db'.attendees[id] = db.attendees[id]
  BY WrittenFits
<1>2. GetAdminInfo(id)' = IF id = req[w].id THEN req[w].object ELSE GetAdminInfo(id)
  BY WrittenFits, AdminInfoNow
<1>3. CASE id # req[w].id
  BY <1>1, <1>2, <1>3 DEF OverwritesUndoably
<1>4. CASE id = req[w].id
  <2>1. PICK h \in Range(History) :
          /\ h.entity = req[w].entity /\ h.entityId = req[w].id
          /\ SameButComments(Undo(req[w].object, h.diff), req[w].old)
    BY DEF Fits, WriteAdminInfo, Undoable
  <2>2. At(w, "save") /\ req[w].entity = "AdminInfo"
    BY DEF WriteAdminInfo
  <2>3. CASE req[w].old = GetAdminInfo(id)
    <3>1. SameButComments(Undo(GetAdminInfo(id)', h.diff), GetAdminInfo(id))
      BY <1>2, <1>4, <2>1, <2>3
    <3> QED BY <1>1, <1>4, <2>1, <2>2, <3>1 DEF OverwritesUndoably
  <2>4. CASE req[w].old # GetAdminInfo(id)
    BY <1>1, <1>4, <2>2, <2>4 DEF OverwritesUndoably
  <2> QED BY <2>3, <2>4
<1> QED BY <1>3, <1>4

LEMMA StepUndoable ==
    ASSUME Fits, [Next]_vars, NEW id \in Attendees
    PROVE  OverwritesUndoably(id)
<1>1. ASSUME UNCHANGED db PROVE OverwritesUndoably(id)
  BY <1>1, Untouched
<1>2. ASSUME NEW row \in Rows, AddAttendee(row) PROVE OverwritesUndoably(id)
  BY <1>2, AddAttendeeFits, Untouched DEF Fits
<1>3. ASSUME NEW x, NEW status, AddStatusChange(x, status) PROVE OverwritesUndoably(id)
  BY <1>3, AddStatusChangeFits, Untouched DEF Fits
<1>4. ASSUME NEW w \in Workers, NEW object, Edit(w, object) PROVE OverwritesUndoably(id)
  <2>1. ~req[w].shared
    BY <1>4, Begun DEF Edit, At
  <2> QED BY <1>1, <1>4, <2>1 DEF Edit
<1>5. ASSUME NEW w \in Workers, RecordHistory(w) PROVE OverwritesUndoably(id)
  <2>1. DEFINE h == [entity |-> req[w].entity, entityId |-> req[w].id,
                     diff |-> diffReverse(req[w].old, req[w].object)]
  <2>2. h \in HistoryEntries
    BY <1>5, Begun, Answers DEF Fits, RecordHistory, At, HistoryEntries, Request, Ids
  <2>3. db'.attendees = db.attendees /\ db'.adminInfo = db.adminInfo
    BY <1>5, <2>2, RecordHistoryFits DEF Fits
  <2> QED BY <2>3, Untouched
<1>6. ASSUME NEW w \in Workers, UpdateAttendee(w) \/ WriteAdminInfo(w) PROVE OverwritesUndoably(id)
  BY <1>6, UpdateUndoable, WriteUndoable
<1>7. ASSUME UNCHANGED vars \/ Restart \/ \E w \in Workers :
               \/ TurnDown(w) \/ AccessFails(w) \/ ReadOldVersion(w)
               \/ \E x \in Attendees : LoadAttendee(w, x) \/ LoadAdminInfo(w, x)
      PROVE  UNCHANGED db
  BY <1>7 DEF vars, Restart, TurnDown, AccessFails, ReadOldVersion, LoadAttendee, LoadAdminInfo
<1> QED BY <1>1, <1>2, <1>3, <1>4, <1>5, <1>6, <1>7 DEF Next

\* The invariant behind it: what a handler is about to overwrite, as it was read, is in
\* the history (UpdateAttendee and WriteAdminInfo of the historizing repository record
\* the difference before they save), and nobody works on an object that the database
\* shares.
THEOREM FitsHolds == Spec => []Fits
<1>1. Init => Fits
  BY FitsInit
<1>2. Fits /\ [Next]_vars => Fits'
  BY FitsStep
<1> QED BY <1>1, <1>2, PTL DEF Spec

\* "The new value is in the database now", and the old one in the history: on either
\* database, for any rows and admin infos and any number of requests, accesses that
\* fail and restarts, no save overwrites a version that the history could not give back.
THEOREM OverwrittenCanBeUndoneHolds == Spec => OverwrittenCanBeUndone
<1>1. Fits /\ [Next]_vars => [\A id \in Attendees : OverwritesUndoably(id)]_vars
  BY StepUndoable
<1> QED BY <1>1, FitsHolds, PTL DEF Spec, OverwrittenCanBeUndone

-----------------------------------------------------------------------------
StatusChange == [attendeeId : Ids, status : Statuses]

\* What the databases answer when there are no status changes.
LEMMA NothingFound == << >> = Promise!NoStatusChanges
<1>1. << >> = [n \in {} |-> "new"]
  OBVIOUS
<1> QED BY <1>1 DEF Promise!NoStatusChanges

LEMMA StatusesTyped ==
    ASSUME NEW d, d.status_changes \in Seq(StatusChange), NEW id
    PROVE  Range(Mysql!GetStatusChangesByAttendeeId(d, id)) \subseteq Statuses
<1>1. PICK rows \in Seq(StatusChange) : rows = d.status_changes
  OBVIOUS
<1>2. PICK keys : keys = Mysql!KeysOf(d, id)
  OBVIOUS
<1>3. Mysql!GetStatusChangesByAttendeeId(d, id) = [key \in keys |-> rows[key].status]
  BY <1>1, <1>2 DEF Mysql!GetStatusChangesByAttendeeId
<1>4. ASSUME NEW key \in keys PROVE rows[key].status \in Statuses
  <2>1. key \in DOMAIN rows
    BY <1>1, <1>2 DEF Mysql!KeysOf
  <2>2. rows[key] \in StatusChange
    BY <2>1
  <2> QED BY <2>2 DEF StatusChange
<1> QED BY <1>3, <1>4 DEF Range

\* A row that is appended belongs to its attendee and to nobody else, and its key is
\* the largest.
LEMMA StatusAppended ==
    ASSUME NEW d, d.status_changes \in Seq(StatusChange), NEW row \in StatusChange,
           NEW e, e.status_changes = Append(d.status_changes, row), NEW id \in Ids
    PROVE  IF row.attendeeId = id
           THEN /\ \E key : /\ key \notin Mysql!KeysOf(d, id)
                            /\ Mysql!GetStatusChangesByAttendeeId(e, id) =
                                 Promise!Extended(Mysql!GetStatusChangesByAttendeeId(d, id),
                                                  key, row.status)
                /\ Mysql!GetLatestStatus(e, id) = row.status
           ELSE /\ Mysql!GetStatusChangesByAttendeeId(e, id) =
                     Mysql!GetStatusChangesByAttendeeId(d, id)
                /\ Mysql!GetLatestStatus(e, id) = Mysql!GetLatestStatus(d, id)
<1>1. PICK rows \in Seq(StatusChange) : rows = d.status_changes
  OBVIOUS
<1>2. PICK N \in Nat : N = Len(rows) /\ DOMAIN rows = 1 .. N
  OBVIOUS
<1>3. PICK more : more = Append(rows, row)
  OBVIOUS
<1>4. /\ more = e.status_changes
      /\ DOMAIN more = 1 .. N + 1 /\ more[N + 1] = row
      /\ \A n \in 1 .. N : more[n] = rows[n]
  BY <1>1, <1>2, <1>3
<1>5. id # 0
  BY DEF Ids
<1>6. PICK old : old = {n \in 1 .. N : rows[n].attendeeId = id}
  OBVIOUS
<1>7. Mysql!KeysOf(d, id) = old
  BY <1>1, <1>2, <1>5, <1>6 DEF Mysql!KeysOf, Mysql!WhereId
<1>8. PICK keys : keys = Mysql!KeysOf(e, id)
  OBVIOUS
<1>9. keys = {n \in 1 .. N + 1 : more[n].attendeeId = id}
  BY <1>4, <1>5, <1>8 DEF Mysql!KeysOf, Mysql!WhereId
<1>10. PICK was : was = Mysql!GetStatusChangesByAttendeeId(d, id)
  OBVIOUS
<1>11. was = [key \in old |-> rows[key].status]
  BY <1>1, <1>7, <1>10 DEF Mysql!GetStatusChangesByAttendeeId
<1>12. Mysql!GetStatusChangesByAttendeeId(e, id) = [key \in keys |-> more[key].status]
  BY <1>4, <1>8 DEF Mysql!GetStatusChangesByAttendeeId
<1>13. N + 1 \notin old
  BY <1>6
<1>14. CASE row.attendeeId = id
  <2>1. keys = old \cup {N + 1}
    <3>1. ASSUME NEW n PROVE n \in keys <=> n \in old \cup {N + 1}
      <4>1. n \in 1 .. N + 1 <=> (n \in 1 .. N \/ n = N + 1)
        OBVIOUS
      <4>2. CASE n = N + 1
        BY <1>4, <1>9, <1>14, <4>1, <4>2
      <4>3. CASE n # N + 1
        BY <1>4, <1>6, <1>9, <4>1, <4>3
      <4> QED BY <4>2, <4>3
    <3> QED BY <3>1
  <2>2. \A key \in old : more[key].status = was[key]
    BY <1>4, <1>6, <1>11
  <2>3. Mysql!GetStatusChangesByAttendeeId(e, id) =
          Promise!Extended(was, N + 1, row.status)
    <3>1. DOMAIN was = old
      BY <1>11
    <3>2. \A key \in keys : more[key].status =
            IF key = N + 1 THEN row.status ELSE was[key]
      BY <1>4, <2>1, <2>2
    <3> QED BY <1>12, <2>1, <3>1, <3>2 DEF Promise!Extended
  <2>4. Mysql!Max(keys) = N + 1
    <3>1. Mysql!Max(keys) = CHOOSE x \in keys : \A y \in keys : x >= y
      BY DEF Mysql!Max
    <3>2. N + 1 \in keys /\ \A y \in keys : y \in Int /\ N + 1 >= y
      BY <1>9, <2>1
    <3>3. \A x \in keys : (\A y \in keys : x >= y) => x = N + 1
      BY <3>2
    <3> QED BY <3>1, <3>2, <3>3
  <2>5. Mysql!GetLatestStatus(e, id) = row.status
    BY <1>4, <1>8, <2>1, <2>4 DEF Mysql!GetLatestStatus
  <2> QED BY <1>7, <1>10, <1>13, <1>14, <2>3, <2>5
<1>15. CASE row.attendeeId # id
  <2>1. keys = old
    <3>1. ASSUME NEW n PROVE n \in keys <=> n \in old
      <4>1. n \in 1 .. N + 1 <=> (n \in 1 .. N \/ n = N + 1)
        OBVIOUS
      <4>2. CASE n = N + 1
        BY <1>4, <1>6, <1>9, <1>15, <4>1, <4>2
      <4>3. CASE n # N + 1
        BY <1>4, <1>6, <1>9, <4>1, <4>3
      <4> QED BY <4>2, <4>3
    <3> QED BY <3>1
  <2>2. \A key \in old : more[key] = rows[key]
    BY <1>4, <1>6
  <2>3. Mysql!GetStatusChangesByAttendeeId(e, id) = was
    BY <1>11, <1>12, <2>1, <2>2
  <2>4. Mysql!GetLatestStatus(e, id) = Mysql!GetLatestStatus(d, id)
    <3>1. PICK last : last = Mysql!Max(old)
      OBVIOUS
    <3>2. CASE old = {}
      BY <1>7, <1>8, <2>1, <3>2 DEF Mysql!GetLatestStatus
    <3>3. CASE old # {}
      <4>1. last \in old
        <5>1. old \in SUBSET (1 .. N)
          BY <1>6
        <5>2. \E x \in old : \A y \in old : x >= y
          BY <3>3, <5>1, MaxExists
        <5>3. last = CHOOSE x \in old : \A y \in old : x >= y
          BY <3>1 DEF Mysql!Max
        <5> QED BY <5>2, <5>3
      <4>2. more[last] = rows[last]
        BY <2>2, <4>1
      <4>3. Mysql!GetLatestStatus(e, id) = more[last].status
        BY <1>4, <1>8, <2>1, <3>1, <3>3 DEF Mysql!GetLatestStatus
      <4>4. Mysql!GetLatestStatus(d, id) = rows[last].status
        BY <1>1, <1>7, <3>1, <3>3 DEF Mysql!GetLatestStatus
      <4> QED BY <4>2, <4>3, <4>4
    <3> QED BY <3>2, <3>3
  <2> QED BY <1>10, <1>15, <2>3, <2>4
<1> QED BY <1>14, <1>15

LEMMA NoStatusFound ==
    ASSUME NEW d, NEW id, id # 0,
           \A n \in DOMAIN d.status_changes : d.status_changes[n].attendeeId # id
    PROVE  /\ Mysql!GetStatusChangesByAttendeeId(d, id) = Promise!NoStatusChanges
           /\ Mysql!GetLatestStatus(d, id) = "new"
<1>1. Mysql!KeysOf(d, id) = {}
  BY DEF Mysql!KeysOf, Mysql!WhereId
<1>2. Mysql!GetStatusChangesByAttendeeId(d, id) = [key \in {} |-> d.status_changes[key].status]
  BY <1>1 DEF Mysql!GetStatusChangesByAttendeeId
<1> QED BY <1>1, <1>2 DEF Mysql!GetLatestStatus, Promise!NoStatusChanges

-----------------------------------------------------------------------------
\* What else is true of the tables: they speak of attendees that exist.
TablesFit ==
    /\ DOMAIN db.adminInfo \subseteq Attendees
    /\ \A h \in Range(History) : h.entityId \in Attendees
    /\ IF IsMysql
       THEN /\ db.status_changes \in Seq(StatusChange)
            /\ \A n \in DOMAIN db.status_changes : db.status_changes[n].attendeeId \in Attendees
       ELSE /\ db.statusChanges \in Maps(Seq(Statuses))
            /\ DOMAIN db.statusChanges \subseteq Attendees

\* The answers about statuses are the same as before.
StatusesStay ==
    \A x : GetStatusChanges(x)' = GetStatusChanges(x) /\ GetLatestStatus(x)' = GetLatestStatus(x)

Sound ==
    /\ Fits
    /\ TablesFit
    /\ req = [w \in Workers |-> req[w]]

\* An attendee is added with a number that is larger than all others, and is a clean
\* slate on both databases.
IsAdded(row, id) ==
    /\ id \in Ids
    /\ \A other \in Attendees : other < id
    /\ db'.attendees = Promise!Extended(db.attendees, id, row)
    /\ \A x : GetAdminInfo(x)' = GetAdminInfo(x)
    /\ StatusesStay
    /\ GetAdminInfo(id) = NoInfo /\ GetStatusChanges(id) = Promise!NoStatusChanges
    /\ GetLatestStatus(id) = "new"

LEMMA SameStatusChanges ==
    ASSUME database' = database,
           IF IsMysql THEN db'.status_changes = db.status_changes
           ELSE db'.statusChanges = db.statusChanges
    PROVE  StatusesStay
<1>1. CASE IsMysql
  <2>1. db'.status_changes = db.status_changes /\ IsMysql /\ IsMysql'
    BY <1>1 DEF IsMysql
  <2>2. \A x : Mysql!KeysOf(db', x) = Mysql!KeysOf(db, x)
    BY <2>1 DEF Mysql!KeysOf
  <2>3. \A x : Mysql!GetStatusChangesByAttendeeId(db', x) = Mysql!GetStatusChangesByAttendeeId(db, x)
    BY <2>1, <2>2 DEF Mysql!GetStatusChangesByAttendeeId
  <2>4. \A x : Mysql!GetLatestStatus(db', x) = Mysql!GetLatestStatus(db, x)
    BY <2>1, <2>2 DEF Mysql!GetLatestStatus
  <2> QED BY <2>1, <2>3, <2>4 DEF GetStatusChanges, GetLatestStatus, StatusesStay
<1>2. CASE ~IsMysql
  <2>1. db'.statusChanges = db.statusChanges /\ ~IsMysql /\ ~IsMysql'
    BY <1>2 DEF IsMysql
  <2>2. \A x : InMemory!GetStatusChangesByAttendeeId(db', x) =
               InMemory!GetStatusChangesByAttendeeId(db, x)
    BY <2>1 DEF InMemory!GetStatusChangesByAttendeeId
  <2>3. \A x : InMemory!GetLatestStatus(db', x) = InMemory!GetLatestStatus(db, x)
    BY <2>2 DEF InMemory!GetLatestStatus
  <2> QED BY <2>1, <2>2, <2>3 DEF GetStatusChanges, GetLatestStatus, StatusesStay
<1> QED BY <1>1, <1>2

LEMMA NothingKept ==
    ASSUME TablesFit, DbFits, NEW id \in Ids, id \notin Attendees
    PROVE  /\ GetAdminInfo(id) = NoInfo /\ GetStatusChanges(id) = Promise!NoStatusChanges
           /\ GetLatestStatus(id) = "new"
<1>1. GetAdminInfo(id) = NoInfo
  BY Answers DEF AdminInfoIn, TablesFit
<1>2. CASE IsMysql
  <2>1. id # 0 /\ \A n \in DOMAIN db.status_changes : db.status_changes[n].attendeeId # id
    BY <1>2 DEF TablesFit, Ids
  <2>2. /\ Mysql!GetStatusChangesByAttendeeId(db, id) = Promise!NoStatusChanges
        /\ Mysql!GetLatestStatus(db, id) = "new"
    BY <2>1, NoStatusFound
  <2> QED BY <1>1, <1>2, <2>2 DEF GetStatusChanges, GetLatestStatus
<1>3. CASE ~IsMysql
  <2>1. id \notin DOMAIN db.statusChanges
    BY <1>3 DEF TablesFit
  <2>2. InMemory!GetStatusChangesByAttendeeId(db, id) = << >>
    BY <2>1 DEF InMemory!GetStatusChangesByAttendeeId
  <2>3. InMemory!GetLatestStatus(db, id) = "new"
    BY <2>2 DEF InMemory!GetLatestStatus
  <2> QED BY <1>1, <1>3, <2>2, <2>3, NothingFound DEF GetStatusChanges, GetLatestStatus
<1> QED BY <1>2, <1>3

LEMMA MysqlAdded ==
    ASSUME DbFits, TablesFit, IsMysql, NEW row \in Rows, AddAttendee(row)
    PROVE  TablesFit' /\ \E id : IsAdded(row, id)
<1>1. MysqlFits(db) /\ db' = Mysql!AddAttendee(db, row) /\ database' = database
  BY DEF DbFits, AddAttendee
<1>2. /\ db'.attendees = Append(db.attendees, row)
      /\ db'.adminInfo = db.adminInfo /\ db'.histories = db.histories
      /\ db'.status_changes = db.status_changes
  BY <1>1 DEF MysqlFits, Mysql!AddAttendee, Mysql!Create
<1>3. db.attendees \in Seq(Rows)
  BY <1>1 DEF MysqlFits
<1>4. PICK id : id = Len(db.attendees) + 1
  OBVIOUS
<1>5. id \in Ids /\ id \notin Attendees /\ \A other \in Attendees : other < id
  BY <1>3, <1>4 DEF Attendees, Ids
<1>6. db'.attendees = Promise!Extended(db.attendees, id, row)
  BY <1>2, <1>3, <1>4 DEF Promise!Extended
<1>7. Attendees \subseteq Attendees'
  BY <1>2, <1>3 DEF Attendees
<1>8. TablesFit'
  BY <1>1, <1>2, <1>7 DEF TablesFit, IsMysql, History
<1>9. \A x : GetAdminInfo(x)' = GetAdminInfo(x)
  BY <1>1, <1>2 DEF GetAdminInfo, IsMysql, Mysql!GetAdminInfoByAttendeeId
<1>10. StatusesStay
  BY <1>1, <1>2, SameStatusChanges DEF IsMysql
<1> QED BY <1>5, <1>6, <1>8, <1>9, <1>10, NothingKept DEF IsAdded

LEMMA MemoryAdded ==
    ASSUME DbFits, TablesFit, ~IsMysql, NEW row \in Rows, AddAttendee(row)
    PROVE  TablesFit' /\ \E id : IsAdded(row, id)
<1>1. MemoryFits(db) /\ db' = InMemory!AddAttendee(db, row) /\ database' = database
  BY DEF DbFits, AddAttendee
<1>2. PICK id : id = db.idSequence + 1
  OBVIOUS
<1>3. /\ db'.attendees = InMemory!With(db.attendees, id, row)
      /\ db'.adminInfo = db.adminInfo /\ db'.history = db.history
      /\ db'.statusChanges = db.statusChanges
  BY <1>1, <1>2 DEF MemoryFits, InMemory!AddAttendee
<1>4. id \in Ids /\ id \notin Attendees /\ \A other \in Attendees : other < id
  <2>1. db.idSequence \in Nat /\ \A other \in Attendees : other \in Nat /\ other <= db.idSequence
    BY <1>1 DEF MemoryFits, Maps, Ids, Attendees
  <2> QED BY <1>2, <2>1 DEF Ids
<1>5. db'.attendees = Promise!Extended(db.attendees, id, row)
  BY <1>3 DEF Promise!Extended, InMemory!With
<1>6. Attendees' = Attendees \cup {id}
  BY <1>5 DEF Attendees, Promise!Extended
<1>8. TablesFit'
  BY <1>1, <1>3, <1>6 DEF TablesFit, IsMysql, History
<1>9. \A x : GetAdminInfo(x)' = GetAdminInfo(x)
  BY <1>1, <1>3 DEF GetAdminInfo, IsMysql, InMemory!GetAdminInfoByAttendeeId
<1>10. StatusesStay
  BY <1>1, <1>3, SameStatusChanges DEF IsMysql
<1> QED BY <1>4, <1>5, <1>8, <1>9, <1>10, NothingKept DEF IsAdded

LEMMA Added ==
    ASSUME DbFits, TablesFit, NEW row \in Rows, AddAttendee(row)
    PROVE  TablesFit' /\ \E id : IsAdded(row, id)
BY MysqlAdded, MemoryAdded

\* A status change is added to those of its attendee, and is the latest.
IsGiven(id, status) ==
    /\ \E key : /\ key \notin DOMAIN GetStatusChanges(id)
                /\ GetStatusChanges(id)' = Promise!Extended(GetStatusChanges(id), key, status)
    /\ GetLatestStatus(id)' = status
    /\ \A x \in Attendees : x # id => /\ GetStatusChanges(x)' = GetStatusChanges(x)
                                      /\ GetLatestStatus(x)' = GetLatestStatus(x)

LEMMA AppendExtends ==
    ASSUME NEW S, NEW list \in Seq(S), NEW x \in S
    PROVE  /\ Len(list) + 1 \notin DOMAIN list
           /\ Append(list, x) = Promise!Extended(list, Len(list) + 1, x)
<1>1. PICK N \in Nat : N = Len(list) /\ DOMAIN list = 1 .. N
  OBVIOUS
<1>2. N + 1 \notin 1 .. N /\ 1 .. N + 1 = 1 .. N \cup {N + 1}
  OBVIOUS
<1>3. PICK more : more = Append(list, x)
  OBVIOUS
<1>4. more \in Seq(S) /\ Len(more) = N + 1
  BY <1>1, <1>3
<1>5. more = [n \in 1 .. N + 1 |-> more[n]]
  BY <1>4
<1>6. more[N + 1] = x /\ \A n \in 1 .. N : more[n] = list[n]
  BY <1>1, <1>3
<1>7. \A n \in 1 .. N + 1 : more[n] = IF n = N + 1 THEN x ELSE list[n]
  BY <1>2, <1>6
<1> QED BY <1>1, <1>2, <1>3, <1>5, <1>7 DEF Promise!Extended

LEMMA StatusGiven ==
    ASSUME DbFits, TablesFit, NEW id \in Attendees, NEW status \in Statuses,
           AddStatusChange(id, status)
    PROVE  TablesFit' /\ IsGiven(id, status)
<1>1. Attendees' = Attendees /\ History' = History /\ db'.adminInfo = db.adminInfo
  BY AddStatusChangeFits DEF Attendees
<1>2. id \in Ids /\ Attendees \subseteq Ids
  BY Answers DEF Ids
<1>3. database' = database
  BY DEF AddStatusChange
<1>4. CASE IsMysql
  <2>1. MysqlFits(db) /\ db' = Mysql!AddStatusChange(db, id, status)
    BY <1>4 DEF DbFits, AddStatusChange
  <2>2. PICK row : row = [attendeeId |-> id, status |-> status]
    OBVIOUS
  <2>3. db.status_changes \in Seq(StatusChange) /\ row \in StatusChange
    BY <1>2, <1>4, <2>2 DEF TablesFit, StatusChange
  <2>4. db' = [db EXCEPT !.status_changes = Append(@, row)]
    BY <2>1, <2>2 DEF Mysql!AddStatusChange, Mysql!Create
  <2>5. db'.status_changes = Append(db.status_changes, row)
    <3>1. "status_changes" \in DOMAIN db
      BY <2>1 DEF MysqlFits
    <3> QED BY <2>4, <3>1
  <2>6. db'.status_changes \in Seq(StatusChange)
    BY <2>3, <2>5, AppendTyped, Zenon
  <2>7. \A n \in DOMAIN db'.status_changes : db'.status_changes[n].attendeeId \in Attendees
    <3>1. \A n \in DOMAIN db.status_changes : db.status_changes[n].attendeeId \in Attendees
      BY <1>4 DEF TablesFit
    <3>2. row.attendeeId \in Attendees
      BY <2>2
    <3>3. PICK rows \in Seq(StatusChange) : rows = db.status_changes
      BY <2>3
    <3>4. ASSUME NEW n \in DOMAIN Append(rows, row)
          PROVE  Append(rows, row)[n] = row \/ (n \in DOMAIN rows /\ Append(rows, row)[n] = rows[n])
      BY <2>3
    <3> QED BY <2>5, <3>1, <3>2, <3>3, <3>4
  <2>8. TablesFit'
    BY <1>1, <1>3, <1>4, <2>6, <2>7 DEF TablesFit, IsMysql
  <2>9. \A x : /\ GetStatusChanges(x) = Mysql!GetStatusChangesByAttendeeId(db, x)
               /\ GetStatusChanges(x)' = Mysql!GetStatusChangesByAttendeeId(db', x)
               /\ GetLatestStatus(x) = Mysql!GetLatestStatus(db, x)
               /\ GetLatestStatus(x)' = Mysql!GetLatestStatus(db', x)
    BY <1>3, <1>4 DEF GetStatusChanges, GetLatestStatus, IsMysql
  <2>10. \E key : /\ key \notin DOMAIN GetStatusChanges(id)
                  /\ GetStatusChanges(id)' = Promise!Extended(GetStatusChanges(id), key, status)
    <3>1. PICK key : /\ key \notin Mysql!KeysOf(db, id)
                     /\ Mysql!GetStatusChangesByAttendeeId(db', id) =
                          Promise!Extended(Mysql!GetStatusChangesByAttendeeId(db, id),
                                           key, row.status)
      BY <1>2, <2>2, <2>3, <2>5, StatusAppended
    <3>2. DOMAIN GetStatusChanges(id) = Mysql!KeysOf(db, id)
      BY <2>9 DEF Mysql!GetStatusChangesByAttendeeId
    <3>3. row.status = status
      BY <2>2
    <3> QED BY <2>9, <3>1, <3>2, <3>3
  <2>11. GetLatestStatus(id)' = status
    <3>1. Mysql!GetLatestStatus(db', id) = row.status
      BY <1>2, <2>2, <2>3, <2>5, StatusAppended
    <3> QED BY <2>2, <2>9, <3>1
  <2>12. ASSUME NEW x \in Attendees, x # id
         PROVE  /\ GetStatusChanges(x)' = GetStatusChanges(x)
                /\ GetLatestStatus(x)' = GetLatestStatus(x)
    <3>1. x \in Ids /\ row.attendeeId # x
      BY <1>2, <2>2, <2>12
    <3>2. /\ Mysql!GetStatusChangesByAttendeeId(db', x) = Mysql!GetStatusChangesByAttendeeId(db, x)
          /\ Mysql!GetLatestStatus(db', x) = Mysql!GetLatestStatus(db, x)
      BY <2>3, <2>5, <3>1, StatusAppended
    <3> QED BY <2>9, <3>2
  <2> QED BY <2>8, <2>10, <2>11, <2>12 DEF IsGiven
<1>5. CASE ~IsMysql
  <2>1. MemoryFits(db) /\ db' = InMemory!AddStatusChange(db, id, status)
    BY <1>5 DEF DbFits, AddStatusChange
  <2>2. PICK list : list = InMemory!GetStatusChangesByAttendeeId(db, id)
    OBVIOUS
  <2>3. PICK more : more = Append(list, status)
    OBVIOUS
  <2>4. db'.statusChanges = InMemory!With(db.statusChanges, id, more)
    BY <2>1, <2>2, <2>3 DEF MemoryFits, InMemory!AddStatusChange
  <2>5. db.statusChanges \in Maps(Seq(Statuses)) /\ DOMAIN db.statusChanges \subseteq Attendees
    BY <1>5 DEF TablesFit
  <2>6. list \in Seq(Statuses)
    BY <2>2, <2>5 DEF Maps, InMemory!GetStatusChangesByAttendeeId
  <2>7. more \in Seq(Statuses) /\ more # << >> /\ more[Len(more)] = status
    BY <2>3, <2>6
  <2>8. db'.statusChanges \in Maps(Seq(Statuses))
    BY <1>2, <2>4, <2>5, <2>7, WithIsMap, Zenon
  <2>9. DOMAIN db'.statusChanges \subseteq Attendees
    BY <2>4, <2>5 DEF InMemory!With
  <2>10. TablesFit'
    BY <1>1, <1>3, <1>5, <2>8, <2>9 DEF TablesFit, IsMysql
  <2>11. \A x : InMemory!GetStatusChangesByAttendeeId(db', x) =
                 IF x = id THEN more ELSE InMemory!GetStatusChangesByAttendeeId(db, x)
    BY <2>4 DEF InMemory!With, InMemory!GetStatusChangesByAttendeeId
  <2>12. \A x : /\ GetStatusChanges(x) = InMemory!GetStatusChangesByAttendeeId(db, x)
                /\ GetStatusChanges(x)' = InMemory!GetStatusChangesByAttendeeId(db', x)
                /\ GetLatestStatus(x) = InMemory!GetLatestStatus(db, x)
                /\ GetLatestStatus(x)' = InMemory!GetLatestStatus(db', x)
    BY <1>3, <1>5 DEF GetStatusChanges, GetLatestStatus, IsMysql
  <2>13. GetStatusChanges(id) = list /\ GetStatusChanges(id)' = more
    BY <2>2, <2>11, <2>12
  <2>14. \E key : /\ key \notin DOMAIN GetStatusChanges(id)
                  /\ GetStatusChanges(id)' = Promise!Extended(GetStatusChanges(id), key, status)
    <3>1. /\ Len(list) + 1 \notin DOMAIN list
          /\ Append(list, status) = Promise!Extended(list, Len(list) + 1, status)
      BY <2>6, AppendExtends
    <3> QED BY <2>3, <2>13, <3>1
  <2>15. GetLatestStatus(id)' = status
    <3>1. InMemory!GetStatusChangesByAttendeeId(db', id) = more
      BY <2>11
    <3>2. InMemory!GetLatestStatus(db', id) = more[Len(more)]
      BY <2>7, <3>1 DEF InMemory!GetLatestStatus
    <3> QED BY <2>7, <2>12, <3>2
  <2>16. ASSUME NEW x \in Attendees, x # id
         PROVE  /\ GetStatusChanges(x)' = GetStatusChanges(x)
                /\ GetLatestStatus(x)' = GetLatestStatus(x)
    <3>1. InMemory!GetStatusChangesByAttendeeId(db', x) = InMemory!GetStatusChangesByAttendeeId(db, x)
      BY <2>11, <2>16
    <3>2. InMemory!GetLatestStatus(db', x) = InMemory!GetLatestStatus(db, x)
      BY <3>1 DEF InMemory!GetLatestStatus
    <3> QED BY <2>12, <3>1, <3>2
  <2> QED BY <2>10, <2>14, <2>15, <2>16 DEF IsGiven
<1> QED BY <1>4, <1>5

\* Steps that leave the status changes alone, and add no attendees.
LEMMA StatusesKept ==
    ASSUME TablesFit, database' = database, Attendees' = Attendees,
           IF IsMysql THEN db'.status_changes = db.status_changes
           ELSE db'.statusChanges = db.statusChanges,
           DOMAIN db'.adminInfo \subseteq Attendees,
           \A h \in Range(History') : h.entityId \in Attendees
    PROVE  /\ TablesFit'
           /\ StatusesStay
<1>1. TablesFit'
  BY DEF TablesFit, IsMysql
<1>2. StatusesStay
  BY SameStatusChanges
<1> QED BY <1>1, <1>2

LEMMA Recorded ==
    ASSUME Fits, TablesFit, NEW w \in Workers, RecordHistory(w)
    PROVE  /\ TablesFit' /\ db'.attendees = db.attendees
           /\ \A x : GetAdminInfo(x)' = GetAdminInfo(x)
           /\ StatusesStay
<1>1. req[w] \in Request /\ req[w].id \in Attendees
  BY Begun DEF RecordHistory, At
<1>2. PICK h : h = [entity |-> req[w].entity, entityId |-> req[w].id,
                    diff |-> diffReverse(req[w].old, req[w].object)]
  OBVIOUS
<1>3. h \in HistoryEntries /\ h.entityId \in Attendees
  BY <1>1, <1>2, Begun, Answers DEF Fits, RecordHistory, At, HistoryEntries, Request, Ids
<1>4. DbFits' /\ db'.attendees = db.attendees /\ db'.adminInfo = db.adminInfo
  BY <1>2, <1>3, RecordHistoryFits DEF Fits
<1>5. database' = database /\ Attendees' = Attendees /\ DbFits
  BY <1>4 DEF RecordHistory, Attendees, Fits
<1>6. /\ \A e \in Range(History') : e.entityId \in Attendees
      /\ IF IsMysql THEN db'.status_changes = db.status_changes
         ELSE db'.statusChanges = db.statusChanges
  <2>1. CASE IsMysql
    <3>1. MysqlFits(db) /\ db' = Mysql!RecordHistory(db, h)
      BY <1>2, <1>5, <2>1 DEF DbFits, RecordHistory
    <3>2. db'.histories = Append(db.histories, h) /\ db'.status_changes = db.status_changes
      BY <3>1 DEF MysqlFits, Mysql!RecordHistory, Mysql!Create
    <3>3. PICK rows \in Seq(HistoryEntries) : rows = db.histories
      BY <3>1 DEF MysqlFits
    <3>4. ASSUME NEW n \in DOMAIN Append(rows, h)
          PROVE  Append(rows, h)[n] = h \/ (n \in DOMAIN rows /\ Append(rows, h)[n] = rows[n])
      BY <1>3
    <3>5. \A n \in DOMAIN rows : rows[n].entityId \in Attendees
      BY <2>1, <3>3 DEF TablesFit, History, Range
    <3>6. \A n \in DOMAIN db'.histories : db'.histories[n].entityId \in Attendees
      BY <1>3, <3>2, <3>3, <3>4, <3>5
    <3> QED BY <1>5, <2>1, <3>2, <3>6 DEF History, Range, IsMysql
  <2>2. CASE ~IsMysql
    <3>1. MemoryFits(db) /\ db' = InMemory!RecordHistory(db, h)
      BY <1>2, <1>5, <2>2 DEF DbFits, RecordHistory
    <3>2. /\ db'.history = InMemory!With(db.history, db.idSequence + 1, h)
          /\ db'.statusChanges = db.statusChanges
      BY <3>1 DEF MemoryFits, InMemory!RecordHistory
    <3>3. \A n \in DOMAIN db.history : db.history[n].entityId \in Attendees
      BY <2>2 DEF TablesFit, History, Range
    <3>4. \A n \in DOMAIN db'.history : db'.history[n].entityId \in Attendees
      BY <1>3, <3>2, <3>3 DEF InMemory!With
    <3> QED BY <1>5, <2>2, <3>2, <3>4 DEF History, Range, IsMysql
  <2> QED BY <2>1, <2>2
<1>7. DOMAIN db'.adminInfo \subseteq Attendees
  BY <1>4 DEF TablesFit
<1>8. \A x : GetAdminInfo(x)' = GetAdminInfo(x)
  BY <1>4, AdminInfoNow DEF AdminInfoIn
<1>9. TablesFit' /\ StatusesStay
  BY <1>5, <1>6, <1>7, StatusesKept
<1> QED BY <1>4, <1>8, <1>9

LEMMA Updated ==
    ASSUME Fits, TablesFit, NEW w \in Workers, UpdateAttendee(w)
    PROVE  /\ TablesFit'
           /\ db'.attendees = [db.attendees EXCEPT ![req[w].id] = req[w].object]
           /\ \A x : GetAdminInfo(x)' = GetAdminInfo(x)
           /\ StatusesStay
<1>1. req[w].id \in Attendees /\ req[w].object \in Rows /\ DbFits
  BY Begun DEF UpdateAttendee, At, Kind, Fits
<1>2. /\ DbFits' /\ Attendees' = Attendees /\ db'.adminInfo = db.adminInfo /\ History' = History
      /\ \A x \in Attendees :
           db'.attendees[x] = IF x = req[w].id THEN req[w].object ELSE db.attendees[x]
  BY <1>1, UpdateAttendeeFits
<1>3. database' = database
  BY DEF UpdateAttendee
<1>4. IF IsMysql THEN db'.status_changes = db.status_changes
      ELSE db'.statusChanges = db.statusChanges
  <2>1. CASE IsMysql
    BY <1>1, <2>1 DEF DbFits, MysqlFits, UpdateAttendee, Mysql!UpdateAttendee
  <2>2. CASE ~IsMysql
    BY <1>1, <2>2 DEF DbFits, MemoryFits, UpdateAttendee, InMemory!UpdateAttendee
  <2> QED BY <2>1, <2>2
<1>5. /\ DOMAIN db'.adminInfo \subseteq Attendees
      /\ \A h \in Range(History') : h.entityId \in Attendees
  BY <1>2 DEF TablesFit
<1>6. TablesFit' /\ StatusesStay
  BY <1>2, <1>3, <1>4, <1>5, StatusesKept
<1>7. db'.attendees = [x \in Attendees |-> db'.attendees[x]]
  <2>1. CASE IsMysql'
    BY <1>2, <2>1 DEF DbFits, MysqlFits, Attendees
  <2>2. CASE ~IsMysql'
    BY <1>2, <2>2 DEF DbFits, MemoryFits, Maps, Attendees
  <2> QED BY <2>1, <2>2
<1>8. db'.attendees = [db.attendees EXCEPT ![req[w].id] = req[w].object]
  BY <1>2, <1>7 DEF Attendees
<1>9. \A x : GetAdminInfo(x)' = GetAdminInfo(x)
  BY <1>2, AdminInfoNow DEF AdminInfoIn
<1> QED BY <1>6, <1>8, <1>9

LEMMA Written ==
    ASSUME Fits, TablesFit, NEW w \in Workers, WriteAdminInfo(w)
    PROVE  /\ TablesFit' /\ db'.attendees = db.attendees
           /\ \A x : GetAdminInfo(x)' = IF x = req[w].id THEN req[w].object ELSE GetAdminInfo(x)
           /\ StatusesStay
<1>1. req[w].id \in Attendees /\ req[w].id \in Ids /\ req[w].object \in Infos /\ DbFits
  BY Begun, Answers DEF WriteAdminInfo, At, Kind, Fits
<1>2. DbFits' /\ db'.attendees = db.attendees /\ History' = History
  BY <1>1, WriteAdminInfoFits
<1>3. database' = database /\ Attendees' = Attendees
  BY <1>2 DEF WriteAdminInfo, Attendees
<1>4. /\ IF IsMysql THEN db'.status_changes = db.status_changes
         ELSE db'.statusChanges = db.statusChanges
      /\ DOMAIN db'.adminInfo \subseteq DOMAIN db.adminInfo \cup {req[w].id}
  <2>1. CASE IsMysql
    <3>1. MysqlFits(db) /\ db' = Mysql!WriteAdminInfo(db, req[w].id, req[w].object)
      BY <1>1, <2>1 DEF DbFits, WriteAdminInfo
    <3>2. /\ db'.status_changes = db.status_changes
          /\ db'.adminInfo = Mysql!Save(db.adminInfo, req[w].id, req[w].object)
      BY <3>1 DEF MysqlFits, Mysql!WriteAdminInfo
    <3> QED BY <2>1, <3>2 DEF Mysql!Save
  <2>2. CASE ~IsMysql
    <3>1. MemoryFits(db) /\ db' = InMemory!WriteAdminInfo(db, req[w].id, req[w].object)
      BY <1>1, <2>2 DEF DbFits, WriteAdminInfo
    <3>2. /\ db'.statusChanges = db.statusChanges
          /\ db'.adminInfo = InMemory!With(db.adminInfo, req[w].id, req[w].object)
      BY <1>1, <3>1 DEF MemoryFits, InMemory!WriteAdminInfo, Ids
    <3> QED BY <2>2, <3>2 DEF InMemory!With
  <2> QED BY <2>1, <2>2
<1>5. /\ DOMAIN db'.adminInfo \subseteq Attendees
      /\ \A h \in Range(History') : h.entityId \in Attendees
  BY <1>1, <1>2, <1>4 DEF TablesFit
<1>6. TablesFit' /\ StatusesStay
  BY <1>3, <1>4, <1>5, StatusesKept
<1>7. \A x : GetAdminInfo(x)' = IF x = req[w].id THEN req[w].object ELSE GetAdminInfo(x)
  BY WrittenFits, AdminInfoNow
<1> QED BY <1>2, <1>6, <1>7

\* Steps that leave the database alone.
LEMMA TablesUnchanged ==
    ASSUME TablesFit, UNCHANGED <<database, db>>
    PROVE  /\ TablesFit' /\ db'.attendees = db.attendees
           /\ \A x : GetAdminInfo(x)' = GetAdminInfo(x)
           /\ StatusesStay
<1>1. TablesFit'
  BY DEF TablesFit, IsMysql, Attendees, History
<1>2. \A x : GetAdminInfo(x)' = GetAdminInfo(x)
  BY AdminInfoNow DEF AdminInfoIn
<1>3. StatusesStay
  <2>1. Attendees' = Attendees /\ History' = History
    BY DEF Attendees, History, IsMysql
  <2> QED BY <2>1, StatusesKept DEF TablesFit
<1> QED BY <1>1, <1>2, <1>3

-----------------------------------------------------------------------------
LEMMA SoundInit == Init => Sound
<1> SUFFICES ASSUME Init PROVE Sound
  OBVIOUS
<1>1. Fits
  BY FitsInit
<1>2. req = [w \in Workers |-> req[w]]
  BY DEF Init
<1>3. TablesFit
  <2>1. CASE IsMysql
    <3>1. db = Mysql!Migrate
      BY <2>1 DEF Init
    <3>2. /\ db.attendees = << >> /\ db.histories = << >> /\ db.status_changes = << >>
          /\ DOMAIN db.adminInfo = {}
      BY <3>1 DEF Mysql!Migrate
    <3> QED BY <2>1, <3>2 DEF TablesFit, Attendees, History, Range
  <2>2. CASE ~IsMysql
    <3>1. db = InMemory!Open
      BY <2>2 DEF Init
    <3>2. DOMAIN InMemory!EmptyMap = {}
      BY DEF InMemory!EmptyMap
    <3>3. /\ DOMAIN db.attendees = {} /\ DOMAIN db.history = {} /\ DOMAIN db.adminInfo = {}
          /\ db.statusChanges = InMemory!EmptyMap
      BY <3>1, <3>2 DEF InMemory!Open
    <3>4. InMemory!EmptyMap \in Maps(Seq(Statuses))
      BY EmptyIsMap DEF InMemory!EmptyMap
    <3>5. (\A h \in Range(History) : h.entityId \in Attendees) /\ Attendees = {}
      BY <2>2, <3>3 DEF History, Range, Attendees
    <3> QED BY <2>2, <3>2, <3>3, <3>4, <3>5 DEF TablesFit
  <2> QED BY <2>1, <2>2
<1> QED BY <1>1, <1>2, <1>3 DEF Sound

\* Requests go on one at a time, or end all at once.
LEMMA RequestsStep ==
    ASSUME [Next]_vars, req = [w \in Workers |-> req[w]]
    PROVE  req' = [w \in Workers |-> req'[w]]
<1>1. \/ req' = req
      \/ \E w \in Workers : \E r : req' = [req EXCEPT ![w] = r]
      \/ req' = [w \in Workers |-> Idle]
  <2>1. ASSUME NEW w \in Workers, NEW object,
               \/ Edit(w, object) \/ TurnDown(w) \/ ReadOldVersion(w) \/ RecordHistory(w)
               \/ UpdateAttendee(w) \/ WriteAdminInfo(w) \/ AccessFails(w)
               \/ \E id \in Attendees : LoadAttendee(w, id) \/ LoadAdminInfo(w, id)
        PROVE  \E r : req' = [req EXCEPT ![w] = r]
    BY <2>1 DEF Edit, TurnDown, ReadOldVersion, RecordHistory, UpdateAttendee, WriteAdminInfo,
                AccessFails, LoadAttendee, LoadAdminInfo, Continue, Respond
  <2>2. ASSUME NEW row \in Rows, AddAttendee(row) PROVE req' = req
    BY <2>2 DEF AddAttendee
  <2>3. ASSUME NEW id, NEW status, AddStatusChange(id, status) PROVE req' = req
    BY <2>3 DEF AddStatusChange
  <2>4. Restart => req' = [w \in Workers |-> Idle]
    BY DEF Restart
  <2>5. UNCHANGED vars => req' = req
    BY DEF vars
  <2> QED BY <2>1, <2>2, <2>3, <2>4, <2>5 DEF Next
<1> QED BY <1>1

LEMMA SoundStep == Sound /\ [Next]_vars => Sound'
<1> SUFFICES ASSUME Sound, [Next]_vars PROVE Sound'
  OBVIOUS
<1>1. Fits /\ Fits' /\ DbFits /\ TablesFit
  BY FitsStep DEF Sound, Fits
<1>2. req' = [w \in Workers |-> req'[w]]
  BY RequestsStep DEF Sound
<1>3. TablesFit'
  <2>1. ASSUME NEW row \in Rows, AddAttendee(row) PROVE TablesFit'
    BY <1>1, <2>1, Added
  <2>2. ASSUME NEW id \in Attendees, NEW status \in Statuses, AddStatusChange(id, status)
        PROVE  TablesFit'
    BY <1>1, <2>2, StatusGiven
  <2>3. ASSUME NEW w \in Workers, RecordHistory(w) \/ UpdateAttendee(w) \/ WriteAdminInfo(w)
        PROVE  TablesFit'
    BY <1>1, <2>3, Recorded, Updated, Written
  <2>4. ASSUME NEW w \in Workers, NEW object, Edit(w, object) PROVE TablesFit'
    <3>1. ~req[w].shared
      BY <1>1, <2>4, Begun DEF Edit, At
    <3> QED BY <1>1, <2>4, <3>1, TablesUnchanged DEF Edit
  <2>5. ASSUME UNCHANGED vars \/ Restart \/ \E w \in Workers :
                 \/ TurnDown(w) \/ AccessFails(w) \/ ReadOldVersion(w)
                 \/ \E x \in Attendees : LoadAttendee(w, x) \/ LoadAdminInfo(w, x)
        PROVE  TablesFit'
    <3>1. UNCHANGED <<database, db>>
      BY <2>5 DEF vars, Restart, TurnDown, AccessFails, ReadOldVersion, LoadAttendee, LoadAdminInfo
    <3> QED BY <1>1, <3>1, TablesUnchanged
  <2> QED BY <2>1, <2>2, <2>3, <2>4, <2>5 DEF Next
<1> QED BY <1>1, <1>2, <1>3 DEF Sound

THEOREM SoundHolds == Spec => []Sound
<1> QED BY SoundInit, SoundStep, PTL DEF Spec

-----------------------------------------------------------------------------
LEMMA SoundTypes == Sound => TypeOK
<1> SUFFICES ASSUME Sound PROVE TypeOK
  OBVIOUS
<1>1. DbFits /\ TablesFit /\ database \in {"inmemory", "mysql"}
  BY DEF Sound, Fits, DbFits
<1>2. req \in [Workers -> Request \cup {Idle}]
  <2>1. \A w \in Workers : req[w] \in Request \cup {Idle}
    BY DEF Sound, Fits, RequestFits
  <2>2. req = [w \in Workers |-> req[w]]
    BY DEF Sound
  <2> QED BY <2>1, <2>2
<1>3. Range(db.attendees) \subseteq Rows /\ Attendees \subseteq Nat \ {0}
  BY <1>1, Answers DEF Range, Attendees, Ids
<1>4. ASSUME NEW id \in Attendees
      PROVE  GetAdminInfo(id) \in Infos /\ Range(GetStatusChanges(id)) \subseteq Statuses
  <2>1. GetAdminInfo(id) \in Infos
    BY <1>1, Answers
  <2>2. CASE IsMysql
    BY <1>1, <2>1, <2>2, StatusesTyped DEF TablesFit, GetStatusChanges
  <2>3. CASE ~IsMysql
    <3>1. db.statusChanges \in Maps(Seq(Statuses))
      BY <1>1, <2>3 DEF TablesFit
    <3>2. PICK list : list = InMemory!GetStatusChangesByAttendeeId(db, id)
      OBVIOUS
    <3>3. list \in Seq(Statuses)
      BY <3>1, <3>2 DEF Maps, InMemory!GetStatusChangesByAttendeeId
    <3>4. Range(list) \subseteq Statuses
      BY <3>3 DEF Range
    <3> QED BY <2>1, <2>3, <3>2, <3>4 DEF GetStatusChanges
  <2> QED BY <2>2, <2>3
<1> QED BY <1>1, <1>2, <1>3, <1>4 DEF TypeOK, TablesFit

LEMMA IdsOfObjects ==
    ASSUME NEW ids, NEW v, NEW objects,
           \A o : o \in objects <=> \E i \in ids : o = [id |-> i, shared |-> v]
    PROVE  {o.id : o \in objects} = ids
<1>1. \A o \in objects : o.id \in ids
  OBVIOUS
<1>2. ASSUME NEW i \in ids PROVE \E o \in objects : o.id = i
  <2>1. [id |-> i, shared |-> v] \in objects /\ [id |-> i, shared |-> v].id = i
    OBVIOUS
  <2> QED BY <2>1
<1>3. \A x : x \in {o.id : o \in objects} <=> x \in ids
  BY <1>1, <1>2
<1> QED BY <1>3

LEMMA Owners == OwnersOwnTheirs
<1> SUFFICES ASSUME NEW s \in Subjects \cup {""}
             PROVE  LET owned == {o.id : o \in IsOwnerFor(s)} IN
                    /\ s # "" => {id \in Attendees : db.attendees[id].identity = s} \subseteq owned
                    /\ \A id \in owned : s # "" /\ Fold(db.attendees[id].identity) = Fold(s)
  BY DEF OwnersOwnTheirs
<1>1. CASE s = ""
  BY <1>1 DEF IsOwnerFor
<1>2. CASE s # "" /\ IsMysql
  <2>1. PICK ids : ids = {i \in Attendees : Fold(db.attendees[i].identity) = Fold(s)}
    OBVIOUS
  <2>2. \A o : o \in IsOwnerFor(s) <=> \E i \in ids : o = [id |-> i, shared |-> FALSE]
    BY <1>2, <2>1 DEF IsOwnerFor, FindByIdentity, Mysql!FindByIdentity, Mysql!Where, Attendees
  <2>3. {o.id : o \in IsOwnerFor(s)} = ids
    BY <2>2, IdsOfObjects, Zenon
  <2> QED BY <1>2, <2>1, <2>3
<1>3. CASE s # "" /\ ~IsMysql
  <2>1. PICK ids : ids = {i \in Attendees : db.attendees[i].identity = s}
    OBVIOUS
  <2>2. \A o : o \in IsOwnerFor(s) <=> \E i \in ids : o = [id |-> i, shared |-> TRUE]
    BY <1>3, <2>1 DEF IsOwnerFor, FindByIdentity, InMemory!FindByIdentity, Attendees
  <2>3. {o.id : o \in IsOwnerFor(s)} = ids
    BY <2>2, IdsOfObjects, Zenon
  <2> QED BY <1>3, <2>1, <2>3
<1> QED BY <1>1, <1>2, <1>3

-----------------------------------------------------------------------------
\* A request goes on: the draft of its worker changes and no other.
LEMMA DraftChanged ==
    ASSUME Sound, NEW w \in Workers, NEW r, req' = [req EXCEPT ![w] = r]
    PROVE  drafts' = [drafts EXCEPT ![w] = DraftOf(r)]
<1>1. \A v \in Workers : req'[v] = IF v = w THEN r ELSE req[v]
  BY DEF Sound
<1>2. \A v \in Workers : DraftOf(req'[v]) = IF v = w THEN DraftOf(r) ELSE DraftOf(req[v])
  BY <1>1
<1> QED BY <1>2, Zenon DEF drafts

LEMMA IdleDraft == DraftOf(Idle) = Promise!NoDraft
BY DEF DraftOf, Idle, Promise!NoDraft

StatusesSeenStay == statuses' = statuses /\ latest' = latest

\* The tables stay, as the abstract repository sees them.
LEMMA TablesSeen ==
    ASSUME db'.attendees = db.attendees,
           \A x : GetAdminInfo(x)' = GetAdminInfo(x),
           StatusesStay
    PROVE  db'.attendees = db.attendees /\ infos' = infos /\ StatusesSeenStay
<1>1. Attendees' = Attendees
  BY DEF Attendees
<1> QED BY <1>1 DEF infos, statuses, latest, StatusesStay, StatusesSeenStay

LEMMA AddedSeen ==
    ASSUME Sound, NEW row \in Rows, AddAttendee(row)
    PROVE  Promise!AddAttendee
<1>1. DbFits /\ TablesFit
  BY DEF Sound, Fits
<1>2. PICK id : IsAdded(row, id)
  BY <1>1, Added
<1>3. Attendees' = Attendees \cup {id}
  BY <1>2 DEF IsAdded, Promise!Extended, Attendees
<1>4. \A x \in Attendees' : GetAdminInfo(x)' =
        IF x = id THEN NoInfo ELSE infos[x]
  BY <1>2, <1>3 DEF IsAdded, infos
<1>5. infos' = Promise!Extended(infos, id, NoInfo)
  BY <1>3, <1>4 DEF Promise!Extended, infos
<1>6. \A x \in Attendees' :
        /\ GetStatusChanges(x)' = IF x = id THEN Promise!NoStatusChanges ELSE statuses[x]
        /\ GetLatestStatus(x)' = IF x = id THEN "new" ELSE latest[x]
  BY <1>2, <1>3 DEF IsAdded, StatusesStay, statuses, latest
<1>7. /\ statuses' = Promise!Extended(statuses, id, Promise!NoStatusChanges)
      /\ latest' = Promise!Extended(latest, id, "new")
  BY <1>3, <1>6 DEF Promise!Extended, statuses, latest
<1>8. drafts' = drafts
  BY DEF AddAttendee, drafts
<1>9. id \in DOMAIN db'.attendees /\ \A other \in DOMAIN db.attendees : other < id
  BY <1>2, <1>3 DEF IsAdded, Attendees
<1>10. db'.attendees = Promise!Extended(db.attendees, id, row)
  BY <1>2 DEF IsAdded
<1> QED BY <1>5, <1>7, <1>8, <1>9, <1>10, Zenon DEF Promise!AddAttendee

LEMMA StatusSeen ==
    ASSUME Sound, NEW id \in Attendees, NEW status \in Statuses, AddStatusChange(id, status)
    PROVE  Promise!AddStatusChange
<1>1. DbFits /\ TablesFit
  BY DEF Sound, Fits
<1>2. db'.attendees = db.attendees /\ db'.adminInfo = db.adminInfo
  BY <1>1, AddStatusChangeFits
<1>3. Attendees' = Attendees /\ infos' = infos
  BY <1>2, AdminInfoNow DEF Attendees, infos, AdminInfoIn
<1>4. IsGiven(id, status)
  BY <1>1, StatusGiven
<1>5. PICK key : /\ key \notin DOMAIN statuses[id]
                 /\ GetStatusChanges(id)' = Promise!Extended(statuses[id], key, status)
  BY <1>4 DEF IsGiven, statuses
<1>6. statuses' = [statuses EXCEPT ![id] = Promise!Extended(@, key, status)]
  BY <1>3, <1>4, <1>5 DEF IsGiven, statuses
<1>7. key \in DOMAIN statuses'[id] \ DOMAIN statuses[id]
  <2>1. statuses'[id] = Promise!Extended(statuses[id], key, status)
    BY <1>6 DEF statuses
  <2> QED BY <1>5, <2>1 DEF Promise!Extended
<1>8. latest' = [latest EXCEPT ![id] = status]
  BY <1>3, <1>4 DEF IsGiven, latest
<1>9. drafts' = drafts
  BY DEF AddStatusChange, drafts
<1>10. id \in DOMAIN db.attendees
  BY DEF Attendees
<1> QED BY <1>2, <1>3, <1>6, <1>7, <1>8, <1>9, <1>10 DEF Promise!AddStatusChange

LEMMA LoadSeen ==
    ASSUME Sound, NEW w \in Workers, NEW id \in Attendees,
           LoadAttendee(w, id) \/ LoadAdminInfo(w, id)
    PROVE  Promise!Load(w)
<1>1. DbFits /\ TablesFit /\ UNCHANGED <<database, db>> /\ At(w, "idle")
  BY DEF Sound, Fits, LoadAttendee, LoadAdminInfo
<1>2. db'.attendees = db.attendees /\ infos' = infos /\ StatusesSeenStay
  BY <1>1, TablesUnchanged, TablesSeen
<1>3. drafts[w] = Promise!NoDraft
  BY <1>1 DEF drafts, DraftOf, At, Promise!NoDraft
<1>4. id \in DOMAIN db.attendees
  BY DEF Attendees
<1>5. CASE LoadAttendee(w, id)
  <2>1. PICK r : /\ req' = [req EXCEPT ![w] = r]
                 /\ r = [pc |-> "edit", entity |-> "Attendee", id |-> id,
                         object |-> db.attendees[id], shared |-> FALSE, old |-> NoInfo]
    <3>1. GetAttendeeById(id) = [row |-> db.attendees[id], shared |-> FALSE]
      BY <1>1, Answers
    <3>2. GetAttendeeById(id).row = db.attendees[id] /\ GetAttendeeById(id).shared = FALSE
      BY <3>1
    <3> QED BY <1>5, <3>2 DEF LoadAttendee, Continue
  <2>2. DraftOf(r) = Promise!Draft("Attendee", id, db.attendees[id])
    BY <2>1 DEF DraftOf, Promise!Draft
  <2>3. drafts' = [drafts EXCEPT ![w] = Promise!Draft("Attendee", id, db.attendees[id])]
    BY <2>1, <2>2, DraftChanged
  <2> QED BY <1>2, <1>3, <1>4, <2>3 DEF Promise!Load, Promise!tables, StatusesSeenStay
<1>6. CASE LoadAdminInfo(w, id)
  <2>1. PICK r : /\ req' = [req EXCEPT ![w] = r]
                 /\ r = [pc |-> "edit", entity |-> "AdminInfo", id |-> id,
                         object |-> infos[id], shared |-> FALSE, old |-> NoInfo]
    BY <1>6 DEF LoadAdminInfo, Continue, infos
  <2>2. DraftOf(r) = Promise!Draft("AdminInfo", id, infos[id])
    BY <2>1 DEF DraftOf, Promise!Draft
  <2>3. drafts' = [drafts EXCEPT ![w] = Promise!Draft("AdminInfo", id, infos[id])]
    BY <2>1, <2>2, DraftChanged
  <2> QED BY <1>2, <1>3, <1>4, <2>3 DEF Promise!Load, Promise!tables, StatusesSeenStay
<1> QED BY <1>5, <1>6

LEMMA EditSeen ==
    ASSUME Sound, NEW w \in Workers, NEW object, Edit(w, object)
    PROVE  Promise!Edit(w)
<1>1. /\ req[w] \in Request /\ ~req[w].shared /\ req[w].pc # "idle"
      /\ req[w].entity \in {"Attendee", "AdminInfo"}
  BY Begun DEF Sound, Edit, At, Request
<1>2. UNCHANGED <<database, db>> /\ TablesFit
  BY <1>1 DEF Edit, Sound
<1>3. db'.attendees = db.attendees /\ infos' = infos /\ StatusesSeenStay
  BY <1>2, TablesUnchanged, TablesSeen
<1>4. PICK r : req' = [req EXCEPT ![w] = r] /\ r = [req[w] EXCEPT !.pc = "old", !.object = object]
  BY DEF Edit, Continue
<1>5. PICK d : d = drafts[w]
  OBVIOUS
<1>6. d = [entity |-> req[w].entity, id |-> req[w].id, object |-> req[w].object]
  BY <1>1, <1>5 DEF drafts, DraftOf
<1>7. DraftOf(r) = [d EXCEPT !.object = object]
  <2>1. r.pc = "old" /\ r.object = object /\ r.entity = req[w].entity /\ r.id = req[w].id
    BY <1>1, <1>4 DEF Request
  <2> QED BY <1>6, <2>1 DEF DraftOf
<1>8. drafts' = [drafts EXCEPT ![w].object = object]
  BY <1>4, <1>5, <1>7, DraftChanged
<1>9. \/ d.entity = "Attendee" /\ object \in Rows /\ object.identity = d.object.identity
      \/ d.entity = "AdminInfo" /\ object \in Infos
  BY <1>1, <1>6 DEF Edit
<1> QED BY <1>3, <1>5, <1>8, <1>9 DEF Promise!Edit, Promise!tables, StatusesSeenStay

LEMMA UpdateSeen ==
    ASSUME Sound, NEW w \in Workers, UpdateAttendee(w)
    PROVE  Promise!UpdateAttendee(w)
<1>1. Fits /\ TablesFit
  BY DEF Sound
<1>2. /\ db'.attendees = [db.attendees EXCEPT ![req[w].id] = req[w].object]
      /\ \A x : GetAdminInfo(x)' = GetAdminInfo(x)
      /\ StatusesStay
  BY <1>1, Updated
<1>3. Attendees' = Attendees
  BY <1>2 DEF Attendees
<1>4. infos' = infos /\ StatusesSeenStay
  BY <1>2, <1>3 DEF infos, statuses, latest, StatusesStay, StatusesSeenStay
<1>5. drafts[w] = [entity |-> "Attendee", id |-> req[w].id, object |-> req[w].object]
  BY DEF UpdateAttendee, At, drafts, DraftOf
<1>6. drafts' = [drafts EXCEPT ![w] = Promise!NoDraft]
  BY DraftChanged, IdleDraft DEF UpdateAttendee, Respond
<1> QED BY <1>2, <1>4, <1>5, <1>6 DEF Promise!UpdateAttendee, StatusesSeenStay

LEMMA WriteSeen ==
    ASSUME Sound, NEW w \in Workers, WriteAdminInfo(w)
    PROVE  Promise!WriteAdminInfo(w)
<1>1. Fits /\ TablesFit
  BY DEF Sound
<1>2. /\ db'.attendees = db.attendees
      /\ \A x : GetAdminInfo(x)' = IF x = req[w].id THEN req[w].object ELSE GetAdminInfo(x)
      /\ StatusesStay
  BY <1>1, Written
<1>3. Attendees' = Attendees
  BY <1>2 DEF Attendees
<1>4. StatusesSeenStay
  BY <1>2, <1>3 DEF statuses, latest, StatusesStay, StatusesSeenStay
<1>5. infos' = [infos EXCEPT ![req[w].id] = req[w].object]
  BY <1>2, <1>3 DEF infos
<1>6. drafts[w] = [entity |-> "AdminInfo", id |-> req[w].id, object |-> req[w].object]
  BY DEF WriteAdminInfo, At, drafts, DraftOf
<1>7. drafts' = [drafts EXCEPT ![w] = Promise!NoDraft]
  BY DraftChanged, IdleDraft DEF WriteAdminInfo, Respond
<1> QED BY <1>2, <1>4, <1>5, <1>6, <1>7 DEF Promise!WriteAdminInfo, StatusesSeenStay

LEMMA DiscardSeen ==
    ASSUME Sound, NEW w \in Workers, TurnDown(w) \/ AccessFails(w)
    PROVE  Promise!Discard(w)
<1>1. UNCHANGED <<database, db>> /\ Respond(w) /\ TablesFit
  BY DEF TurnDown, AccessFails, Sound
<1>2. db'.attendees = db.attendees /\ infos' = infos /\ StatusesSeenStay
  BY <1>1, TablesUnchanged, TablesSeen
<1>3. drafts' = [drafts EXCEPT ![w] = Promise!NoDraft]
  BY <1>1, DraftChanged, IdleDraft DEF Respond
<1> QED BY <1>2, <1>3 DEF Promise!Discard, Promise!tables, StatusesSeenStay

LEMMA RestartSeen == ASSUME Sound, Restart PROVE Promise!Restart
<1>1. UNCHANGED <<database, db>> /\ req' = [w \in Workers |-> Idle] /\ TablesFit
  BY DEF Restart, Sound
<1>2. db'.attendees = db.attendees /\ infos' = infos /\ StatusesSeenStay
  BY <1>1, TablesUnchanged, TablesSeen
<1>3. drafts' = [w \in Workers |-> Promise!NoDraft]
  BY <1>1, IdleDraft DEF drafts
<1> QED BY <1>2, <1>3 DEF Promise!Restart, Promise!tables, StatusesSeenStay

\* The accesses before the save, which the services do not see.
LEMMA Unseen ==
    ASSUME Sound,
           UNCHANGED vars \/ \E w \in Workers : ReadOldVersion(w) \/ RecordHistory(w)
    PROVE  UNCHANGED <<db.attendees, infos, statuses, latest, drafts>>
<1>1. Fits /\ TablesFit
  BY DEF Sound
<1>2. CASE UNCHANGED vars
  <2>1. UNCHANGED <<database, db>> /\ req' = req
    BY <1>2 DEF vars
  <2>2. drafts' = drafts
    BY <2>1 DEF drafts
  <2> QED BY <1>1, <2>1, <2>2, TablesUnchanged, TablesSeen DEF StatusesSeenStay
<1>3. ASSUME NEW w \in Workers, ReadOldVersion(w) \/ RecordHistory(w)
      PROVE  UNCHANGED <<db.attendees, infos, statuses, latest, drafts>>
  <2>1. req[w] \in Request /\ req[w].pc # "idle"
    BY <1>1, <1>3, Begun DEF ReadOldVersion, RecordHistory, At
  <2>2. PICK r : /\ req' = [req EXCEPT ![w] = r]
                 /\ r.pc # "idle" /\ r.entity = req[w].entity /\ r.id = req[w].id
                 /\ r.object = req[w].object
    <3>1. CASE ReadOldVersion(w)
      <4>1. PICK old, r : /\ req' = [req EXCEPT ![w] = r]
                          /\ r = [req[w] EXCEPT !.pc = "history", !.old = old]
        BY <3>1 DEF ReadOldVersion, Continue
      <4>2. r.pc # "idle" /\ r.entity = req[w].entity /\ r.id = req[w].id /\ r.object = req[w].object
        BY <2>1, <4>1 DEF Request
      <4> QED BY <4>1, <4>2
    <3>2. CASE RecordHistory(w)
      <4>1. PICK r : req' = [req EXCEPT ![w] = r] /\ r = [req[w] EXCEPT !.pc = "save"]
        BY <3>2 DEF RecordHistory, Continue
      <4>2. r.pc # "idle" /\ r.entity = req[w].entity /\ r.id = req[w].id /\ r.object = req[w].object
        BY <2>1, <4>1 DEF Request
      <4> QED BY <4>1, <4>2
    <3> QED BY <1>3, <3>1, <3>2
  <2>3. DraftOf(r) = drafts[w]
    BY <2>1, <2>2 DEF DraftOf, drafts
  <2>4. drafts' = drafts
    <3>1. drafts' = [drafts EXCEPT ![w] = drafts[w]]
      BY <2>2, <2>3, DraftChanged
    <3> QED BY <3>1 DEF drafts
  <2>5. db'.attendees = db.attendees /\ infos' = infos /\ StatusesSeenStay
    BY <1>1, <1>3, TablesUnchanged, TablesSeen, Recorded DEF ReadOldVersion
  <2> QED BY <2>4, <2>5 DEF StatusesSeenStay
<1> QED BY <1>2, <1>3

LEMMA PromiseInit == Init => Promise!Init
<1> SUFFICES ASSUME Init PROVE Promise!Init
  OBVIOUS
<1>1. \A w \in Workers : DraftOf(req[w]) = Promise!NoDraft
  BY IdleDraft DEF Init
<1>2. drafts = [w \in Workers |-> Promise!NoDraft]
  BY <1>1 DEF drafts
<1>3. db.attendees = [id \in {} |-> NoInfo]
  <2>1. CASE IsMysql
    <3>1. db.attendees = << >>
      BY <2>1 DEF Init, Mysql!Migrate
    <3> QED BY <3>1
  <2>2. CASE ~IsMysql
    BY <2>2 DEF Init, InMemory!Open, InMemory!EmptyMap
  <2> QED BY <2>1, <2>2
<1>4. Attendees = {}
  BY <1>3 DEF Attendees
<1>5. /\ infos = [id \in {} |-> NoInfo] /\ latest = [id \in {} |-> "new"]
      /\ statuses = [id \in {} |-> Promise!NoStatusChanges]
  BY <1>4 DEF infos, statuses, latest
<1> QED BY <1>2, <1>3, <1>5 DEF Promise!Init

\* Every step of either database is one of the abstract repository, or one it does not see.
LEMMA PromiseStep ==
    Sound /\ [Next]_vars => [Promise!Next]_<<Promise!tables, drafts>>
<1> SUFFICES ASSUME Sound, [Next]_vars
             PROVE  Promise!Next \/ UNCHANGED <<db.attendees, infos, statuses, latest, drafts>>
  BY DEF Promise!tables, StatusesSeenStay
<1>1. ASSUME NEW row \in Rows, AddAttendee(row) PROVE Promise!Next
  BY <1>1, AddedSeen DEF Promise!Next
<1>2. ASSUME NEW id \in Attendees, NEW status \in Statuses, AddStatusChange(id, status)
      PROVE  Promise!Next
  BY <1>2, StatusSeen DEF Promise!Next
<1>3. ASSUME NEW w \in Workers, NEW id \in Attendees, LoadAttendee(w, id) \/ LoadAdminInfo(w, id)
      PROVE  Promise!Next
  BY <1>3, LoadSeen DEF Promise!Next
<1>4. ASSUME NEW w \in Workers, NEW object, Edit(w, object) PROVE Promise!Next
  BY <1>4, EditSeen DEF Promise!Next
<1>5. ASSUME NEW w \in Workers, UpdateAttendee(w) \/ WriteAdminInfo(w) PROVE Promise!Next
  BY <1>5, UpdateSeen, WriteSeen DEF Promise!Next
<1>6. ASSUME NEW w \in Workers, TurnDown(w) \/ AccessFails(w) PROVE Promise!Next
  BY <1>6, DiscardSeen DEF Promise!Next
<1>7. Restart => Promise!Next
  BY RestartSeen DEF Promise!Next
<1> QED BY <1>1, <1>2, <1>3, <1>4, <1>5, <1>6, <1>7, Unseen DEF Next

-----------------------------------------------------------------------------
\* Both databases stay in order: tables speak only of attendees that exist, and what a
\* request works on is of the kind it should be.
THEOREM TypesHold == Spec => []TypeOK
<1> QED BY SoundHolds, SoundTypes, PTL

\* On either database a user owns the registrations with that identity, up to the
\* collation, and nobody none, whatever the tables hold.
THEOREM OwnersHold == Spec => []OwnersOwnTheirs
<1> QED BY Owners, PTL

\* Either database with the historizing repository around it implements the repository
\* the services expect: a step is a step of it or is not seen.
THEOREM PromiseKept == Spec => KeepsPromise
<1> QED BY SoundHolds, PromiseInit, PromiseStep, PTL DEF Spec, KeepsPromise, Promise!Spec
=============================================================================
