-------------------------- MODULE StatusDues_proofs --------------------------
(***************************************************************************)
(* Proofs about StatusDues, for any attendees, users, tax rates, packages, *)
(* payments and number of requests in progress.                            *)
(***************************************************************************)
EXTENDS StatusDues, TLAPS

-----------------------------------------------------------------------------
(* What the operators on accounts and requests return. *)

\* No account and no desired dues leave the types.
LEMMA NoDuesType == NoDues \in [VATs -> Int]
  BY DEF NoDues

LEMMA NoDebitorType == NoDebitor \in AccountType
  BY DEF NoDebitor, AccountType, NoDues

\* Booking a due keeps an account an account.
LEMMA WithDueType ==
  ASSUME NEW acc \in AccountType, NEW v \in VATs, NEW c \in Int
  PROVE  WithDue(acc, v, c) \in AccountType
<1>1. [vat |-> v, cent |-> c] \in Due
  BY DEF Due
<1>2. [acc.dues EXCEPT ![v] = @ + c] \in [VATs -> Int]
  BY DEF AccountType
<1>. QED
  BY <1>1, <1>2 DEF WithDue, AccountType

\* So does a payment.
LEMMA WithPaymentType ==
  ASSUME NEW acc \in AccountType, NEW c \in Int
  PROVE  WithPayment(acc, c) \in AccountType
<1>1. (acc.pays \/ c # 0) \in BOOLEAN
  OBVIOUS
<1>2. acc.paid + c \in Int
  BY DEF AccountType
<1>. QED
  BY <1>1, <1>2 DEF WithPayment, AccountType

\* The dues to be reached are integers.
LEMMA DesiredDuesType ==
  ASSUME NEW new \in Statuses, NEW s \in Selections
  PROVE  DesiredDues(new, s) \in [VATs -> Int]
  BY NoDuesType, PackageAssumption DEF DesiredDues

\* Choosing the next access changes nothing else of a request.
LEMMA AdjustingType ==
  ASSUME NEW r \in Request
  PROVE  Adjusting(r) \in Request
  BY DEF Adjusting, Request, Steps

LEMMA VoidingType ==
  ASSUME NEW r \in Request
  PROVE  Voiding(r) \in Request
  BY DEF Voiding, Request, Steps

\* A request at a step is a request, not the idle record.
LEMMA BusyType ==
  ASSUME TypeOK, NEW w \in Workers, Busy(w)
  PROVE  req[w] \in Request
  BY DEF TypeOK, Busy, Idle

LEMMA ContinueType ==
  ASSUME TypeOK, NEW w \in Workers, NEW r \in Request \cup {Idle}, Continue(w, r)
  PROVE  req' \in [Workers -> Request \cup {Idle}]
  BY DEF TypeOK, Continue

LEMMA RespondType ==
  ASSUME TypeOK, NEW w \in Workers, Respond(w)
  PROVE  req' \in [Workers -> Request \cup {Idle}]
  BY DEF TypeOK, Respond

-----------------------------------------------------------------------------
(* Type correctness, whatever requests run side by side. *)

LEMMA InitType == Init => TypeOK
<1>. SUFFICES ASSUME Init PROVE TypeOK
  OBVIOUS
<1>1. account \in [Attendees -> AccountType]
  BY NoDebitorType DEF Init
<1>. QED
  BY <1>1 DEF Init, TypeOK, Statuses

LEMMA ArriveType ==
  ASSUME TypeOK, NEW w \in Workers, NEW a \in Attendees, Arrive(w, a)
  PROVE  TypeOK'
<1>1. PICK kind \in Kinds, by \in Callers, to \in Statuses : Receive(w, kind, a, by, to)
  BY RequestedAssumption DEF Arrive, ReceiveStatusChange, ReceiveUpdate, Kinds, Statuses
<1>. DEFINE r == [pc |-> IF kind = "status" THEN "latest" ELSE "write",
                  kind |-> kind, att |-> a, by |-> by, pkg |-> packages[a],
                  old |-> "new", new |-> to, to |-> to, desk |-> {},
                  diff |-> NoDues, void |-> << >>, pool |-> 0, seen |-> 0]
<1>2. r \in Request
  <2>1. packages[a] \in Selections
    BY DEF TypeOK
  <2>2. "new" \in Statuses /\ {"latest", "write"} \subseteq Steps
    BY DEF Statuses, Steps
  <2>3. << >> \in Seq(Due)
    OBVIOUS
  <2>. QED
    BY <2>1, <2>2, <2>3, NoDuesType DEF Request
<1>3. Continue(w, r)
  BY <1>1 DEF Receive
<1>. HIDE DEF r
<1>4. req' \in [Workers -> Request \cup {Idle}]
  BY <1>2, <1>3, ContinueType
<1>. QED
  BY <1>1, <1>4 DEF Receive, TypeOK

\* Steps that move a request on and change nothing else keep the types.
LEMMA MoveType ==
  ASSUME TypeOK, NEW w \in Workers, NEW r \in Request \cup {Idle}, Continue(w, r),
         UNCHANGED <<status, packages, regdesk, account, settled, basis>>
  PROVE  TypeOK'
<1>1. req' \in [Workers -> Request \cup {Idle}]
  BY ContinueType
<1>. QED
  BY <1>1 DEF TypeOK

LEMMA RespondMoveType ==
  ASSUME TypeOK, NEW w \in Workers, Respond(w),
         UNCHANGED <<status, packages, regdesk, account, settled, basis>>
  PROVE  TypeOK'
<1>1. req' \in [Workers -> Request \cup {Idle}]
  BY RespondType
<1>. QED
  BY <1>1 DEF TypeOK

LEMMA UpdateAttendeeType ==
  ASSUME TypeOK, NEW w \in Workers, UpdateAttendee(w)
  PROVE  TypeOK'
<1>1. req[w] \in Request
  BY BusyType DEF UpdateAttendee, At
<1>2. PICK s \in Selections :
        /\ packages' = [packages EXCEPT ![req[w].att] = s]
        /\ Continue(w, [req[w] EXCEPT !.pkg = s, !.pc = "latest"])
  BY DEF UpdateAttendee
<1>3. [req[w] EXCEPT !.pkg = s, !.pc = "latest"] \in Request
  BY <1>1 DEF Request, Steps
<1>4. req' \in [Workers -> Request \cup {Idle}]
  BY <1>2, <1>3, ContinueType
<1>. QED
  BY <1>1, <1>2, <1>4 DEF UpdateAttendee, TypeOK

LEMMA WriteAdminInfoType ==
  ASSUME TypeOK, NEW w \in Workers, WriteAdminInfo(w)
  PROVE  TypeOK'
<1>1. req[w] \in Request
  BY BusyType DEF WriteAdminInfo, At
<1>2. [req[w] EXCEPT !.pc = "latest"] \in Request
  BY <1>1 DEF Request, Steps
<1>3. req' \in [Workers -> Request \cup {Idle}]
  BY <1>2, ContinueType DEF WriteAdminInfo
<1>4. regdesk' \subseteq Attendees
  <2>1. req[w].att \in Attendees
    BY <1>1 DEF Request
  <2>. QED
    BY <2>1 DEF WriteAdminInfo, TypeOK
<1>. QED
  BY <1>3, <1>4 DEF WriteAdminInfo, TypeOK

LEMMA ObtainLatestStatusType ==
  ASSUME TypeOK, NEW w \in Workers, ObtainLatestStatus(w)
  PROVE  TypeOK'
<1>1. req[w] \in Request
  BY BusyType DEF ObtainLatestStatus, At
<1>2. status[req[w].att] \in Statuses
  BY <1>1 DEF TypeOK, Request
<1>3. [req[w] EXCEPT !.old = status[req[w].att], !.pc = "allow"] \in Request
  BY <1>1, <1>2 DEF Request, Steps
<1>4. [req[w] EXCEPT !.old = status[req[w].att], !.new = status[req[w].att],
                     !.to = status[req[w].att], !.pc = "dues"] \in Request
  BY <1>1, <1>2 DEF Request, Steps
<1>. QED
  BY <1>3, <1>4, MoveType DEF ObtainLatestStatus

\* r goes on as n, to the next look at the user's permissions or past the last.
Granting(r, n) ==
    /\ n \in Request /\ n.pc \in {"desk", "check"}
    /\ n.kind = r.kind /\ n.att = r.att /\ n.by = r.by /\ n.pkg = r.pkg
    /\ n.old = r.old /\ n.new = r.new /\ n.to = r.to
    /\ n.diff = r.diff /\ n.void = r.void /\ n.pool = r.pool /\ n.seen = r.seen

LEMMA CheckIsGranting ==
  ASSUME NEW r \in Request
  PROVE  Granting(r, [r EXCEPT !.pc = "check"])
BY DEF Granting, Request, Steps

LEMMA DeskIsGranting ==
  ASSUME NEW r \in Request, NEW d \in SUBSET Attendees
  PROVE  Granting(r, [r EXCEPT !.pc = "desk", !.desk = d])
BY DEF Granting, Request, Steps

LEMMA StaysIsGranting ==
  ASSUME NEW r \in Request, r.pc = "desk", NEW d \in SUBSET Attendees
  PROVE  Granting(r, [r EXCEPT !.desk = d])
BY DEF Granting, Request, Steps

\* Whether the request asks for permissions or has read one: it goes on, or responds.
LEMMA PermissionMoves ==
  ASSUME TypeOK, NEW w \in Workers, StatusChangeAllowed(w) \/ CheckRegdesk(w)
  PROVE  /\ Busy(w) /\ req[w].pc \in {"allow", "desk"}
         /\ UNCHANGED <<status, packages, regdesk, account, settled, basis>>
         /\ Respond(w) \/ \E n : Granting(req[w], n) /\ Continue(w, n)
<1>1. req[w] \in Request
  BY BusyType DEF StatusChangeAllowed, CheckRegdesk, At
<1>2. CASE StatusChangeAllowed(w)
  <2>1. FindByIdentity(req[w]) \in SUBSET Attendees
    BY DEF FindByIdentity
  <2>2. \/ Respond(w) \/ Continue(w, [req[w] EXCEPT !.pc = "check"])
        \/ Continue(w, [req[w] EXCEPT !.pc = "desk", !.desk = FindByIdentity(req[w])])
    BY <1>2 DEF StatusChangeAllowed
  <2>3. Respond(w) \/ \E n : Granting(req[w], n) /\ Continue(w, n)
    BY <1>1, <2>1, <2>2, CheckIsGranting, DeskIsGranting, Zenon
  <2>. QED
    BY <1>2, <2>3 DEF StatusChangeAllowed, At
<1>3. CASE CheckRegdesk(w)
  <2>1. PICK oa \in req[w].desk :
           \/ Respond(w) \/ Continue(w, [req[w] EXCEPT !.pc = "check"])
           \/ Continue(w, [req[w] EXCEPT !.desk = req[w].desk \ {oa}])
    BY <1>3 DEF CheckRegdesk
  <2>2. req[w].pc = "desk" /\ req[w].desk \ {oa} \in SUBSET Attendees
    BY <1>1, <1>3 DEF CheckRegdesk, At, Request
  <2>3. Respond(w) \/ \E n : Granting(req[w], n) /\ Continue(w, n)
    BY <1>1, <2>1, <2>2, CheckIsGranting, StaysIsGranting, Zenon
  <2>. QED
    BY <1>3, <2>3 DEF CheckRegdesk, At
<1>. QED
  BY <1>2, <1>3

LEMMA PermissionType ==
  ASSUME TypeOK, NEW w \in Workers, StatusChangeAllowed(w) \/ CheckRegdesk(w)
  PROVE  TypeOK'
BY PermissionMoves, MoveType, RespondMoveType DEF Granting

LEMMA StatusChangePossibleType ==
  ASSUME TypeOK, NEW w \in Workers, StatusChangePossible(w)
  PROVE  TypeOK'
<1>1. req[w] \in Request
  BY BusyType DEF StatusChangePossible, At
<1>2. account[req[w].att].paid \in Int
  BY <1>1 DEF TypeOK, Request, AccountType
<1>3. [req[w] EXCEPT !.seen = account[req[w].att].paid, !.pc = "dues"] \in Request
  BY <1>1, <1>2 DEF Request, Steps
<1>. QED
  BY <1>3, MoveType, RespondMoveType DEF StatusChangePossible

LEMMA UpdateDuesType ==
  ASSUME TypeOK, NEW w \in Workers, UpdateDues(w)
  PROVE  TypeOK'
<1>. DEFINE r == req[w]
            acc == account[r.att]
            desired == DesiredDues(r.new, r.pkg)
            voiding == [r EXCEPT !.void = acc.positive, !.seen = acc.paid,
                                 !.pool = acc.paid + acc.negative]
            diff == [v \in VATs |-> desired[v] - acc.dues[v]]
<1>1. r \in Request
  BY BusyType DEF UpdateDues, At
<1>2. acc \in AccountType
  BY <1>1 DEF TypeOK, Request
<1>3. voiding \in Request
  <2>1. acc.positive \in Seq(Due) /\ acc.paid \in Int /\ acc.paid + acc.negative \in Int
    BY <1>2 DEF AccountType
  <2>. QED
    BY <1>1, <2>1 DEF Request
<1>4. [r EXCEPT !.diff = diff] \in Request
  <2>1. r.new \in Statuses /\ r.pkg \in Selections
    BY <1>1 DEF Request
  <2>2. desired \in [VATs -> Int]
    BY <2>1, DesiredDuesType
  <2>3. diff \in [VATs -> Int]
    <3>1. \A v \in VATs : acc.dues[v] \in Int /\ desired[v] \in Int
      BY <1>2, <2>2 DEF AccountType
    <3>. HIDE DEF acc, desired
    <3>. QED
      BY <3>1
  <2>. HIDE DEF diff
  <2>. QED
    BY <1>1, <2>3 DEF Request
<1>5. Voiding(voiding) \in Request /\ Adjusting([r EXCEPT !.diff = diff]) \in Request
  BY <1>3, <1>4, VoidingType, AdjustingType
<1>6. \/ Continue(w, Voiding(voiding))
      \/ Continue(w, Adjusting([r EXCEPT !.diff = diff]))
  BY DEF UpdateDues
<1>7. UNCHANGED <<status, packages, regdesk, account, settled, basis>>
  BY DEF UpdateDues
<1>. HIDE DEF voiding, diff, r
<1>. QED
  BY <1>5, <1>6, <1>7, MoveType

LEMMA BookAdjustmentType ==
  ASSUME TypeOK, NEW w \in Workers, BookAdjustment(w)
  PROVE  TypeOK'
<1>. DEFINE r == req[w]
<1>1. r \in Request
  BY BusyType DEF BookAdjustment, At
<1>2. PICK v \in VATs :
        /\ account' = [account EXCEPT ![r.att] = WithDue(@, v, r.diff[v])]
        /\ Continue(w, Adjusting([r EXCEPT !.diff[v] = 0]))
  BY DEF BookAdjustment
<1>3. r.att \in Attendees /\ r.diff[v] \in Int /\ [r.diff EXCEPT ![v] = 0] \in [VATs -> Int]
  BY <1>1 DEF Request
<1>4. [r EXCEPT !.diff[v] = 0] \in Request
  BY <1>1, <1>3 DEF Request
<1>5. req' \in [Workers -> Request \cup {Idle}]
  BY <1>2, <1>4, AdjustingType, ContinueType
<1>6. WithDue(account[r.att], v, r.diff[v]) \in AccountType
  BY <1>3, WithDueType DEF TypeOK
<1>7. account' \in [Attendees -> AccountType]
  BY <1>2, <1>6 DEF TypeOK
<1>. QED
  BY <1>3, <1>5, <1>7 DEF BookAdjustment, TypeOK

LEMMA KeepCoveredDueType ==
  ASSUME TypeOK, NEW w \in Workers, KeepCoveredDue(w)
  PROVE  TypeOK'
<1>. DEFINE r == req[w]
<1>1. r \in Request
  BY BusyType DEF KeepCoveredDue, At
<1>2. r.void \in Seq(Due) /\ r.void # << >> /\ r.pool \in Int
  BY <1>1 DEF Request, KeepCoveredDue
<1>3. Head(r.void) \in Due /\ Tail(r.void) \in Seq(Due)
  BY <1>2
<1>4. r.pool - Head(r.void).cent \in Int
  BY <1>2, <1>3 DEF Due
<1>5. [r EXCEPT !.void = Tail(@), !.pool = @ - Head(r.void).cent] \in Request
  BY <1>1, <1>3, <1>4 DEF Request
<1>. QED
  BY <1>5, VoidingType, MoveType DEF KeepCoveredDue

LEMMA VoidUnpaidDueType ==
  ASSUME TypeOK, NEW w \in Workers, VoidUnpaidDue(w)
  PROVE  TypeOK'
<1>. DEFINE r == req[w]
            due == Head(r.void)
            left == IF r.pool > 0 THEN r.pool ELSE 0
<1>1. r \in Request
  BY BusyType DEF VoidUnpaidDue, At
<1>2. r.void \in Seq(Due) /\ r.void # << >> /\ r.pool \in Int /\ r.att \in Attendees
  BY <1>1 DEF Request, VoidUnpaidDue
<1>3. due \in Due /\ Tail(r.void) \in Seq(Due)
  BY <1>2
<1>4. due.vat \in VATs /\ left - due.cent \in Int /\ r.pool - left \in Int
  BY <1>2, <1>3 DEF Due
<1>5. [r EXCEPT !.void = Tail(@), !.pool = @ - left] \in Request
  BY <1>1, <1>3, <1>4 DEF Request
<1>6. Continue(w, Voiding([r EXCEPT !.void = Tail(@), !.pool = @ - left]))
  BY DEF VoidUnpaidDue
<1>7. req' \in [Workers -> Request \cup {Idle}]
  BY <1>5, <1>6, VoidingType, ContinueType
<1>8. WithDue(account[r.att], due.vat, left - due.cent) \in AccountType
  BY <1>2, <1>4, WithDueType DEF TypeOK
<1>9. account' = [account EXCEPT ![r.att] = WithDue(@, due.vat, left - due.cent)]
  BY DEF VoidUnpaidDue
<1>10. account' \in [Attendees -> AccountType]
  BY <1>8, <1>9 DEF TypeOK
<1>. QED
  BY <1>2, <1>7, <1>10 DEF VoidUnpaidDue, TypeOK

LEMMA AdjustStatusToBalanceType ==
  ASSUME TypeOK, NEW w \in Workers, AdjustStatusToBalance(w)
  PROVE  TypeOK'
<1>. DEFINE acc == account[req[w].att]
<1>1. req[w] \in Request
  BY BusyType DEF AdjustStatusToBalance, At
<1>2. acc.paid \in Int
  BY <1>1 DEF TypeOK, Request, AccountType
<1>3. StatusForBalance(acc.total, acc.paid) \in Statuses
  BY DEF StatusForBalance, Statuses
<1>4. [req[w] EXCEPT !.new = StatusForBalance(acc.total, acc.paid),
                     !.seen = acc.paid, !.pc = "record"] \in Request
  BY <1>1, <1>2, <1>3 DEF Request, Steps
<1>. QED
  BY <1>4, MoveType, RespondMoveType DEF AdjustStatusToBalance

LEMMA SettleType ==
  ASSUME TypeOK, NEW r \in Request, Settle(r)
  PROVE  settled' \in [Attendees -> BOOLEAN] /\ basis' \in [Attendees -> Int]
<1>1. r.att \in Attendees /\ r.seen \in Int
  BY DEF Request
<1>. QED
  BY <1>1 DEF Settle, TypeOK

LEMMA AddStatusChangeType ==
  ASSUME TypeOK, NEW w \in Workers, AddStatusChange(w)
  PROVE  TypeOK'
<1>1. req[w] \in Request
  BY BusyType DEF AddStatusChange, At
<1>2. [req[w] EXCEPT !.pc = "mail"] \in Request
  BY <1>1 DEF Request, Steps
<1>3. req' \in [Workers -> Request \cup {Idle}]
  BY <1>2, ContinueType DEF AddStatusChange
<1>4. settled' \in [Attendees -> BOOLEAN] /\ basis' \in [Attendees -> Int]
  BY <1>1, SettleType DEF AddStatusChange
<1>5. status' \in [Attendees -> Statuses]
  <2>1. req[w].new \in Statuses
    BY <1>1 DEF Request
  <2>. QED
    BY <2>1 DEF AddStatusChange, TypeOK
<1>. QED
  BY <1>3, <1>4, <1>5 DEF AddStatusChange, TypeOK

LEMMA LeaveStatusType ==
  ASSUME TypeOK, NEW w \in Workers, LeaveStatus(w)
  PROVE  TypeOK'
<1>1. req[w] \in Request
  BY BusyType DEF LeaveStatus, At
<1>2. req' \in [Workers -> Request \cup {Idle}]
  BY RespondType DEF LeaveStatus
<1>3. settled' \in [Attendees -> BOOLEAN] /\ basis' \in [Attendees -> Int]
  BY <1>1, SettleType DEF LeaveStatus
<1>. QED
  BY <1>2, <1>3 DEF LeaveStatus, TypeOK

LEMMA BookPaymentType ==
  ASSUME TypeOK, NEW a \in Attendees, BookPayment(a)
  PROVE  TypeOK'
<1>1. PICK c \in PaymentAmounts : account' = [account EXCEPT ![a] = WithPayment(@, c)]
  BY DEF BookPayment
<1>2. c \in Int
  BY PaymentAssumption
<1>3. WithPayment(account[a], c) \in AccountType
  BY <1>2, WithPaymentType DEF TypeOK
<1>4. account' \in [Attendees -> AccountType]
  BY <1>1, <1>3 DEF TypeOK
<1>. QED
  BY <1>4 DEF BookPayment, TypeOK

\* Any step of a handler keeps the types.
LEMMA ProgressType ==
  ASSUME TypeOK, NEW w \in Workers, Progress(w)
  PROVE  TypeOK'
<1>1. CASE Fail(w)
  BY <1>1, RespondMoveType DEF Fail
<1>2. CASE SendEmail(w)
  BY <1>2, RespondMoveType DEF SendEmail
<1>. QED
  BY <1>1, <1>2, UpdateAttendeeType, WriteAdminInfoType, ObtainLatestStatusType,
     PermissionType, StatusChangePossibleType, UpdateDuesType, BookAdjustmentType,
     KeepCoveredDueType, VoidUnpaidDueType, AdjustStatusToBalanceType, AddStatusChangeType,
     LeaveStatusType DEF Progress, Handle

LEMMA NextType == TypeOK /\ [Next]_vars => TypeOK'
<1>. SUFFICES ASSUME TypeOK, [Next]_vars PROVE TypeOK'
  OBVIOUS
<1>1. ASSUME NEW w \in Workers, NEW a \in Attendees, Arrive(w, a) PROVE TypeOK'
  BY <1>1, ArriveType
<1>2. ASSUME NEW w \in Workers, Progress(w) PROVE TypeOK'
  BY <1>2, ProgressType
<1>3. ASSUME NEW a \in Attendees, BookPayment(a) PROVE TypeOK'
  BY <1>3, BookPaymentType
<1>4. CASE UNCHANGED vars
  BY <1>4 DEF vars, TypeOK
<1>. QED
  BY <1>1, <1>2, <1>3, <1>4 DEF Next

\* Every variable keeps its type, however the requests interleave: no status but
\* the seven is recorded and no request gets stuck between its steps.
THEOREM TypeCorrect == Spec => []TypeOK
  BY InitType, NextType, PTL DEF Spec

-----------------------------------------------------------------------------
(***************************************************************************)
(* One request at a time on an attendee.  DuesMatchStatus is not inductive *)
(* by itself: it rests on what a request in progress knows.  Old status    *)
(* and packages are still those in the database; while adjustments are     *)
(* being booked, what is booked and what is still to be booked add up to   *)
(* the dues desired, for every tax rate; and once all is booked, the dues  *)
(* are the desired ones.                                                   *)
(***************************************************************************)
OneRequestEach ==
    \A v, w \in Workers : Busy(v) /\ Busy(w) /\ req[v].att = req[w].att => v = w

\* The status may be read again from the handler's own copy.
Fresh(r) ==
    /\ r.pkg = packages[r.att]
    /\ r.pc \in {"allow", "desk", "check", "dues", "book", "void", "balance", "record"}
          => r.old = status[r.att]
    /\ r.pc = "mail" => r.new = status[r.att]

\* How far the dues are from what the request is about to record.
Booked(r) ==
    /\ r.pc = "void" => r.new = "cancelled"
    /\ r.pc = "balance" => r.new \in ByBalance
    /\ r.pc = "book" =>
          /\ r.new # "cancelled"
          /\ \A v \in VATs :
               account[r.att].dues[v] + r.diff[v] = DesiredDues(r.new, r.pkg)[v]
    /\ r.pc \in {"balance", "record"} /\ r.new # "cancelled" =>
          account[r.att].dues = DesiredDues(r.new, r.pkg)
    /\ r.pc = "record" /\ r.new \in ByBalance =>
          r.new = StatusForBalance(account[r.att].total, r.seen)

\* The properties in the terms of the code.
DuesAsDesired ==
    \A a \in Attendees :
        settled[a] /\ status[a] # "cancelled"
            => account[a].dues = DesiredDues(status[a], packages[a])

StatusAsComputed ==
    \A a \in Attendees :
        settled[a] /\ status[a] \in ByBalance
            => status[a] = StatusForBalance(account[a].total, basis[a])

SerialInv ==
    /\ TypeOK
    /\ OneRequestEach
    /\ \A w \in Workers : Busy(w) => Fresh(req[w]) /\ Booked(req[w])
    /\ DuesAsDesired
    /\ StatusAsComputed

\* A step by one request on attendee a keeps the invariant if it does so for a.
LEMMA Local ==
  ASSUME SerialInv, TypeOK', NEW w \in Workers, NEW a \in Attendees,
         \A x \in Workers \ {w} : req'[x] = req[x],
         \A x \in Workers \ {w} : Busy(x) => req[x].att # a,
         Busy(w)' => req'[w].att = a /\ Fresh(req[w])' /\ Booked(req[w])',
         \A b \in Attendees \ {a} :
             /\ status'[b] = status[b] /\ packages'[b] = packages[b]
             /\ account'[b] = account[b]
             /\ settled'[b] = settled[b] /\ basis'[b] = basis[b],
         settled'[a] /\ status'[a] # "cancelled"
             => account'[a].dues = DesiredDues(status'[a], packages'[a]),
         settled'[a] /\ status'[a] \in ByBalance
             => status'[a] = StatusForBalance(account'[a].total, basis'[a])
  PROVE  SerialInv'
<1>1. OneRequestEach'
  BY DEF SerialInv, OneRequestEach, Busy
<1>2. ASSUME NEW x \in Workers, Busy(x)'
      PROVE  Fresh(req[x])' /\ Booked(req[x])'
  <2>1. CASE x = w
    BY <1>2, <2>1
  <2>2. CASE x # w
    <3>1. Busy(x) /\ req'[x] = req[x] /\ req[x].att # a
      BY <1>2, <2>2 DEF Busy
    <3>2. req[x].att \in Attendees \ {a} /\ Fresh(req[x]) /\ Booked(req[x])
      BY <3>1, BusyType DEF SerialInv, Request
    <3>. QED
      BY <3>1, <3>2 DEF Fresh, Booked
  <2>. QED
    BY <2>1, <2>2
<1>3. DuesAsDesired'
  BY DEF SerialInv, DuesAsDesired
<1>4. StatusAsComputed'
  BY DEF SerialInv, StatusAsComputed
<1>. QED
  BY <1>1, <1>2, <1>3, <1>4 DEF SerialInv

\* No other request is on the attendee a busy one is on.
LEMMA Alone ==
  ASSUME SerialInv, NEW w \in Workers, Busy(w)
  PROVE  /\ req[w] \in Request /\ Fresh(req[w]) /\ Booked(req[w])
         /\ \A x \in Workers \ {w} : Busy(x) => req[x].att # req[w].att
<1>1. req[w] \in Request
  BY BusyType DEF SerialInv
<1>. QED
  BY <1>1 DEF SerialInv, OneRequestEach

\* A step that only moves a request on, or ends it, needs to keep just what that
\* request knows.
LEMMA Move ==
  ASSUME SerialInv, TypeOK', NEW w \in Workers, Busy(w),
         NEW r \in Request \cup {Idle}, Continue(w, r),
         r # Idle => r.att = req[w].att /\ Fresh(r) /\ Booked(r),
         UNCHANGED <<status, packages, regdesk, account, settled, basis>>
  PROVE  SerialInv'
<1>1. PICK a \in Attendees : a = req[w].att
  BY Alone DEF Request
<1>2. req'[w] = r /\ \A x \in Workers \ {w} : req'[x] = req[x]
  BY DEF Continue, SerialInv, TypeOK
<1>3. Busy(w)' => req'[w].att = a /\ Fresh(req[w])' /\ Booked(req[w])'
  BY <1>1, <1>2 DEF Busy, Idle, Fresh, Booked
<1>4. /\ settled[a] /\ status[a] # "cancelled"
             => account[a].dues = DesiredDues(status[a], packages[a])
      /\ settled[a] /\ status[a] \in ByBalance
             => status[a] = StatusForBalance(account[a].total, basis[a])
  BY DEF SerialInv, DuesAsDesired, StatusAsComputed
<1>. QED
  BY <1>1, <1>2, <1>3, <1>4, Alone, Local

LEMMA InitSerial == Init => SerialInv
<1>. SUFFICES ASSUME Init PROVE SerialInv
  OBVIOUS
<1>1. \A w \in Workers : ~Busy(w)
  BY DEF Init, Busy, Idle
<1>2. DuesAsDesired
  BY DEF Init, DuesAsDesired, DesiredDues, NoDebitor
<1>3. StatusAsComputed
  BY DEF Init, StatusAsComputed, ByBalance
<1>. QED
  BY <1>1, <1>2, <1>3, InitType DEF SerialInv, OneRequestEach

LEMMA ArriveSerial ==
  ASSUME SerialInv, NEW w \in Workers, NEW a \in Attendees, Quiet(a), Arrive(w, a)
  PROVE  SerialInv'
<1>1. PICK kind \in Kinds, by \in Callers, to \in Statuses : Receive(w, kind, a, by, to)
  BY RequestedAssumption DEF Arrive, ReceiveStatusChange, ReceiveUpdate, Kinds, Statuses
<1>2. TypeOK'
  BY ArriveType DEF SerialInv
<1>3. /\ req'[w].att = a /\ req'[w].pc \in {"latest", "write"}
      /\ req'[w].pkg = packages[a]
      /\ \A x \in Workers \ {w} : req'[x] = req[x]
  BY <1>1 DEF Receive, Continue, SerialInv, TypeOK
<1>4. UNCHANGED <<status, packages, account, settled, basis>>
  BY <1>1 DEF Receive
<1>5. \A x \in Workers \ {w} : Busy(x) => req[x].att # a
  BY DEF Quiet
<1>6. Fresh(req[w])' /\ Booked(req[w])'
  BY <1>3, <1>4 DEF Fresh, Booked
<1>7. /\ settled[a] /\ status[a] # "cancelled"
             => account[a].dues = DesiredDues(status[a], packages[a])
      /\ settled[a] /\ status[a] \in ByBalance
             => status[a] = StatusForBalance(account[a].total, basis[a])
  BY DEF SerialInv, DuesAsDesired, StatusAsComputed
<1>. QED
  BY <1>2, <1>3, <1>4, <1>5, <1>6, <1>7, Local

LEMMA UpdateAttendeeSerial ==
  ASSUME SerialInv, NEW w \in Workers, UpdateAttendee(w)
  PROVE  SerialInv'
<1>1. Busy(w) /\ req[w].pc = "write"
  BY DEF UpdateAttendee, At
<1>2. PICK a \in Attendees : a = req[w].att
  BY <1>1, Alone DEF Request
<1>3. TypeOK'
  BY UpdateAttendeeType DEF SerialInv
<1>4. PICK s \in Selections :
        /\ packages' = [packages EXCEPT ![a] = s]
        /\ req' = [req EXCEPT ![w] = [req[w] EXCEPT !.pkg = s, !.pc = "latest"]]
  BY <1>2 DEF UpdateAttendee, Continue
<1>5. settled' = [settled EXCEPT ![a] = FALSE] /\ UNCHANGED <<status, account, basis>>
  BY <1>2 DEF UpdateAttendee
<1>6. /\ req'[w].att = a /\ req'[w].pc = "latest" /\ req'[w].pkg = packages'[a]
      /\ \A x \in Workers \ {w} : req'[x] = req[x]
  BY <1>1, <1>2, <1>4, Alone DEF SerialInv, TypeOK, Request
<1>7. Fresh(req[w])' /\ Booked(req[w])'
  BY <1>6 DEF Fresh, Booked
<1>8. ~settled'[a]
  BY <1>5 DEF SerialInv, TypeOK
<1>9. \A b \in Attendees \ {a} : packages'[b] = packages[b] /\ settled'[b] = settled[b]
  BY <1>4, <1>5 DEF SerialInv, TypeOK
<1>10. \A x \in Workers \ {w} : Busy(x) => req[x].att # a
  BY <1>1, <1>2, Alone
<1>11. UNCHANGED <<status, account, basis>>
  BY <1>5
<1>12. Busy(w)' => req'[w].att = a /\ Fresh(req[w])' /\ Booked(req[w])'
  BY <1>6, <1>7
<1>13. /\ settled'[a] /\ status'[a] # "cancelled"
              => account'[a].dues = DesiredDues(status'[a], packages'[a])
       /\ settled'[a] /\ status'[a] \in ByBalance
              => status'[a] = StatusForBalance(account'[a].total, basis'[a])
  BY <1>8
<1>. QED
  BY <1>3, <1>6, <1>9, <1>10, <1>11, <1>12, <1>13, Local

LEMMA WriteAdminInfoSerial ==
  ASSUME SerialInv, NEW w \in Workers, WriteAdminInfo(w)
  PROVE  SerialInv'
<1>1. Busy(w)
  BY DEF WriteAdminInfo, At
<1>2. PICK a \in Attendees : a = req[w].att
  BY <1>1, Alone DEF Request
<1>3. TypeOK'
  BY WriteAdminInfoType DEF SerialInv
<1>4. req' = [req EXCEPT ![w] = [req[w] EXCEPT !.pc = "latest"]]
      /\ UNCHANGED <<status, packages, account, settled, basis>>
  BY DEF WriteAdminInfo, Continue
<1>5. /\ req'[w].att = a /\ req'[w].pc = "latest" /\ req'[w].pkg = packages'[a]
      /\ \A x \in Workers \ {w} : req'[x] = req[x]
  BY <1>1, <1>2, <1>4, Alone DEF SerialInv, TypeOK, Request, Fresh
<1>6. Fresh(req[w])' /\ Booked(req[w])'
  BY <1>5 DEF Fresh, Booked
<1>7. /\ settled[a] /\ status[a] # "cancelled"
             => account[a].dues = DesiredDues(status[a], packages[a])
      /\ settled[a] /\ status[a] \in ByBalance
             => status[a] = StatusForBalance(account[a].total, basis[a])
  BY DEF SerialInv, DuesAsDesired, StatusAsComputed
<1>. QED
  BY <1>1, <1>2, <1>3, <1>4, <1>5, <1>6, <1>7, Alone, Local

LEMMA ObtainLatestStatusSerial ==
  ASSUME SerialInv, NEW w \in Workers, ObtainLatestStatus(w)
  PROVE  SerialInv'
<1>. DEFINE r == req[w]
            current == status[r.att]
            asked == [r EXCEPT !.old = current, !.pc = "allow"]
            update == [r EXCEPT !.old = current, !.new = current, !.to = current, !.pc = "dues"]
<1>1. Busy(w) /\ r \in Request /\ Fresh(r)
  BY Alone DEF ObtainLatestStatus, At
<1>2. current \in Statuses
  BY <1>1 DEF SerialInv, TypeOK, Request
<1>3. asked \in Request /\ update \in Request
  BY <1>1, <1>2 DEF Request, Steps
<1>4. asked.att = r.att /\ Fresh(asked) /\ Booked(asked)
  BY <1>1 DEF Fresh, Booked, Request
<1>5. update.att = r.att /\ Fresh(update) /\ Booked(update)
  BY <1>1 DEF Fresh, Booked, Request
<1>6. TypeOK'
  BY ObtainLatestStatusType DEF SerialInv
<1>7. /\ Continue(w, asked) \/ Continue(w, update)
      /\ UNCHANGED <<status, packages, regdesk, account, settled, basis>>
  BY DEF ObtainLatestStatus
<1>. HIDE DEF r, asked, update
<1>. QED
  BY <1>1, <1>3, <1>4, <1>5, <1>6, <1>7, Move DEF r

\* A handler that answers forgets what it knew.
LEMMA RespondSerial ==
  ASSUME SerialInv, TypeOK', NEW w \in Workers, Busy(w), Respond(w),
         UNCHANGED <<status, packages, regdesk, account, settled, basis>>
  PROVE  SerialInv'
<1>1. Continue(w, Idle)
  BY DEF Respond, Continue
<1>. QED
  BY <1>1, Move

LEMMA PermissionSerial ==
  ASSUME SerialInv, NEW w \in Workers, StatusChangeAllowed(w) \/ CheckRegdesk(w)
  PROVE  SerialInv'
<1>1. /\ Busy(w) /\ req[w].pc \in {"allow", "desk"}
      /\ UNCHANGED <<status, packages, regdesk, account, settled, basis>>
      /\ Respond(w) \/ \E n : Granting(req[w], n) /\ Continue(w, n)
  BY PermissionMoves DEF SerialInv
<1>2. req[w] \in Request /\ Fresh(req[w])
  BY <1>1, Alone
<1>3. ASSUME NEW n, Granting(req[w], n)
      PROVE  n \in Request /\ n.att = req[w].att /\ Fresh(n) /\ Booked(n)
  BY <1>1, <1>2, <1>3 DEF Granting, Fresh, Booked
<1>4. TypeOK'
  BY PermissionType DEF SerialInv
<1>. QED
  BY <1>1, <1>2, <1>3, <1>4, Move, RespondSerial

LEMMA StatusChangePossibleSerial ==
  ASSUME SerialInv, NEW w \in Workers, StatusChangePossible(w)
  PROVE  SerialInv'
<1>. DEFINE r == req[w]
            next == [r EXCEPT !.seen = account[r.att].paid, !.pc = "dues"]
<1>1. Busy(w) /\ r.pc = "check" /\ r \in Request /\ Fresh(r)
  BY Alone DEF StatusChangePossible, At
<1>2. account[r.att].paid \in Int
  BY <1>1 DEF SerialInv, TypeOK, Request, AccountType
<1>3. next \in Request /\ next.att = r.att /\ Fresh(next) /\ Booked(next)
  BY <1>1, <1>2 DEF Request, Steps, Fresh, Booked
<1>4. TypeOK'
  BY StatusChangePossibleType DEF SerialInv
<1>5. /\ Continue(w, next) \/ Respond(w)
      /\ UNCHANGED <<status, packages, regdesk, account, settled, basis>>
  BY DEF StatusChangePossible
<1>. HIDE DEF next
<1>. QED
  BY <1>1, <1>3, <1>4, <1>5, Move, RespondSerial

\* Having computed the adjustments, the request knows what they add up to ...
LEMMA AdjustingKnows ==
  ASSUME SerialInv, NEW r \in Request, Fresh(r), r.new # "cancelled",
         r.pc \in {"dues", "book"},
         \A v \in VATs : account[r.att].dues[v] + r.diff[v] = DesiredDues(r.new, r.pkg)[v]
  PROVE  /\ Adjusting(r).att = r.att
         /\ Fresh(Adjusting(r)) /\ Booked(Adjusting(r))
<1>. DEFINE n == Adjusting(r)
<1>1. /\ n.att = r.att /\ n.pkg = r.pkg /\ n.old = r.old /\ n.new = r.new /\ n.diff = r.diff
      /\ n.pc \in {"book", "balance", "record"}
      /\ n.pc = "balance" => r.new \in ByBalance
      /\ n.pc = "record" => r.new \notin ByBalance
      /\ n.pc # "book" => r.diff = NoDues
  BY DEF Adjusting, Request
<1>2. Fresh(n)
  BY <1>1 DEF Fresh
<1>3. ASSUME r.diff = NoDues
      PROVE  account[r.att].dues = DesiredDues(r.new, r.pkg)
  <2>1. account[r.att].dues \in [VATs -> Int]
    BY DEF SerialInv, TypeOK, Request, AccountType
  <2>2. DesiredDues(r.new, r.pkg) \in [VATs -> Int]
    BY DesiredDuesType DEF Request
  <2>3. ASSUME NEW v \in VATs
        PROVE  account[r.att].dues[v] = DesiredDues(r.new, r.pkg)[v]
    <3>1. r.diff[v] = 0
      BY <1>3 DEF NoDues
    <3>2. account[r.att].dues[v] \in Int
      BY <2>1
    <3>. QED
      BY <3>1, <3>2
  <2>. QED
    BY <2>1, <2>2, <2>3
<1>4. Booked(n)
  BY <1>1, <1>3 DEF Booked
<1>. QED
  BY <1>1, <1>2, <1>4

\* ... and walking the dues on cancellation promises nothing about them.
LEMMA VoidingKnows ==
  ASSUME NEW r \in Request, Fresh(r), r.new = "cancelled", r.pc \in {"dues", "void"}
  PROVE  /\ Voiding(r).att = r.att
         /\ Fresh(Voiding(r)) /\ Booked(Voiding(r))
<1>. DEFINE n == Voiding(r)
<1>1. /\ n.att = r.att /\ n.pkg = r.pkg /\ n.old = r.old /\ n.new = "cancelled"
      /\ n.pc \in {"void", "record"}
  BY DEF Voiding, Request
<1>. HIDE DEF n
<1>2. Fresh(n) /\ Booked(n)
  BY <1>1 DEF Fresh, Booked, ByBalance
<1>. QED
  BY <1>1, <1>2 DEF n

LEMMA UpdateDuesSerial ==
  ASSUME SerialInv, NEW w \in Workers, UpdateDues(w)
  PROVE  SerialInv'
<1>. DEFINE r == req[w]
            acc == account[r.att]
            desired == DesiredDues(r.new, r.pkg)
            voiding == [r EXCEPT !.void = acc.positive, !.seen = acc.paid,
                                 !.pool = acc.paid + acc.negative]
            diff == [v \in VATs |-> desired[v] - acc.dues[v]]
            adjusting == [r EXCEPT !.diff = diff]
<1>1. Busy(w) /\ r.pc = "dues" /\ r \in Request /\ Fresh(r)
  BY Alone DEF UpdateDues, At
<1>2. acc \in AccountType /\ desired \in [VATs -> Int]
  BY <1>1, DesiredDuesType DEF SerialInv, TypeOK, Request
<1>3. UNCHANGED <<status, packages, regdesk, account, settled, basis>>
  BY DEF UpdateDues
<1>4. TypeOK'
  BY UpdateDuesType DEF SerialInv
<1>5. CASE r.new = "cancelled"
  <2>1. acc.positive \in Seq(Due) /\ acc.paid \in Int /\ acc.paid + acc.negative \in Int
    BY <1>2 DEF AccountType
  <2>2. voiding \in Request
    BY <1>1, <2>1 DEF Request
  <2>3. voiding.att = r.att /\ voiding.new = "cancelled" /\ voiding.pc = "dues" /\ Fresh(voiding)
    BY <1>1, <1>5 DEF Request, Fresh
  <2>4. Continue(w, Voiding(voiding))
    BY <1>5 DEF UpdateDues
  <2>. HIDE DEF voiding, r
  <2>5. /\ Voiding(voiding) \in Request /\ Voiding(voiding).att = r.att
        /\ Fresh(Voiding(voiding)) /\ Booked(Voiding(voiding))
    BY <2>2, <2>3, VoidingType, VoidingKnows
  <2>. QED
    BY <1>1, <1>3, <1>4, <2>4, <2>5, Move DEF r
<1>6. CASE r.new # "cancelled"
  <2>0. \A v \in VATs : acc.dues[v] \in Int /\ desired[v] \in Int
    BY <1>2 DEF AccountType
  <2>. HIDE DEF desired, acc
  <2>1. diff \in [VATs -> Int] /\ \A v \in VATs : acc.dues[v] + diff[v] = desired[v]
    BY <2>0
  <2>. USE DEF desired, acc
  <2>. HIDE DEF diff
  <2>2. adjusting \in Request
    BY <1>1, <2>1 DEF Request
  <2>3. /\ adjusting.att = r.att /\ adjusting.new = r.new /\ adjusting.pkg = r.pkg
        /\ adjusting.pc = "dues" /\ adjusting.diff = diff /\ Fresh(adjusting)
    BY <1>1 DEF Request, Fresh
  <2>4. Continue(w, Adjusting(adjusting))
    BY <1>6 DEF UpdateDues, diff
  <2>5. \A v \in VATs : account[adjusting.att].dues[v] + adjusting.diff[v]
                          = DesiredDues(adjusting.new, adjusting.pkg)[v]
    BY <2>1, <2>3
  <2>. HIDE DEF adjusting, r
  <2>6. /\ Adjusting(adjusting) \in Request /\ Adjusting(adjusting).att = r.att
        /\ Fresh(Adjusting(adjusting)) /\ Booked(Adjusting(adjusting))
    BY <1>6, <2>2, <2>3, <2>5, AdjustingType, AdjustingKnows
  <2>. QED
    BY <1>1, <1>3, <1>4, <2>4, <2>6, Move DEF r
<1>. QED
  BY <1>5, <1>6

\* A booking unsettles the attendee and so leaves only the request to account for.
LEMMA BookSerial ==
  ASSUME SerialInv, TypeOK', NEW w \in Workers, Busy(w),
         NEW a \in Attendees, a = req[w].att, NEW acc \in AccountType,
         account' = [account EXCEPT ![a] = acc],
         settled' = [settled EXCEPT ![a] = FALSE],
         UNCHANGED <<status, packages, regdesk, basis>>,
         \A x \in Workers \ {w} : req'[x] = req[x],
         Busy(w)' => req'[w].att = a /\ Fresh(req[w])' /\ Booked(req[w])'
  PROVE  SerialInv'
<1>1. ~settled'[a]
  BY DEF SerialInv, TypeOK
<1>2. \A b \in Attendees \ {a} : settled'[b] = settled[b] /\ account'[b] = account[b]
  BY DEF SerialInv, TypeOK
<1>3. \A x \in Workers \ {w} : Busy(x) => req[x].att # a
  BY Alone
<1>4. /\ settled'[a] /\ status'[a] # "cancelled"
              => account'[a].dues = DesiredDues(status'[a], packages'[a])
      /\ settled'[a] /\ status'[a] \in ByBalance
              => status'[a] = StatusForBalance(account'[a].total, basis'[a])
  BY <1>1
<1>5. \A b \in Attendees \ {a} :
             /\ status'[b] = status[b] /\ packages'[b] = packages[b]
             /\ account'[b] = account[b]
             /\ settled'[b] = settled[b] /\ basis'[b] = basis[b]
  BY <1>2
<1>. QED
  BY <1>3, <1>4, <1>5, Local, Zenon

LEMMA BookAdjustmentSerial ==
  ASSUME SerialInv, NEW w \in Workers, BookAdjustment(w)
  PROVE  SerialInv'
<1>. DEFINE r == req[w]
<1>1. Busy(w) /\ r.pc = "book" /\ r \in Request /\ Fresh(r) /\ Booked(r)
  BY Alone DEF BookAdjustment, At
<1>2. PICK a \in Attendees : a = r.att
  BY <1>1 DEF Request
<1>3. PICK v \in VATs :
        /\ account' = [account EXCEPT ![r.att] = WithDue(@, v, r.diff[v])]
        /\ Continue(w, Adjusting([r EXCEPT !.diff[v] = 0]))
  BY DEF BookAdjustment
<1>. DEFINE acc == WithDue(account[a], v, r.diff[v])
            rest == [r EXCEPT !.diff[v] = 0]
            next == Adjusting(rest)
<1>4. r.diff \in [VATs -> Int] /\ account[a] \in AccountType
  BY <1>1 DEF SerialInv, TypeOK, Request
<1>5. acc \in AccountType /\ account' = [account EXCEPT ![a] = acc]
  BY <1>2, <1>3, <1>4, WithDueType
<1>6. TypeOK'
  BY BookAdjustmentType DEF SerialInv
<1>7. settled' = [settled EXCEPT ![a] = FALSE] /\ UNCHANGED <<status, packages, regdesk, basis>>
  BY <1>2 DEF BookAdjustment
<1>8. /\ rest \in Request /\ rest.att = a /\ rest.pkg = r.pkg /\ rest.new = r.new
      /\ rest.old = r.old /\ rest.pc = "book" /\ rest.diff = [r.diff EXCEPT ![v] = 0]
  <2>1. [r.diff EXCEPT ![v] = 0] \in [VATs -> Int]
    BY <1>4
  <2>. QED
    BY <1>1, <1>2, <2>1 DEF Request
<1>9. account'[a].dues = [account[a].dues EXCEPT ![v] = @ + r.diff[v]]
  BY <1>5 DEF WithDue, SerialInv, TypeOK
<1>10. \A u \in VATs : account'[a].dues[u] + rest.diff[u] = DesiredDues(rest.new, rest.pkg)[u]
  <2>1. \A u \in VATs : account[a].dues[u] + r.diff[u] = DesiredDues(r.new, r.pkg)[u]
    BY <1>1, <1>2 DEF Booked
  <2>2. \A u \in VATs : account[a].dues[u] \in Int /\ r.diff[u] \in Int
    BY <1>4 DEF AccountType
  <2>3. account[a].dues \in [VATs -> Int]
    BY <1>4 DEF AccountType
  <2>. QED
    BY <1>4, <1>8, <1>9, <2>1, <2>2, <2>3
<1>11. r.new # "cancelled"
  BY <1>1 DEF Booked
<1>12. req'[w] = next /\ \A x \in Workers \ {w} : req'[x] = req[x]
  BY <1>3 DEF Continue, SerialInv, TypeOK
<1>13. /\ next.att = a /\ next.pkg = r.pkg /\ next.old = r.old /\ next.new = r.new
       /\ next.diff = rest.diff
       /\ next.pc \in {"book", "balance", "record"}
       /\ next.pc = "balance" => r.new \in ByBalance
       /\ next.pc = "record" => r.new \notin ByBalance
       /\ next.pc # "book" => rest.diff = NoDues
  <2>. HIDE DEF rest
  <2>. QED
    BY <1>8 DEF Adjusting, Request
<1>14. ASSUME rest.diff = NoDues
       PROVE  account'[a].dues = DesiredDues(r.new, r.pkg)
  <2>1. account'[a].dues \in [VATs -> Int]
    BY <1>6 DEF TypeOK, AccountType
  <2>2. DesiredDues(r.new, r.pkg) \in [VATs -> Int]
    BY <1>1, DesiredDuesType DEF Request
  <2>3. ASSUME NEW u \in VATs
        PROVE  account'[a].dues[u] = DesiredDues(r.new, r.pkg)[u]
    <3>1. rest.diff[u] = 0
      BY <1>14 DEF NoDues
    <3>2. account'[a].dues[u] \in Int
      BY <2>1
    <3>. QED
      BY <1>8, <1>10, <3>1, <3>2
  <2>. QED
    BY <2>1, <2>2, <2>3
<1>15. Fresh(req[w])'
  BY <1>1, <1>2, <1>7, <1>12, <1>13 DEF Fresh
<1>16. Booked(req[w])'
  <2>. HIDE DEF next, rest
  <2>. QED
    BY <1>8, <1>10, <1>11, <1>12, <1>13, <1>14 DEF Booked
<1>17. req'[w].att = a
  BY <1>12, <1>13
<1>. HIDE DEF acc, rest, next
<1>. QED
  BY <1>1, <1>2, <1>5, <1>6, <1>7, <1>12, <1>15, <1>16, <1>17, BookSerial

LEMMA KeepCoveredDueSerial ==
  ASSUME SerialInv, NEW w \in Workers, KeepCoveredDue(w)
  PROVE  SerialInv'
<1>. DEFINE r == req[w]
            rest == [r EXCEPT !.void = Tail(@), !.pool = @ - Head(r.void).cent]
<1>1. Busy(w) /\ r.pc = "void" /\ r \in Request /\ Fresh(r) /\ Booked(r)
  BY Alone DEF KeepCoveredDue, At
<1>2. r.void \in Seq(Due) /\ r.void # << >> /\ r.pool \in Int
  BY <1>1 DEF Request, KeepCoveredDue
<1>3. Tail(r.void) \in Seq(Due) /\ r.pool - Head(r.void).cent \in Int
  <2>1. Head(r.void) \in Due /\ Tail(r.void) \in Seq(Due)
    BY <1>2
  <2>. QED
    BY <1>2, <2>1 DEF Due
<1>4. /\ rest \in Request /\ rest.att = r.att /\ rest.pc = "void"
      /\ rest.new = "cancelled" /\ Fresh(rest)
  BY <1>1, <1>3 DEF Request, Fresh, Booked
<1>5. /\ Voiding(rest) \in Request /\ Voiding(rest).att = r.att
      /\ Fresh(Voiding(rest)) /\ Booked(Voiding(rest))
  <2>. HIDE DEF rest
  <2>. QED
    BY <1>4, VoidingType, VoidingKnows
<1>6. TypeOK'
  BY KeepCoveredDueType DEF SerialInv
<1>7. /\ Continue(w, Voiding(rest))
      /\ UNCHANGED <<status, packages, regdesk, account, settled, basis>>
  BY DEF KeepCoveredDue
<1>. HIDE DEF rest
<1>. QED
  BY <1>1, <1>5, <1>6, <1>7, Move

LEMMA VoidUnpaidDueSerial ==
  ASSUME SerialInv, NEW w \in Workers, VoidUnpaidDue(w)
  PROVE  SerialInv'
<1>. DEFINE r == req[w]
            due == Head(r.void)
            left == IF r.pool > 0 THEN r.pool ELSE 0
            rest == [r EXCEPT !.void = Tail(@), !.pool = @ - left]
            next == Voiding(rest)
<1>1. Busy(w) /\ r.pc = "void" /\ r \in Request /\ Fresh(r) /\ Booked(r)
  BY Alone DEF VoidUnpaidDue, At
<1>2. PICK a \in Attendees : a = r.att
  BY <1>1 DEF Request
<1>3. r.void \in Seq(Due) /\ r.void # << >> /\ r.pool \in Int
  BY <1>1 DEF Request, VoidUnpaidDue
<1>4. due \in Due /\ Tail(r.void) \in Seq(Due)
  BY <1>3
<1>5. due.vat \in VATs /\ left - due.cent \in Int /\ r.pool - left \in Int
  BY <1>3, <1>4 DEF Due
<1>6. WithDue(account[a], due.vat, left - due.cent) \in AccountType
  BY <1>5, WithDueType DEF SerialInv, TypeOK
<1>7. account' = [account EXCEPT ![a] = WithDue(account[a], due.vat, left - due.cent)]
  BY <1>2 DEF VoidUnpaidDue
<1>8. settled' = [settled EXCEPT ![a] = FALSE] /\ UNCHANGED <<status, packages, regdesk, basis>>
  BY <1>2 DEF VoidUnpaidDue
<1>9. TypeOK'
  BY VoidUnpaidDueType DEF SerialInv
<1>10. /\ rest \in Request /\ rest.att = a /\ rest.pkg = r.pkg /\ rest.old = r.old
       /\ rest.new = "cancelled"
  BY <1>1, <1>2, <1>4, <1>5 DEF Request, Booked
<1>11. /\ next.att = a /\ next.pkg = r.pkg /\ next.old = r.old /\ next.new = "cancelled"
       /\ next.pc \in {"void", "record"}
  <2>. HIDE DEF rest
  <2>. QED
    BY <1>10 DEF Voiding, Request
<1>12. req'[w] = next /\ \A x \in Workers \ {w} : req'[x] = req[x]
  BY DEF VoidUnpaidDue, Continue, SerialInv, TypeOK
<1>. HIDE DEF next
<1>13. Fresh(req[w])' /\ Booked(req[w])'
  BY <1>1, <1>2, <1>8, <1>11, <1>12 DEF Fresh, Booked, ByBalance
<1>14. req'[w].att = a
  BY <1>11, <1>12
<1>. QED
  BY <1>1, <1>2, <1>6, <1>7, <1>8, <1>9, <1>12, <1>13, <1>14, BookSerial

LEMMA AdjustStatusToBalanceSerial ==
  ASSUME SerialInv, NEW w \in Workers, AdjustStatusToBalance(w)
  PROVE  SerialInv'
<1>. DEFINE r == req[w]
            acc == account[r.att]
            new == StatusForBalance(acc.total, acc.paid)
            next == [r EXCEPT !.new = new, !.seen = acc.paid, !.pc = "record"]
<1>1. Busy(w) /\ r.pc = "balance" /\ r \in Request /\ Fresh(r) /\ Booked(r)
  BY Alone DEF AdjustStatusToBalance, At
<1>2. acc.paid \in Int
  BY <1>1 DEF SerialInv, TypeOK, Request, AccountType
<1>3. new \in ByBalance /\ new \in Statuses
  BY DEF StatusForBalance, ByBalance, Statuses
<1>4. acc.dues = DesiredDues(new, r.pkg)
  <2>1. r.new \in ByBalance /\ (r.new # "cancelled" => acc.dues = DesiredDues(r.new, r.pkg))
    BY <1>1 DEF Booked
  <2>2. r.new \notin {"new", "deleted", "cancelled"} /\ new \notin {"new", "deleted"}
    BY <1>3, <2>1 DEF ByBalance
  <2>. QED
    BY <2>1, <2>2 DEF DesiredDues
<1>5. /\ next \in Request /\ next.att = r.att /\ next.pkg = r.pkg /\ next.old = r.old
      /\ next.new = new /\ next.seen = acc.paid /\ next.pc = "record"
  <2>. HIDE DEF new
  <2>. QED
    BY <1>1, <1>2, <1>3 DEF Request, Steps
<1>6. Fresh(next) /\ Booked(next)
  <2>. HIDE DEF next
  <2>. QED
    BY <1>1, <1>4, <1>5 DEF Fresh, Booked
<1>7. TypeOK'
  BY AdjustStatusToBalanceType DEF SerialInv
<1>8. /\ Continue(w, next) \/ Respond(w)
      /\ UNCHANGED <<status, packages, regdesk, account, settled, basis>>
  BY DEF AdjustStatusToBalance
<1>. HIDE DEF next
<1>. QED
  BY <1>1, <1>5, <1>6, <1>7, <1>8, Move, RespondSerial

\* What a request at "record" makes true of its attendee by settling it.
LEMMA SettleSerial ==
  ASSUME SerialInv, TypeOK', NEW w \in Workers, Busy(w), req[w].pc = "record",
         NEW a \in Attendees, a = req[w].att, Settle(req[w]),
         status' = [status EXCEPT ![a] = req[w].new],
         UNCHANGED <<packages, account>>
  PROVE  /\ settled'[a] /\ status'[a] # "cancelled"
              => account'[a].dues = DesiredDues(status'[a], packages'[a])
         /\ settled'[a] /\ status'[a] \in ByBalance
              => status'[a] = StatusForBalance(account'[a].total, basis'[a])
         /\ \A b \in Attendees \ {a} :
             /\ status'[b] = status[b] /\ packages'[b] = packages[b]
             /\ account'[b] = account[b]
             /\ settled'[b] = settled[b] /\ basis'[b] = basis[b]
<1>1. req[w] \in Request /\ Fresh(req[w]) /\ Booked(req[w])
  BY Alone
<1>2. status'[a] = req[w].new /\ packages'[a] = req[w].pkg
  BY <1>1 DEF SerialInv, TypeOK, Fresh
<1>3. req[w].new \in ByBalance => basis'[a] = req[w].seen
  BY <1>1 DEF Settle, SerialInv, TypeOK
<1>4. \A b \in Attendees \ {a} :
         settled'[b] = settled[b] /\ basis'[b] = basis[b] /\ status'[b] = status[b]
  BY DEF Settle, SerialInv, TypeOK
<1>. QED
  BY <1>1, <1>2, <1>3, <1>4 DEF Booked

LEMMA AddStatusChangeSerial ==
  ASSUME SerialInv, NEW w \in Workers, AddStatusChange(w)
  PROVE  SerialInv'
<1>. DEFINE r == req[w]
<1>1. Busy(w) /\ r.pc = "record" /\ r \in Request /\ Fresh(r)
  BY Alone DEF AddStatusChange, At
<1>2. PICK a \in Attendees : a = r.att
  BY <1>1 DEF Request
<1>3. TypeOK'
  BY AddStatusChangeType DEF SerialInv
<1>4. /\ status' = [status EXCEPT ![a] = r.new] /\ Settle(r)
      /\ UNCHANGED <<packages, account>>
  BY <1>2 DEF AddStatusChange
<1>5. /\ req'[w] = [r EXCEPT !.pc = "mail"]
      /\ \A x \in Workers \ {w} : req'[x] = req[x]
  BY DEF AddStatusChange, Continue, SerialInv, TypeOK
<1>6. /\ req'[w].att = a /\ req'[w].pc = "mail" /\ req'[w].new = status'[a]
      /\ req'[w].pkg = packages'[a]
  BY <1>1, <1>2, <1>4, <1>5 DEF Request, Fresh, SerialInv, TypeOK
<1>7. Fresh(req[w])' /\ Booked(req[w])'
  BY <1>6 DEF Fresh, Booked
<1>8. \A x \in Workers \ {w} : Busy(x) => req[x].att # a
  BY <1>1, <1>2, Alone
<1>. HIDE DEF r
<1>9. /\ settled'[a] /\ status'[a] # "cancelled"
              => account'[a].dues = DesiredDues(status'[a], packages'[a])
      /\ settled'[a] /\ status'[a] \in ByBalance
              => status'[a] = StatusForBalance(account'[a].total, basis'[a])
      /\ \A b \in Attendees \ {a} :
             /\ status'[b] = status[b] /\ packages'[b] = packages[b]
             /\ account'[b] = account[b]
             /\ settled'[b] = settled[b] /\ basis'[b] = basis[b]
  BY <1>1, <1>2, <1>3, <1>4, SettleSerial DEF r
<1>. QED
  BY <1>3, <1>5, <1>6, <1>7, <1>8, <1>9, Local

LEMMA LeaveStatusSerial ==
  ASSUME SerialInv, NEW w \in Workers, LeaveStatus(w)
  PROVE  SerialInv'
<1>. DEFINE r == req[w]
<1>1. Busy(w) /\ r.pc = "record" /\ r \in Request /\ Fresh(r) /\ r.new = r.old
  BY Alone DEF LeaveStatus, At
<1>2. PICK a \in Attendees : a = r.att
  BY <1>1 DEF Request
<1>3. TypeOK'
  BY LeaveStatusType DEF SerialInv
<1>4. Settle(r) /\ UNCHANGED <<status, packages, account>>
  BY DEF LeaveStatus
<1>5. status' = [status EXCEPT ![a] = r.new]
  BY <1>1, <1>2, <1>4 DEF Fresh, SerialInv, TypeOK
<1>6. req'[w] = Idle /\ \A x \in Workers \ {w} : req'[x] = req[x]
  BY DEF LeaveStatus, Respond, SerialInv, TypeOK
<1>7. ~Busy(w)'
  BY <1>6 DEF Busy, Idle
<1>8. \A x \in Workers \ {w} : Busy(x) => req[x].att # a
  BY <1>1, <1>2, Alone
<1>. HIDE DEF r
<1>9. /\ settled'[a] /\ status'[a] # "cancelled"
              => account'[a].dues = DesiredDues(status'[a], packages'[a])
      /\ settled'[a] /\ status'[a] \in ByBalance
              => status'[a] = StatusForBalance(account'[a].total, basis'[a])
      /\ \A b \in Attendees \ {a} :
             /\ status'[b] = status[b] /\ packages'[b] = packages[b]
             /\ account'[b] = account[b]
             /\ settled'[b] = settled[b] /\ basis'[b] = basis[b]
  BY <1>1, <1>2, <1>3, <1>4, <1>5, SettleSerial DEF r
<1>. QED
  BY <1>3, <1>6, <1>7, <1>8, <1>9, Local

\* Payments change neither dues nor what a request has concluded from them.
LEMMA BookPaymentSerial ==
  ASSUME SerialInv, NEW a \in Attendees, BookPayment(a)
  PROVE  SerialInv'
<1>1. PICK c \in PaymentAmounts : account' = [account EXCEPT ![a] = WithPayment(@, c)]
  BY DEF BookPayment
<1>2. TypeOK'
  BY BookPaymentType DEF SerialInv
<1>3. UNCHANGED <<status, packages, req, settled, basis>>
  BY DEF BookPayment
<1>4. /\ WithPayment(account[a], c).dues = account[a].dues
      /\ WithPayment(account[a], c).total = account[a].total
  BY DEF WithPayment, SerialInv, TypeOK, AccountType
<1>5. \A b \in Attendees : account'[b].dues = account[b].dues /\ account'[b].total = account[b].total
  BY <1>1, <1>4 DEF SerialInv, TypeOK
<1>6. OneRequestEach'
  BY <1>3 DEF SerialInv, OneRequestEach, Busy
<1>7. ASSUME NEW w \in Workers, Busy(w)'
      PROVE  Fresh(req[w])' /\ Booked(req[w])'
  <2>1. Busy(w) /\ req'[w] = req[w]
    BY <1>3, <1>7 DEF Busy
  <2>2. req[w].att \in Attendees /\ Fresh(req[w]) /\ Booked(req[w])
    BY <2>1, Alone DEF Request
  <2>. QED
    BY <1>3, <1>5, <2>1, <2>2 DEF Fresh, Booked
<1>8. DuesAsDesired'
  BY <1>3, <1>5 DEF SerialInv, DuesAsDesired
<1>9. StatusAsComputed'
  BY <1>3, <1>5 DEF SerialInv, StatusAsComputed
<1>. QED
  BY <1>2, <1>6, <1>7, <1>8, <1>9 DEF SerialInv

LEMMA ProgressSerial ==
  ASSUME SerialInv, NEW w \in Workers, Progress(w)
  PROVE  SerialInv'
<1>1. CASE Fail(w)
  BY <1>1, ProgressType, RespondSerial DEF Fail, SerialInv
<1>2. CASE SendEmail(w)
  BY <1>2, ProgressType, RespondSerial DEF SendEmail, At, SerialInv
<1>. QED
  BY <1>1, <1>2, UpdateAttendeeSerial, WriteAdminInfoSerial, ObtainLatestStatusSerial,
     PermissionSerial, StatusChangePossibleSerial, UpdateDuesSerial,
     BookAdjustmentSerial, KeepCoveredDueSerial, VoidUnpaidDueSerial,
     AdjustStatusToBalanceSerial, AddStatusChangeSerial, LeaveStatusSerial
     DEF Progress, Handle

LEMMA NextSerial == SerialInv /\ [SerialNext]_vars => SerialInv'
<1>. SUFFICES ASSUME SerialInv, [SerialNext]_vars PROVE SerialInv'
  OBVIOUS
<1>1. ASSUME NEW w \in Workers, NEW a \in Attendees, Quiet(a), Arrive(w, a) PROVE SerialInv'
  BY <1>1, ArriveSerial
<1>2. ASSUME NEW w \in Workers, Progress(w) PROVE SerialInv'
  BY <1>2, ProgressSerial
<1>3. ASSUME NEW a \in Attendees, BookPayment(a) PROVE SerialInv'
  BY <1>3, BookPaymentSerial
<1>4. CASE UNCHANGED vars
  BY <1>4 DEF vars, SerialInv, TypeOK, OneRequestEach, Fresh, Booked, Busy,
              DuesAsDesired, StatusAsComputed
<1>. QED
  BY <1>1, <1>2, <1>3, <1>4 DEF SerialNext

\* What each request relies on and the two money properties hold throughout, as
\* long as requests on one attendee come one after the other.
THEOREM SerialInvariant == SerialSpec => []SerialInv
  BY InitSerial, NextSerial, PTL DEF SerialSpec

\* After any request that got as far as leaving the status recorded, the dues at
\* the payment service are those of status and packages, for every tax rate,
\* whatever was left behind by requests cut off before (UpdateDues).
THEOREM DuesAreMatched == SerialSpec => []DuesMatchStatus
<1>1. SerialInv => DuesMatchStatus
  BY DEF SerialInv, DuesAsDesired, DuesMatchStatus, DesiredDues
<1>. QED
  BY <1>1, SerialInvariant, PTL

\* What the status computed says of the balance.
LEMMA StatusTells ==
  ASSUME NEW total \in Int, NEW paid \in Int
  PROVE  LET st == StatusForBalance(total, paid) IN
         /\ st = "approved" <=> total > 0 /\ paid <= 0
         /\ st = "partially paid" <=> paid > 0 /\ total - paid > graceAmountCents
<1>. DEFINE st == StatusForBalance(total, paid)
<1>1. st = "approved" <=> total > 0 /\ paid <= 0
  BY DEF StatusForBalance
<1>2. paid < total - graceAmountCents <=> total - paid > graceAmountCents
  BY GraceAssumption
<1>3. st = "partially paid" <=> paid > 0 /\ total - paid > graceAmountCents
  <2>1. CASE paid <= 0
    BY <2>1 DEF StatusForBalance
  <2>2. CASE ~(paid <= 0)
    <3>1. paid > 0
      BY <2>2
    <3>2. st = IF paid < total - graceAmountCents THEN "partially paid" ELSE "paid"
      BY <2>2 DEF StatusForBalance
    <3>. QED
      BY <1>2, <3>1, <3>2
  <2>. QED
    BY <2>1, <2>2
<1>. QED
  BY <1>1, <1>3

\* Approved, partially paid and paid are what the dues booked and the payments
\* last read make of the attendee, though payments arrive at any time.
THEOREM StatusIsByBalance == SerialSpec => []StatusMatchesBalance
<1>1. SerialInv => StatusMatchesBalance
  <2>. SUFFICES ASSUME SerialInv, NEW a \in Attendees, settled[a], status[a] \in ByBalance
       PROVE  /\ status[a] = "approved" <=> account[a].total > 0 /\ basis[a] <= 0
              /\ status[a] = "partially paid"
                    <=> basis[a] > 0 /\ account[a].total - basis[a] > graceAmountCents
    BY DEF StatusMatchesBalance
  <2>1. account[a].total \in Int /\ basis[a] \in Int
    BY DEF SerialInv, TypeOK, AccountType
  <2>2. status[a] = StatusForBalance(account[a].total, basis[a])
    BY DEF SerialInv, StatusAsComputed
  <2>. QED
    BY <2>1, <2>2, StatusTells
<1>. QED
  BY <1>1, SerialInvariant, PTL

-----------------------------------------------------------------------------
(***************************************************************************)
(* Cancellation.  A walk over the positive dues starts with the payments   *)
(* and all that was given back, and what it spends on dues and what it     *)
(* voids leave the dues still to be walked as the only difference between  *)
(* what is booked and what has been spent.  The dues are summed up by a    *)
(* witness: f[i] is the sum of the first i of them.                        *)
(***************************************************************************)
SumsTo(dues, t) ==
    \E f \in [0 .. Len(dues) -> Int] :
        /\ f[0] = 0 /\ f[Len(dues)] = t
        /\ \A i \in 1 .. Len(dues) : f[i] = f[i - 1] + dues[i].cent

\* No dues sum up to nothing, and to nothing else.
LEMMA SumOfNone == SumsTo(<< >>, 0) /\ \A t : SumsTo(<< >>, t) => t = 0
<1>1. SumsTo(<< >>, 0)
  <2>. DEFINE f == [i \in 0 .. 0 |-> 0]
  <2>1. f \in [0 .. 0 -> Int] /\ f[0] = 0
    OBVIOUS
  <2>2. Len(<< >>) = 0 /\ \A i \in 1 .. 0 : f[i] = f[i - 1] + << >>[i].cent
    OBVIOUS
  <2>. HIDE DEF f
  <2>. QED
    BY <2>1, <2>2 DEF SumsTo
<1>. QED
  BY <1>1 DEF SumsTo

\* One due more adds its amount ...
LEMMA SumAppend ==
  ASSUME NEW dues \in Seq(Due), NEW t \in Int, NEW d \in Due, SumsTo(dues, t)
  PROVE  SumsTo(Append(dues, d), t + d.cent)
<1>. DEFINE n == Len(dues)
            more == Append(dues, d)
<1>1. PICK f \in [0 .. n -> Int] :
          /\ f[0] = 0 /\ f[n] = t
          /\ \A i \in 1 .. n : f[i] = f[i - 1] + dues[i].cent
  BY DEF SumsTo
<1>. DEFINE g == [i \in 0 .. n + 1 |-> IF i <= n THEN f[i] ELSE t + d.cent]
<1>2. /\ n \in Nat /\ Len(more) = n + 1 /\ more[n + 1] = d
      /\ \A i \in 1 .. n : more[i] = dues[i]
  OBVIOUS
<1>3. d.cent \in Int
  BY DEF Due
<1>. HIDE DEF n, more
<1>4. g \in [0 .. n + 1 -> Int] /\ g[0] = 0 /\ g[n + 1] = t + d.cent
  BY <1>1, <1>2, <1>3
<1>5. ASSUME NEW i \in 1 .. n + 1
      PROVE  g[i] = g[i - 1] + more[i].cent
  <2>1. CASE i \in 1 .. n
    <3>1. g[i] = f[i] /\ g[i - 1] = f[i - 1]
      BY <1>2, <2>1
    <3>. QED
      BY <1>1, <1>2, <2>1, <3>1
  <2>2. CASE i = n + 1
    <3>1. g[i] = t + d.cent /\ g[i - 1] = t
      BY <1>1, <1>2, <2>2
    <3>. QED
      BY <1>2, <2>2, <3>1
  <2>. QED
    BY <1>2, <2>1, <2>2
<1>. HIDE DEF g
<1>. QED
  BY <1>2, <1>4, <1>5 DEF SumsTo, more

\* ... and the first one less takes it away.
LEMMA SumTail ==
  ASSUME NEW dues \in Seq(Due), NEW t \in Int, dues # << >>, SumsTo(dues, t)
  PROVE  SumsTo(Tail(dues), t - Head(dues).cent)
<1>. DEFINE n == Len(dues)
            rest == Tail(dues)
            first == dues[1].cent
<1>1. PICK f \in [0 .. n -> Int] :
          /\ f[0] = 0 /\ f[n] = t
          /\ \A i \in 1 .. n : f[i] = f[i - 1] + dues[i].cent
  BY DEF SumsTo
<1>2. /\ n \in Nat /\ n >= 1 /\ Len(rest) = n - 1 /\ Head(dues) = dues[1]
      /\ \A i \in 1 .. n - 1 : rest[i] = dues[i + 1]
      /\ \A i \in 1 .. n : dues[i] \in Due
  OBVIOUS
<1>3. first \in Int /\ \A i \in 1 .. n : dues[i].cent \in Int
  BY <1>2 DEF Due
<1>. DEFINE g == [i \in 0 .. n - 1 |-> f[i + 1] - first]
<1>. HIDE DEF n, rest, first
<1>4. f[1] = first
  <2>1. f[1] = f[0] + dues[1].cent
    BY <1>1, <1>2
  <2>. QED
    BY <1>1, <1>3, <2>1 DEF first
<1>5. g \in [0 .. n - 1 -> Int] /\ g[0] = 0 /\ g[n - 1] = t - first
  BY <1>1, <1>2, <1>3, <1>4
<1>6. ASSUME NEW i \in 1 .. n - 1
      PROVE  g[i] = g[i - 1] + rest[i].cent
  <2>1. f[i + 1] = f[i] + dues[i + 1].cent /\ f[i] \in Int /\ f[i + 1] \in Int
    BY <1>1, <1>2
  <2>0. i + 1 \in 1 .. n
    BY <1>2
  <2>2. rest[i].cent = dues[i + 1].cent /\ dues[i + 1].cent \in Int
    <3>1. rest[i] = dues[i + 1]
      BY <1>2
    <3>. QED
      BY <1>3, <2>0, <3>1
  <2>3. g[i] = f[i + 1] - first /\ g[i - 1] = f[i] - first
    BY <1>2
  <2>. QED
    BY <1>3, <2>1, <2>2, <2>3
<1>. HIDE DEF g
<1>. QED
  BY <1>2, <1>5, <1>6 DEF SumsTo, rest, first

-----------------------------------------------------------------------------
Max0(x) == IF x > 0 THEN x ELSE 0

\* The positive dues are what there is in dues and what was given back of them.
Adds(acc) == SumsTo(acc.positive, acc.total + acc.negative) /\ acc.negative >= 0

Walk(r) ==
    /\ r.pc = "void" =>
          \E rest \in Int :
              /\ SumsTo(r.void, rest)
              /\ account[r.att].total - rest = r.seen - r.pool
              /\ r.pool >= 0 \/ r.pool >= r.seen
    /\ r.pc = "record" /\ r.new = "cancelled" => account[r.att].total <= Max0(r.seen)

OwesAtMostPaid(a) ==
    settled[a] /\ status[a] = "cancelled" => account[a].total <= Max0(basis[a])

WalkInv ==
    /\ \A a \in Attendees : Adds(account[a])
    /\ \A w \in Workers : Busy(w) => Walk(req[w])
    /\ \A a \in Attendees : OwesAtMostPaid(a)

\* A due booked is added to the positive ones, or to what was given back.
LEMMA WithDueAdds ==
  ASSUME NEW acc \in AccountType, NEW v \in VATs, NEW c \in Int, Adds(acc)
  PROVE  Adds(WithDue(acc, v, c))
<1>. DEFINE next == WithDue(acc, v, c)
<1>1. acc.positive \in Seq(Due) /\ acc.total \in Int /\ acc.negative \in Int
  BY DEF AccountType
<1>2. /\ next.total = acc.total + c
      /\ next.negative = IF c < 0 THEN acc.negative - c ELSE acc.negative
      /\ next.positive = IF c > 0 THEN Append(acc.positive, [vat |-> v, cent |-> c])
                         ELSE acc.positive
  BY DEF WithDue
<1>. HIDE DEF next
<1>3. next.negative >= 0
  BY <1>1, <1>2 DEF Adds
<1>4. CASE c > 0
  <2>. DEFINE d == [vat |-> v, cent |-> c]
  <2>1. d \in Due /\ d.cent = c
    BY DEF Due
  <2>2. next.positive = Append(acc.positive, d) /\ next.negative = acc.negative
    BY <1>2, <1>4
  <2>. HIDE DEF d
  <2>3. SumsTo(next.positive, (acc.total + acc.negative) + c)
    <3>1. acc.total + acc.negative \in Int
      BY <1>1
    <3>2. SumsTo(Append(acc.positive, d), (acc.total + acc.negative) + d.cent)
      BY <1>1, <2>1, <3>1, SumAppend DEF Adds
    <3>. QED
      BY <2>1, <2>2, <3>2
  <2>4. (acc.total + acc.negative) + c = next.total + next.negative
    BY <1>1, <1>2, <2>2
  <2>. QED
    BY <1>3, <2>3, <2>4 DEF Adds, next
<1>5. CASE ~(c > 0)
  <2>1. next.total + next.negative = acc.total + acc.negative
    BY <1>1, <1>2, <1>5
  <2>2. next.positive = acc.positive
    BY <1>2, <1>5
  <2>. QED
    BY <1>3, <2>1, <2>2 DEF Adds, next
<1>. QED
  BY <1>4, <1>5

LEMMA WithPaymentAdds ==
  ASSUME NEW acc \in AccountType, NEW c \in Int, Adds(acc)
  PROVE  Adds(WithPayment(acc, c)) /\ WithPayment(acc, c).total = acc.total
<1>1. /\ WithPayment(acc, c).positive = acc.positive /\ WithPayment(acc, c).total = acc.total
      /\ WithPayment(acc, c).negative = acc.negative
  BY DEF WithPayment, AccountType
<1>. QED
  BY <1>1 DEF Adds

LEMMA InitWalk == Init => WalkInv
<1>. SUFFICES ASSUME Init PROVE WalkInv
  OBVIOUS
<1>1. Adds(NoDebitor)
  BY SumOfNone DEF Adds, NoDebitor
<1>2. \A w \in Workers : ~Busy(w)
  BY DEF Init, Busy, Idle
<1>. QED
  BY <1>1, <1>2 DEF Init, WalkInv, OwesAtMostPaid

\* A step of w on attendee a, and on no other, keeps the invariant if it does for a.
LEMMA LocalWalk ==
  ASSUME SerialInv, WalkInv, NEW w \in Workers, NEW a \in Attendees,
         \A x \in Workers \ {w} : req'[x] = req[x],
         \A x \in Workers \ {w} : Busy(x) => req[x].att # a,
         \A b \in Attendees \ {a} :
             /\ status'[b] = status[b] /\ account'[b] = account[b]
             /\ settled'[b] = settled[b] /\ basis'[b] = basis[b],
         Adds(account'[a]),
         Busy(w)' => Walk(req[w])',
         OwesAtMostPaid(a)'
  PROVE  WalkInv'
<1>1. ASSUME NEW x \in Workers, Busy(x)'
      PROVE  Walk(req[x])'
  <2>1. CASE x = w
    BY <1>1, <2>1
  <2>2. CASE x # w
    <3>1. Busy(x) /\ req'[x] = req[x] /\ req[x].att # a
      BY <1>1, <2>2 DEF Busy
    <3>2. req[x].att \in Attendees /\ Walk(req[x])
      BY <3>1, BusyType DEF SerialInv, Request, WalkInv
    <3>3. account'[req[x].att] = account[req[x].att]
      BY <3>1, <3>2
    <3>. QED
      BY <3>1, <3>2, <3>3 DEF Walk
  <2>. QED
    BY <2>1, <2>2
<1>2. \A b \in Attendees : Adds(account'[b])
  BY DEF WalkInv
<1>3. ASSUME NEW b \in Attendees
      PROVE  OwesAtMostPaid(b)'
  BY DEF WalkInv, OwesAtMostPaid
<1>. QED
  BY <1>1, <1>2, <1>3 DEF WalkInv

\* A step that only moves a request on needs to keep just what that request knows.
LEMMA MoveWalk ==
  ASSUME SerialInv, WalkInv, NEW w \in Workers, NEW r, Continue(w, r), Walk(r),
         UNCHANGED <<status, account, settled, basis>>
  PROVE  WalkInv'
<1>1. \A x \in Workers : req'[x] = IF x = w THEN r ELSE req[x]
  BY DEF Continue, SerialInv, TypeOK
<1>2. ASSUME NEW x \in Workers, Busy(x)'
      PROVE  Walk(req[x])'
  <2>1. CASE x = w
    BY <1>1, <2>1 DEF Walk
  <2>2. CASE x # w
    <3>1. req'[x] = req[x] /\ Walk(req[x])
      BY <1>1, <1>2, <2>2 DEF Busy, WalkInv
    <3>. QED
      BY <3>1 DEF Walk
  <2>. QED
    BY <2>1, <2>2
<1>. QED
  BY <1>2 DEF WalkInv, OwesAtMostPaid

LEMMA RespondWalk ==
  ASSUME SerialInv, WalkInv, NEW w \in Workers, Respond(w),
         UNCHANGED <<status, account, settled, basis>>
  PROVE  WalkInv'
<1>1. Idle.pc = "idle"
  BY DEF Idle
<1>2. Walk(Idle)
  BY <1>1 DEF Walk
<1>3. Continue(w, Idle)
  BY DEF Respond, Continue
<1>. QED
  BY <1>2, <1>3, MoveWalk

\* Before the dues are read, nothing has to be known.
LEMMA EarlyWalk ==
  ASSUME SerialInv, WalkInv, NEW w \in Workers,
         \/ \E a \in Attendees : Arrive(w, a)
         \/ WriteAdminInfo(w) \/ ObtainLatestStatus(w)
         \/ StatusChangeAllowed(w) \/ CheckRegdesk(w) \/ StatusChangePossible(w)
  PROVE  WalkInv'
<1>1. UNCHANGED <<status, account, settled, basis>>
  BY DEF Arrive, ReceiveStatusChange, ReceiveUpdate, Receive, WriteAdminInfo,
     ObtainLatestStatus, StatusChangeAllowed, CheckRegdesk, StatusChangePossible
<1>2. \/ Respond(w)
      \/ \E r : Continue(w, r) /\ r.pc \in {"write", "latest", "allow", "desk", "check", "dues"}
  <2>1. ASSUME NEW a \in Attendees, Arrive(w, a)
        PROVE  \E r : Continue(w, r) /\ r.pc \in {"write", "latest"}
    <3>1. PICK kind \in Kinds, by \in Callers, to \in Statuses : Receive(w, kind, a, by, to)
      BY <2>1, RequestedAssumption
         DEF Arrive, ReceiveStatusChange, ReceiveUpdate, Kinds, Statuses
    <3>. DEFINE r == [pc |-> IF kind = "status" THEN "latest" ELSE "write",
                      kind |-> kind, att |-> a, by |-> by, pkg |-> packages[a],
                      old |-> "new", new |-> to, to |-> to, desk |-> {},
                      diff |-> NoDues, void |-> << >>, pool |-> 0, seen |-> 0]
    <3>2. Continue(w, r) /\ r.pc \in {"write", "latest"}
      BY <3>1 DEF Receive
    <3>. HIDE DEF r
    <3>. QED
      BY <3>2
  <2>. DEFINE r == req[w]
              current == status[r.att]
              written == [r EXCEPT !.pc = "latest"]
              asked == [r EXCEPT !.old = current, !.pc = "allow"]
              update == [r EXCEPT !.old = current, !.new = current, !.to = current,
                                  !.pc = "dues"]
              possible == [r EXCEPT !.seen = account[r.att].paid, !.pc = "dues"]
  <2>2. CASE WriteAdminInfo(w)
    <3>1. Continue(w, written) /\ written.pc = "latest"
      BY <2>2, Alone DEF WriteAdminInfo, At, Request
    <3>. HIDE DEF written
    <3>. QED
      BY <3>1
  <2>3. CASE ObtainLatestStatus(w)
    <3>1. asked.pc = "allow" /\ update.pc = "dues"
      BY <2>3, Alone DEF ObtainLatestStatus, At, Request
    <3>2. Continue(w, asked) \/ Continue(w, update)
      BY <2>3 DEF ObtainLatestStatus
    <3>. HIDE DEF asked, update
    <3>. QED
      BY <3>1, <3>2
  <2>4. CASE StatusChangeAllowed(w) \/ CheckRegdesk(w)
    BY <2>4, PermissionMoves DEF SerialInv, Granting
  <2>5. CASE StatusChangePossible(w)
    <3>1. possible.pc = "dues"
      BY <2>5, Alone DEF StatusChangePossible, At, Request
    <3>2. Continue(w, possible) \/ Respond(w)
      BY <2>5 DEF StatusChangePossible
    <3>. HIDE DEF possible
    <3>. QED
      BY <3>1, <3>2
  <2>. QED
    BY <2>1, <2>2, <2>3, <2>4, <2>5
<1>3. ASSUME NEW r, r.pc \in {"write", "latest", "allow", "desk", "check", "dues"}
      PROVE  Walk(r)
  BY <1>3 DEF Walk
<1>. QED
  BY <1>1, <1>2, <1>3, MoveWalk, RespondWalk

\* At the end of the walk no more is owed than was seen to be paid.
LEMMA WalkEnds ==
  ASSUME NEW total \in Int, NEW rest \in Int, NEW seen \in Int, NEW pool \in Int,
         SumsTo(<< >>, rest), total - rest = seen - pool, pool >= 0 \/ pool >= seen
  PROVE  total <= Max0(seen)
<1>1. rest = 0
  BY SumOfNone
<1>. QED
  BY <1>1 DEF Max0

\* The walk goes on from what it knows.
LEMMA VoidingWalks ==
  ASSUME NEW r \in Request, r.pc \in {"dues", "void"}, NEW total \in Int, NEW rest \in Int,
         SumsTo(r.void, rest), total - rest = r.seen - r.pool,
         r.pool >= 0 \/ r.pool >= r.seen
  PROVE  LET n == Voiding(r) IN
         /\ n.pc \in {"void", "record"} /\ n.att = r.att
         /\ n.pc = "void" => /\ SumsTo(n.void, rest)
                             /\ total - rest = n.seen - n.pool
                             /\ n.pool >= 0 \/ n.pool >= n.seen
         /\ n.pc = "record" => total <= Max0(n.seen)
<1>. DEFINE n == Voiding(r)
<1>1. /\ n.pc = IF r.void # << >> THEN "void" ELSE "record"
      /\ n.att = r.att /\ n.void = r.void /\ n.seen = r.seen /\ n.pool = r.pool
  BY DEF Voiding, Request
<1>2. r.seen \in Int /\ r.pool \in Int
  BY DEF Request
<1>. HIDE DEF n
<1>3. n.pc = "record" => total <= Max0(n.seen)
  BY <1>1, <1>2, WalkEnds
<1>4. n.pc = "void" => /\ SumsTo(n.void, rest)
                       /\ total - rest = n.seen - n.pool
                       /\ n.pool >= 0 \/ n.pool >= n.seen
  BY <1>1
<1>. QED
  BY <1>1, <1>3, <1>4 DEF n

\* The walk begins with all payments and all that was given back.
LEMMA UpdateDuesWalk ==
  ASSUME SerialInv, WalkInv, NEW w \in Workers, UpdateDues(w)
  PROVE  WalkInv'
<1>. DEFINE r == req[w]
            acc == account[r.att]
            desired == DesiredDues(r.new, r.pkg)
            diff == [x \in VATs |-> desired[x] - acc.dues[x]]
            u == [r EXCEPT !.void = acc.positive, !.seen = acc.paid,
                           !.pool = acc.paid + acc.negative]
            v == Adjusting([r EXCEPT !.diff = diff])
<1>1. r \in Request /\ r.pc = "dues" /\ UNCHANGED <<status, account, settled, basis>>
  BY Alone DEF UpdateDues, At
<1>2. /\ acc.positive \in Seq(Due) /\ acc.total \in Int /\ acc.negative \in Int /\ acc.paid \in Int
      /\ Adds(acc)
  BY <1>1 DEF SerialInv, TypeOK, Request, AccountType, WalkInv
<1>3. CASE r.new = "cancelled"
  <2>1. Continue(w, Voiding(u))
    BY <1>3 DEF UpdateDues
  <2>2. acc.paid + acc.negative \in Int /\ acc.total + acc.negative \in Int
    BY <1>2
  <2>3. u \in Request
    BY <1>1, <1>2, <2>2 DEF Request
  <2>4. /\ u.pc = "dues" /\ u.att = r.att /\ u.void = acc.positive
        /\ u.seen = acc.paid /\ u.pool = acc.paid + acc.negative
    BY <1>1 DEF Request
  <2>5. /\ SumsTo(u.void, acc.total + acc.negative)
        /\ acc.total - (acc.total + acc.negative) = u.seen - u.pool
        /\ u.pool >= u.seen
    BY <1>2, <2>4 DEF Adds
  <2>. HIDE DEF u
  <2>. DEFINE n == Voiding(u)
  <2>6. /\ n.pc \in {"void", "record"} /\ n.att = r.att
        /\ n.pc = "void" => /\ SumsTo(n.void, acc.total + acc.negative)
                            /\ acc.total - (acc.total + acc.negative) = n.seen - n.pool
                            /\ n.pool >= 0 \/ n.pool >= n.seen
        /\ n.pc = "record" => acc.total <= Max0(n.seen)
    BY <1>2, <2>2, <2>3, <2>4, <2>5, VoidingWalks
  <2>. HIDE DEF n
  <2>7. Walk(n)
    BY <2>2, <2>6 DEF Walk
  <2>. QED
    BY <1>1, <2>1, <2>7, MoveWalk DEF n
<1>4. CASE r.new # "cancelled"
  <2>1. Continue(w, v)
    BY <1>4 DEF UpdateDues
  <2>2. v.pc \in {"book", "balance", "record"} /\ v.new # "cancelled"
    <3>. HIDE DEF diff
    <3>. QED
      BY <1>1, <1>4 DEF Adjusting, Request
  <2>. HIDE DEF v
  <2>3. Walk(v)
    BY <2>2 DEF Walk
  <2>. QED
    BY <1>1, <2>1, <2>3, MoveWalk
<1>. QED
  BY <1>3, <1>4

\* Money spent on a due, and a due given back, leave the difference as it is.
LEMMA Spends ==
  ASSUME NEW total \in Int, NEW rest \in Int, NEW seen \in Int, NEW pool \in Int,
         NEW cent \in Int, total - rest = seen - pool, pool >= cent
  PROVE  /\ rest - cent \in Int /\ total - (rest - cent) = seen - (pool - cent)
         /\ pool - cent >= 0
OBVIOUS

LEMMA GivesBack ==
  ASSUME NEW total \in Int, NEW rest \in Int, NEW seen \in Int, NEW pool \in Int,
         NEW cent \in Int, NEW left \in Int, total - rest = seen - pool
  PROVE  /\ rest - cent \in Int /\ total + (left - cent) \in Int
         /\ (total + (left - cent)) - (rest - cent) = seen - (pool - left)
OBVIOUS

\* A due that is covered is spent and walked over.
LEMMA KeepCoveredDueWalk ==
  ASSUME SerialInv, WalkInv, NEW w \in Workers, KeepCoveredDue(w)
  PROVE  WalkInv'
<1>. DEFINE r == req[w]
            due == Head(r.void)
            total == account[r.att].total
            u == [r EXCEPT !.void = Tail(@), !.pool = @ - due.cent]
<1>1. /\ Busy(w) /\ r \in Request /\ r.pc = "void" /\ r.void # << >> /\ r.pool >= due.cent
      /\ Continue(w, Voiding(u)) /\ UNCHANGED <<status, account, settled, basis>>
  BY Alone DEF KeepCoveredDue, At
<1>2. /\ total \in Int /\ r.void \in Seq(Due) /\ due \in Due /\ due.cent \in Int
      /\ r.pool \in Int /\ r.seen \in Int
  <2>1. r.void \in Seq(Due) /\ r.pool \in Int /\ r.seen \in Int /\ r.att \in Attendees
    BY <1>1 DEF Request
  <2>2. due \in Due
    BY <1>1, <2>1
  <2>. QED
    BY <2>1, <2>2 DEF SerialInv, TypeOK, AccountType, Due
<1>3. PICK rest \in Int : SumsTo(r.void, rest) /\ total - rest = r.seen - r.pool
  BY <1>1 DEF WalkInv, Walk
<1>4. u \in Request /\ u.pc = "void" /\ u.att = r.att
      /\ u.void = Tail(r.void) /\ u.pool = r.pool - due.cent /\ u.seen = r.seen
  <2>1. Tail(r.void) \in Seq(Due) /\ r.pool - due.cent \in Int
    BY <1>1, <1>2
  <2>. HIDE DEF due
  <2>. QED
    BY <1>1, <2>1 DEF Request
<1>5. SumsTo(u.void, rest - due.cent)
  BY <1>1, <1>2, <1>3, <1>4, SumTail
<1>. HIDE DEF u, due, total
<1>6. /\ rest - due.cent \in Int /\ total - (rest - due.cent) = r.seen - (r.pool - due.cent)
      /\ r.pool - due.cent >= 0
  <2>1. total \in Int /\ due.cent \in Int /\ r.pool \in Int /\ r.seen \in Int
    BY <1>2
  <2>2. total - rest = r.seen - r.pool /\ r.pool >= due.cent
    BY <1>1, <1>3
  <2>. HIDE DEF r
  <2>. QED
    BY <2>1, <2>2, Spends
<1>. DEFINE n == Voiding(u)
<1>7. /\ n.pc \in {"void", "record"} /\ n.att = r.att
      /\ n.pc = "void" => /\ SumsTo(n.void, rest - due.cent)
                          /\ total - (rest - due.cent) = n.seen - n.pool
                          /\ n.pool >= 0 \/ n.pool >= n.seen
      /\ n.pc = "record" => total <= Max0(n.seen)
  <2>1. /\ total - (rest - due.cent) = u.seen - u.pool
        /\ u.pool >= 0 \/ u.pool >= u.seen
    BY <1>4, <1>6
  <2>. QED
    BY <1>2, <1>4, <1>5, <1>6, <2>1, VoidingWalks
<1>. HIDE DEF n
<1>8. Walk(n)
  BY <1>6, <1>7 DEF Walk, total
<1>. QED
  BY <1>1, <1>8, MoveWalk DEF n

\* Of a due that is not covered, what is kept is spent and the rest given back.
LEMMA VoidUnpaidDueWalk ==
  ASSUME SerialInv, WalkInv, NEW w \in Workers, VoidUnpaidDue(w)
  PROVE  WalkInv'
<1>. DEFINE r == req[w]
            due == Head(r.void)
            left == IF r.pool > 0 THEN r.pool ELSE 0
            u == [r EXCEPT !.void = Tail(@), !.pool = @ - left]
            n == Voiding(u)
<1>0. PICK a \in Attendees : a = r.att
  BY Alone DEF VoidUnpaidDue, At, Request
<1>. DEFINE acc == WithDue(account[a], due.vat, left - due.cent)
<1>1. /\ Busy(w) /\ r \in Request /\ r.pc = "void" /\ r.void # << >> /\ r.att = a
      /\ \A x \in Workers \ {w} : Busy(x) => req[x].att # a
  BY <1>0, Alone DEF VoidUnpaidDue, At
<1>2. /\ Continue(w, n) /\ account' = [account EXCEPT ![a] = acc]
      /\ settled' = [settled EXCEPT ![a] = FALSE] /\ UNCHANGED <<status, basis>>
  BY <1>0 DEF VoidUnpaidDue
<1>3. /\ a \in Attendees /\ r.void \in Seq(Due) /\ due \in Due /\ due.cent \in Int /\ due.vat \in VATs
      /\ r.pool \in Int /\ r.seen \in Int /\ account[a].total \in Int /\ account[a] \in AccountType
  <2>1. r.void \in Seq(Due) /\ r.pool \in Int /\ r.seen \in Int /\ r.att \in Attendees
    BY <1>1 DEF Request
  <2>2. due \in Due
    BY <1>1, <2>1
  <2>. QED
    BY <2>1, <2>2 DEF SerialInv, TypeOK, AccountType, Due
<1>4. PICK rest \in Int :
          /\ SumsTo(r.void, rest) /\ account[a].total - rest = r.seen - r.pool
          /\ r.pool >= 0 \/ r.pool >= r.seen
  BY <1>1 DEF WalkInv, Walk
<1>5. left \in Int /\ left - due.cent \in Int /\ r.pool - left \in Int
  BY <1>3
<1>6. u \in Request /\ u.pc = "void" /\ u.att = a
      /\ u.void = Tail(r.void) /\ u.pool = r.pool - left /\ u.seen = r.seen
  <2>1. Tail(r.void) \in Seq(Due)
    BY <1>1, <1>3
  <2>. HIDE DEF left
  <2>. QED
    BY <1>1, <1>5, <2>1 DEF Request
<1>7. acc.total = account[a].total + (left - due.cent) /\ Adds(acc)
  <2>1. acc.total = account[a].total + (left - due.cent)
    BY DEF WithDue
  <2>. HIDE DEF left
  <2>2. Adds(acc)
    BY <1>3, <1>5, WithDueAdds DEF WalkInv
  <2>. QED
    BY <2>1, <2>2
<1>8. SumsTo(u.void, rest - due.cent)
  BY <1>1, <1>3, <1>4, <1>6, SumTail
<1>9. r.pool - left >= 0 \/ r.pool - left >= r.seen
  BY <1>3, <1>4
<1>10. account'[a] = acc /\ \A b \in Attendees \ {a} : account'[b] = account[b]
  BY <1>2, <1>3 DEF SerialInv, TypeOK
<1>11. ~settled'[a] /\ \A b \in Attendees \ {a} : settled'[b] = settled[b]
  BY <1>2, <1>3 DEF SerialInv, TypeOK
<1>12. req'[w] = n /\ \A x \in Workers \ {w} : req'[x] = req[x]
  BY <1>2 DEF Continue, SerialInv, TypeOK
<1>. HIDE DEF u, due, left, acc
<1>13. /\ rest - due.cent \in Int /\ acc.total \in Int
       /\ acc.total - (rest - due.cent) = u.seen - u.pool
       /\ u.pool >= 0 \/ u.pool >= u.seen
  <2>1. /\ rest - due.cent \in Int /\ account[a].total + (left - due.cent) \in Int
        /\ (account[a].total + (left - due.cent)) - (rest - due.cent) = r.seen - (r.pool - left)
    <3>1. /\ account[a].total \in Int /\ due.cent \in Int /\ left \in Int
          /\ r.pool \in Int /\ r.seen \in Int
      BY <1>3, <1>5
    <3>2. account[a].total - rest = r.seen - r.pool
      BY <1>4
    <3>. HIDE DEF r
    <3>. QED
      BY <3>1, <3>2, GivesBack
  <2>. QED
    BY <1>6, <1>7, <1>9, <2>1
<1>14. /\ n.pc \in {"void", "record"} /\ n.att = a
       /\ n.pc = "void" => /\ SumsTo(n.void, rest - due.cent)
                           /\ acc.total - (rest - due.cent) = n.seen - n.pool
                           /\ n.pool >= 0 \/ n.pool >= n.seen
       /\ n.pc = "record" => acc.total <= Max0(n.seen)
  BY <1>6, <1>8, <1>13, VoidingWalks
<1>. HIDE DEF n
<1>15. Walk(req[w])'
  <2>1. rest - due.cent \in Int
    BY <1>13
  <2>. QED
    BY <1>10, <1>12, <1>14, <2>1 DEF Walk
<1>16. Adds(account'[a])
  BY <1>7, <1>10
<1>17. OwesAtMostPaid(a)'
  BY <1>11 DEF OwesAtMostPaid
<1>18. \A b \in Attendees \ {a} :
             /\ status'[b] = status[b] /\ account'[b] = account[b]
             /\ settled'[b] = settled[b] /\ basis'[b] = basis[b]
  BY <1>2, <1>10, <1>11
<1>. QED
  BY <1>1, <1>3, <1>12, <1>15, <1>16, <1>17, <1>18, LocalWalk

\* Dues booked for another status leave nothing to be known of a cancellation.
LEMMA BookAdjustmentWalk ==
  ASSUME SerialInv, WalkInv, NEW w \in Workers, BookAdjustment(w)
  PROVE  WalkInv'
<1>. DEFINE r == req[w]
<1>1. /\ Busy(w) /\ r \in Request /\ r.pc = "book" /\ Booked(r)
      /\ \A x \in Workers \ {w} : Busy(x) => req[x].att # r.att
  BY Alone DEF BookAdjustment, At
<1>2. PICK a \in Attendees : a = r.att
  BY <1>1 DEF Request
<1>3. PICK v \in VATs :
        /\ account' = [account EXCEPT ![r.att] = WithDue(@, v, r.diff[v])]
        /\ Continue(w, Adjusting([r EXCEPT !.diff[v] = 0]))
  BY DEF BookAdjustment
<1>. DEFINE acc == WithDue(account[a], v, r.diff[v])
            rest == [r EXCEPT !.diff[v] = 0]
            n == Adjusting(rest)
<1>4. r.diff[v] \in Int /\ account[a] \in AccountType
  BY <1>1 DEF SerialInv, TypeOK, Request
<1>5. Adds(acc)
  BY <1>4, WithDueAdds DEF WalkInv
<1>6. account'[a] = acc /\ \A b \in Attendees \ {a} : account'[b] = account[b]
  BY <1>2, <1>3 DEF SerialInv, TypeOK
<1>7. /\ settled' = [settled EXCEPT ![a] = FALSE] /\ UNCHANGED <<status, basis>>
  BY <1>2 DEF BookAdjustment
<1>8. ~settled'[a] /\ \A b \in Attendees \ {a} : settled'[b] = settled[b]
  BY <1>7 DEF SerialInv, TypeOK
<1>9. n.pc \in {"book", "balance", "record"} /\ n.new # "cancelled"
  <2>1. [r.diff EXCEPT ![v] = 0] \in [VATs -> Int]
    BY <1>1 DEF Request
  <2>2. rest \in Request /\ rest.new # "cancelled"
    BY <1>1, <2>1 DEF Booked, Request
  <2>. HIDE DEF rest
  <2>. QED
    BY <2>2 DEF Adjusting, Request
<1>10. req'[w] = n /\ \A x \in Workers \ {w} : req'[x] = req[x]
  BY <1>3 DEF Continue, SerialInv, TypeOK
<1>. HIDE DEF n, acc
<1>11. Walk(req[w])'
  BY <1>9, <1>10 DEF Walk
<1>12. Adds(account'[a])
  BY <1>5, <1>6
<1>13. OwesAtMostPaid(a)'
  BY <1>8 DEF OwesAtMostPaid
<1>14. \A b \in Attendees \ {a} :
             /\ status'[b] = status[b] /\ account'[b] = account[b]
             /\ settled'[b] = settled[b] /\ basis'[b] = basis[b]
  BY <1>6, <1>7, <1>8
<1>. QED
  BY <1>1, <1>2, <1>10, <1>11, <1>12, <1>13, <1>14, LocalWalk

\* Writing the attendee unsettles it.
LEMMA UpdateAttendeeWalk ==
  ASSUME SerialInv, WalkInv, NEW w \in Workers, UpdateAttendee(w)
  PROVE  WalkInv'
<1>1. /\ Busy(w) /\ req[w] \in Request /\ req[w].pc = "write"
      /\ \A x \in Workers \ {w} : Busy(x) => req[x].att # req[w].att
  BY Alone DEF UpdateAttendee, At
<1>2. PICK a \in Attendees : a = req[w].att
  BY <1>1 DEF Request
<1>3. PICK s \in Selections : req' = [req EXCEPT ![w] = [req[w] EXCEPT !.pkg = s, !.pc = "latest"]]
  BY <1>2 DEF UpdateAttendee, Continue
<1>4. settled' = [settled EXCEPT ![a] = FALSE] /\ UNCHANGED <<status, account, basis>>
  BY <1>2 DEF UpdateAttendee
<1>5. req'[w].pc = "latest" /\ \A x \in Workers \ {w} : req'[x] = req[x]
  BY <1>1, <1>3 DEF SerialInv, TypeOK, Request
<1>6. ~settled'[a] /\ \A b \in Attendees \ {a} : settled'[b] = settled[b]
  BY <1>4 DEF SerialInv, TypeOK
<1>7. Walk(req[w])' /\ OwesAtMostPaid(a)'
  BY <1>5, <1>6 DEF Walk, OwesAtMostPaid
<1>8. Adds(account'[a])
  BY <1>4 DEF WalkInv
<1>9. \A b \in Attendees \ {a} :
             /\ status'[b] = status[b] /\ account'[b] = account[b]
             /\ settled'[b] = settled[b] /\ basis'[b] = basis[b]
  BY <1>4, <1>6
<1>. QED
  BY <1>1, <1>2, <1>5, <1>7, <1>8, <1>9, LocalWalk

\* The balance makes nobody cancelled.
LEMMA AdjustStatusToBalanceWalk ==
  ASSUME SerialInv, WalkInv, NEW w \in Workers, AdjustStatusToBalance(w)
  PROVE  WalkInv'
<1>. DEFINE r == req[w]
            acc == account[r.att]
            new == StatusForBalance(acc.total, acc.paid)
            n == [r EXCEPT !.new = new, !.seen = acc.paid, !.pc = "record"]
<1>1. r \in Request
  BY Alone DEF AdjustStatusToBalance, At
<1>2. new # "cancelled"
  BY DEF StatusForBalance
<1>3. n.new = new
  <2>. HIDE DEF new
  <2>. QED
    BY <1>1 DEF Request
<1>4. Continue(w, n) \/ Respond(w)
  BY DEF AdjustStatusToBalance
<1>5. UNCHANGED <<status, account, settled, basis>>
  BY DEF AdjustStatusToBalance
<1>. HIDE DEF n, new
<1>6. n.pc = "record"
  <2>. USE DEF n
  <2>. QED
    BY <1>1 DEF Request
<1>7. Walk(n)
  BY <1>2, <1>3, <1>6 DEF Walk
<1>. QED
  BY <1>4, <1>5, <1>7, MoveWalk, RespondWalk

\* A cancellation recorded, or left, relies on the payments its walk began with.
LEMMA ConcludeWalk ==
  ASSUME SerialInv, WalkInv, NEW w \in Workers, AddStatusChange(w) \/ LeaveStatus(w)
  PROVE  WalkInv'
<1>. DEFINE r == req[w]
<1>1. /\ Busy(w) /\ r \in Request /\ r.pc = "record" /\ Fresh(r) /\ Walk(r)
      /\ \A x \in Workers \ {w} : Busy(x) => req[x].att # r.att
  BY Alone DEF AddStatusChange, LeaveStatus, At, WalkInv
<1>2. PICK a \in Attendees : a = r.att
  BY <1>1 DEF Request
<1>3. Settle(r) /\ UNCHANGED account
  BY DEF AddStatusChange, LeaveStatus
<1>4. status'[a] = r.new /\ \A b \in Attendees \ {a} : status'[b] = status[b]
  <2>1. CASE AddStatusChange(w)
    BY <1>2, <2>1 DEF AddStatusChange, SerialInv, TypeOK
  <2>2. CASE LeaveStatus(w)
    BY <1>1, <1>2, <2>2 DEF LeaveStatus, Fresh
  <2>. QED
    BY <2>1, <2>2
<1>5. /\ \A x \in Workers \ {w} : req'[x] = req[x]
      /\ req'[w].pc \in {"mail", "idle"}
  <2>1. CASE AddStatusChange(w)
    <3>1. req' = [req EXCEPT ![w] = [r EXCEPT !.pc = "mail"]]
      BY <2>1 DEF AddStatusChange, Continue
    <3>2. [r EXCEPT !.pc = "mail"].pc = "mail"
      BY <1>1 DEF Request
    <3>. QED
      BY <3>1, <3>2 DEF SerialInv, TypeOK
  <2>2. CASE LeaveStatus(w)
    <3>1. req' = [req EXCEPT ![w] = Idle]
      BY <2>2 DEF LeaveStatus, Respond
    <3>. QED
      BY <3>1 DEF SerialInv, TypeOK, Idle
  <2>. QED
    BY <2>1, <2>2
<1>6. \A b \in Attendees \ {a} : settled'[b] = settled[b] /\ basis'[b] = basis[b]
  BY <1>2, <1>3 DEF Settle, SerialInv, TypeOK
<1>7. r.new = "cancelled" => basis'[a] = r.seen /\ account'[a].total <= Max0(r.seen)
  BY <1>1, <1>2, <1>3 DEF Walk, Settle, SerialInv, TypeOK
<1>8. OwesAtMostPaid(a)'
  BY <1>4, <1>7 DEF OwesAtMostPaid
<1>9. Walk(req[w])'
  BY <1>5 DEF Walk
<1>10. Adds(account'[a])
  BY <1>3 DEF WalkInv
<1>11. \A b \in Attendees \ {a} :
             /\ status'[b] = status[b] /\ account'[b] = account[b]
             /\ settled'[b] = settled[b] /\ basis'[b] = basis[b]
  BY <1>3, <1>4, <1>6
<1>. HIDE DEF r
<1>12. \A x \in Workers \ {w} : Busy(x) => req[x].att # a
  BY <1>1, <1>2
<1>. QED
  BY <1>5, <1>8, <1>9, <1>10, <1>11, <1>12, LocalWalk

\* Payments are no dues.
LEMMA BookPaymentWalk ==
  ASSUME SerialInv, WalkInv, NEW a \in Attendees, BookPayment(a)
  PROVE  WalkInv'
<1>1. PICK c \in PaymentAmounts : account' = [account EXCEPT ![a] = WithPayment(@, c)]
  BY DEF BookPayment
<1>2. UNCHANGED <<status, req, settled, basis>>
  BY DEF BookPayment
<1>3. c \in Int /\ account[a] \in AccountType
  BY PaymentAssumption DEF SerialInv, TypeOK
<1>4. \A b \in Attendees : account'[b].total = account[b].total /\ Adds(account'[b])
  <2>1. Adds(WithPayment(account[a], c)) /\ WithPayment(account[a], c).total = account[a].total
    BY <1>3, WithPaymentAdds DEF WalkInv
  <2>2. \A b \in Attendees : account'[b] = IF b = a THEN WithPayment(account[a], c) ELSE account[b]
    BY <1>1 DEF SerialInv, TypeOK
  <2>. QED
    BY <2>1, <2>2 DEF WalkInv
<1>5. ASSUME NEW w \in Workers, Busy(w)'
      PROVE  Walk(req[w])'
  <2>1. Busy(w) /\ req'[w] = req[w]
    BY <1>2, <1>5 DEF Busy
  <2>2. req[w].att \in Attendees /\ Walk(req[w])
    BY <2>1, Alone DEF Request, WalkInv
  <2>. QED
    BY <1>4, <2>1, <2>2 DEF Walk
<1>. QED
  BY <1>2, <1>4, <1>5 DEF WalkInv, OwesAtMostPaid

LEMMA ProgressWalk ==
  ASSUME SerialInv, WalkInv, NEW w \in Workers, Progress(w)
  PROVE  WalkInv'
<1>1. CASE Fail(w) \/ SendEmail(w)
  BY <1>1, RespondWalk DEF Fail, SendEmail
<1>. QED
  BY <1>1, EarlyWalk, UpdateAttendeeWalk, UpdateDuesWalk, BookAdjustmentWalk,
     KeepCoveredDueWalk, VoidUnpaidDueWalk, AdjustStatusToBalanceWalk, ConcludeWalk
     DEF Progress, Handle

LEMMA NextWalk == SerialInv /\ WalkInv /\ [SerialNext]_vars => WalkInv'
<1>. SUFFICES ASSUME SerialInv, WalkInv, [SerialNext]_vars PROVE WalkInv'
  OBVIOUS
<1>1. ASSUME NEW w \in Workers, NEW a \in Attendees, Arrive(w, a) PROVE WalkInv'
  BY <1>1, EarlyWalk
<1>2. ASSUME NEW w \in Workers, Progress(w) PROVE WalkInv'
  BY <1>2, ProgressWalk
<1>3. ASSUME NEW a \in Attendees, BookPayment(a) PROVE WalkInv'
  BY <1>3, BookPaymentWalk
<1>4. CASE UNCHANGED vars
  BY <1>4 DEF vars, WalkInv, Walk, Adds, OwesAtMostPaid, Busy
<1>. QED
  BY <1>1, <1>2, <1>3, <1>4 DEF SerialNext

\* Who is cancelled owes no more than was paid when the walk over the dues began,
\* whatever dues were booked before, voided halfway by requests cut off, or voided
\* with money that had meanwhile been refunded (compensateUnpaidDuesOnCancel).
THEOREM CancelledOweNoMore == SerialSpec => []CancelledOwesAtMostPaid
<1>1. WalkInv => CancelledOwesAtMostPaid
  BY DEF WalkInv, OwesAtMostPaid, Max0, CancelledOwesAtMostPaid
<1>2. SerialSpec => []WalkInv
  BY InitWalk, NextWalk, SerialInvariant, PTL DEF SerialSpec
<1>. QED
  BY <1>1, <1>2, PTL
=============================================================================
