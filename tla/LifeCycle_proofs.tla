-------------------------- MODULE LifeCycle_proofs --------------------------
(***************************************************************************)
(* StatusDues implements LifeCycle when requests on one attendee come one  *)
(* after the other: what a request is about to record may follow the       *)
(* status in force, and the dues are as it calls for when it does.  By the *)
(* same argument, the second half shows which changes of status are ever   *)
(* recorded and by whom; the last part is about the check-ins of users.    *)
(***************************************************************************)
EXTENDS StatusDues_proofs, Regdesk

\* Once checked, the status a request is going to record may follow the old one.
Legal(r) ==
    r.pc \in {"dues", "book", "void", "balance", "record"} => Promised!Leads(r.old, r.new)

AllLegal == \A w \in Workers : Busy(w) => Legal(req[w])

\* A handler that goes on legally, or answers, leaves the others as legal as they were.
LEMMA ContinueLegal ==
  ASSUME TypeOK, AllLegal, NEW w \in Workers, NEW r, Continue(w, r), Legal(r)
  PROVE  AllLegal'
<1>1. \A x \in Workers : req'[x] = IF x = w THEN r ELSE req[x]
  BY DEF Continue, TypeOK
<1>. QED
  BY <1>1 DEF AllLegal, Legal, Busy, Promised!Leads, Promised!Outside, Promised!ByBalance

LEMMA RespondLegal ==
  ASSUME TypeOK, AllLegal, NEW w \in Workers, Respond(w)
  PROVE  AllLegal'
<1>1. Idle.pc = "idle"
  BY DEF Idle
<1>2. Legal(Idle)
  BY <1>1 DEF Legal
<1>3. Continue(w, Idle)
  BY DEF Respond, Continue
<1>. QED
  BY <1>2, <1>3, ContinueLegal

-----------------------------------------------------------------------------
(* Every step keeps the requests legal. *)

LEMMA ArriveLegal ==
  ASSUME TypeOK, AllLegal, NEW w \in Workers, NEW a \in Attendees, Arrive(w, a)
  PROVE  AllLegal'
<1>1. PICK kind \in Kinds, by \in Callers, to \in Statuses : Receive(w, kind, a, by, to)
  BY RequestedAssumption DEF Arrive, ReceiveStatusChange, ReceiveUpdate, Kinds, Statuses
<1>. DEFINE r == [pc |-> IF kind = "status" THEN "latest" ELSE "write",
                  kind |-> kind, att |-> a, by |-> by, pkg |-> packages[a],
                  old |-> "new", new |-> to, to |-> to, desk |-> {},
                  diff |-> NoDues, void |-> << >>, pool |-> 0, seen |-> 0]
<1>2. Continue(w, r)
  BY <1>1 DEF Receive
<1>3. r.pc \in {"latest", "write"}
  OBVIOUS
<1>. HIDE DEF r
<1>4. Legal(r)
  BY <1>3 DEF Legal
<1>. QED
  BY <1>2, <1>4, ContinueLegal

\* An update asks for the status there is, which may of course be kept.
LEMMA ObtainLatestStatusLegal ==
  ASSUME TypeOK, AllLegal, NEW w \in Workers, ObtainLatestStatus(w)
  PROVE  AllLegal'
<1>. DEFINE r == req[w]
            current == status[r.att]
<1>1. r \in Request
  BY BusyType DEF ObtainLatestStatus, At
<1>2. current \in Statuses
  BY <1>1 DEF TypeOK, Request
<1>3. CASE r.kind = "status"
  <2>. DEFINE s == [r EXCEPT !.old = current, !.pc = "allow"]
  <2>1. Continue(w, s)
    BY <1>3 DEF ObtainLatestStatus
  <2>2. s.pc = "allow"
    BY <1>1 DEF Request
  <2>. HIDE DEF s
  <2>. QED
    BY <2>1, <2>2, ContinueLegal DEF Legal
<1>4. CASE r.kind # "status"
  <2>. DEFINE s == [r EXCEPT !.old = current, !.new = current, !.to = current, !.pc = "dues"]
  <2>1. Continue(w, s)
    BY <1>4 DEF ObtainLatestStatus
  <2>2. s.old = current /\ s.new = current
    BY <1>1 DEF Request
  <2>. HIDE DEF s, current
  <2>3. Legal(s)
    BY <1>2, <2>2
       DEF Legal, Statuses, Promised!Leads, Promised!Outside, Promised!ByBalance
  <2>. QED
    BY <2>1, <2>3, ContinueLegal
<1>. QED
  BY <1>3, <1>4

\* What StatusChangePossible lets through may follow the old status.
LEMMA StatusChangePossibleLegal ==
  ASSUME TypeOK, AllLegal, NEW w \in Workers, StatusChangePossible(w)
  PROVE  AllLegal'
<1>. DEFINE r == req[w]
            acc == account[r.att]
            s == [r EXCEPT !.seen = acc.paid, !.pc = "dues"]
<1>1. r \in Request
  BY BusyType DEF StatusChangePossible, At
<1>2. CASE ~Possible(r.old, r.new, acc)
  BY <1>2, RespondLegal DEF StatusChangePossible
<1>3. CASE Possible(r.old, r.new, acc)
  <2>1. Continue(w, s)
    BY <1>3 DEF StatusChangePossible
  <2>2. s.old = r.old /\ s.new = r.new /\ r.old \in Statuses /\ r.new \in Statuses
    BY <1>1 DEF Request
  <2>3. r.new = "checked in" => r.old \notin NotApproved
    BY <1>3 DEF Possible
  <2>. HIDE DEF s, r
  <2>4. Legal(s)
    BY <2>2, <2>3
       DEF Legal, Statuses, NotApproved, Promised!Leads, Promised!Outside, Promised!ByBalance
  <2>. QED
    BY <2>1, <2>4, ContinueLegal
<1>. QED
  BY <1>2, <1>3

\* Before the checks and once the status is recorded there is nothing to show.
LEMMA UpdateAttendeeLegal ==
  ASSUME TypeOK, AllLegal, NEW w \in Workers, UpdateAttendee(w)
  PROVE  AllLegal'
<1>1. PICK p \in Selections : Continue(w, [req[w] EXCEPT !.pkg = p, !.pc = "latest"])
  BY DEF UpdateAttendee
<1>. DEFINE s == [req[w] EXCEPT !.pkg = p, !.pc = "latest"]
<1>2. s.pc = "latest"
  BY BusyType DEF UpdateAttendee, At, Request
<1>. HIDE DEF s
<1>. QED
  BY <1>1, <1>2, ContinueLegal DEF Legal, s

LEMMA WriteAdminInfoLegal ==
  ASSUME TypeOK, AllLegal, NEW w \in Workers, WriteAdminInfo(w)
  PROVE  AllLegal'
<1>. DEFINE s == [req[w] EXCEPT !.pc = "latest"]
<1>1. Continue(w, s)
  BY DEF WriteAdminInfo
<1>2. s.pc = "latest"
  BY BusyType DEF WriteAdminInfo, At, Request
<1>. HIDE DEF s
<1>. QED
  BY <1>1, <1>2, ContinueLegal DEF Legal

LEMMA PermissionLegal ==
  ASSUME TypeOK, AllLegal, NEW w \in Workers, StatusChangeAllowed(w) \/ CheckRegdesk(w)
  PROVE  AllLegal'
<1>1. ASSUME NEW n, Granting(req[w], n) PROVE Legal(n)
  BY <1>1 DEF Granting, Legal
<1>. QED
  BY <1>1, PermissionMoves, ContinueLegal, RespondLegal

LEMMA AddStatusChangeLegal ==
  ASSUME TypeOK, AllLegal, NEW w \in Workers, AddStatusChange(w)
  PROVE  AllLegal'
<1>. DEFINE s == [req[w] EXCEPT !.pc = "mail"]
<1>1. Continue(w, s)
  BY DEF AddStatusChange
<1>2. s.pc = "mail"
  BY BusyType DEF AddStatusChange, At, Request
<1>. HIDE DEF s
<1>. QED
  BY <1>1, <1>2, ContinueLegal DEF Legal

\* While dues are booked, neither the old nor the new status changes.
LEMMA KeepLegal ==
  ASSUME TypeOK, AllLegal, NEW w \in Workers, Busy(w),
         req[w].pc \in {"dues", "book", "void"},
         NEW s, s.old = req[w].old, s.new = req[w].new
  PROVE  Legal(s)
  BY DEF AllLegal, Legal, Promised!Leads

LEMMA UpdateDuesLegal ==
  ASSUME TypeOK, AllLegal, NEW w \in Workers, UpdateDues(w)
  PROVE  AllLegal'
<1>. DEFINE r == req[w]
            acc == account[r.att]
            desired == DesiredDues(r.new, r.pkg)
            u == [r EXCEPT !.void = acc.positive, !.seen = acc.paid,
                           !.pool = acc.paid + acc.negative]
            v == [r EXCEPT !.diff = [x \in VATs |-> desired[x] - acc.dues[x]]]
<1>1. r \in Request /\ Busy(w) /\ r.pc = "dues"
  BY BusyType DEF UpdateDues, At
<1>2. CASE r.new = "cancelled"
  <2>1. Continue(w, Voiding(u))
    BY <1>2 DEF UpdateDues
  <2>2. Voiding(u).old = r.old /\ Voiding(u).new = r.new
    BY <1>1 DEF Voiding, Request
  <2>. HIDE DEF u
  <2>. QED
    BY <1>1, <2>1, <2>2, KeepLegal, ContinueLegal
<1>3. CASE r.new # "cancelled"
  <2>1. Continue(w, Adjusting(v))
    BY <1>3 DEF UpdateDues
  <2>2. Adjusting(v).old = r.old /\ Adjusting(v).new = r.new
    BY <1>1 DEF Adjusting, Request
  <2>. HIDE DEF v
  <2>. QED
    BY <1>1, <2>1, <2>2, KeepLegal, ContinueLegal
<1>. QED
  BY <1>2, <1>3

LEMMA BookAdjustmentLegal ==
  ASSUME TypeOK, AllLegal, NEW w \in Workers, BookAdjustment(w)
  PROVE  AllLegal'
<1>. DEFINE r == req[w]
<1>1. r \in Request /\ Busy(w) /\ r.pc = "book"
  BY BusyType DEF BookAdjustment, At
<1>2. PICK v \in VATs : Continue(w, Adjusting([r EXCEPT !.diff[v] = 0]))
  BY DEF BookAdjustment
<1>. DEFINE s == Adjusting([r EXCEPT !.diff[v] = 0])
<1>3. s.old = r.old /\ s.new = r.new
  BY <1>1 DEF Adjusting, Request
<1>4. Continue(w, s)
  BY <1>2
<1>. HIDE DEF s
<1>. QED
  BY <1>1, <1>3, <1>4, KeepLegal, ContinueLegal

LEMMA KeepCoveredDueLegal ==
  ASSUME TypeOK, AllLegal, NEW w \in Workers, KeepCoveredDue(w)
  PROVE  AllLegal'
<1>. DEFINE r == req[w]
            s == Voiding([r EXCEPT !.void = Tail(@), !.pool = @ - Head(r.void).cent])
<1>1. r \in Request /\ Busy(w) /\ r.pc = "void"
  BY BusyType DEF KeepCoveredDue, At
<1>2. Continue(w, s)
  BY DEF KeepCoveredDue
<1>3. s.old = r.old /\ s.new = r.new
  BY <1>1 DEF Voiding, Request
<1>. HIDE DEF s
<1>. QED
  BY <1>1, <1>2, <1>3, KeepLegal, ContinueLegal

LEMMA VoidUnpaidDueLegal ==
  ASSUME TypeOK, AllLegal, NEW w \in Workers, VoidUnpaidDue(w)
  PROVE  AllLegal'
<1>. DEFINE r == req[w]
            left == IF r.pool > 0 THEN r.pool ELSE 0
            s == Voiding([r EXCEPT !.void = Tail(@), !.pool = @ - left])
<1>1. r \in Request /\ Busy(w) /\ r.pc = "void"
  BY BusyType DEF VoidUnpaidDue, At
<1>2. Continue(w, s)
  BY DEF VoidUnpaidDue
<1>3. s.old = r.old /\ s.new = r.new
  BY <1>1 DEF Voiding, Request
<1>. HIDE DEF s
<1>. QED
  BY <1>1, <1>2, <1>3, KeepLegal, ContinueLegal

\* The balance leaves nobody without a place, nor checks anybody in.
LEMMA AdjustStatusToBalanceLegal ==
  ASSUME TypeOK, AllLegal, NEW w \in Workers, AdjustStatusToBalance(w)
  PROVE  AllLegal'
<1>. DEFINE r == req[w]
            acc == account[r.att]
            s == [r EXCEPT !.new = StatusForBalance(acc.total, acc.paid),
                           !.seen = acc.paid, !.pc = "record"]
<1>1. r \in Request
  BY BusyType DEF AdjustStatusToBalance, At
<1>2. Continue(w, s) \/ Respond(w)
  BY DEF AdjustStatusToBalance
<1>3. s.new = StatusForBalance(acc.total, acc.paid)
  BY <1>1 DEF Request
<1>. HIDE DEF s, acc
<1>4. s.new \in {"approved", "partially paid", "paid"}
  BY <1>3 DEF StatusForBalance
<1>5. Legal(s)
  BY <1>4 DEF Legal, Promised!Leads, Promised!ByBalance
<1>. QED
  BY <1>2, <1>5, ContinueLegal, RespondLegal

LEMMA ProgressLegal ==
  ASSUME TypeOK, AllLegal, NEW w \in Workers, Progress(w)
  PROVE  AllLegal'
<1>1. CASE Fail(w) \/ SendEmail(w) \/ LeaveStatus(w)
  BY <1>1, RespondLegal DEF Fail, SendEmail, LeaveStatus
<1>. QED
  BY <1>1, UpdateAttendeeLegal, WriteAdminInfoLegal, ObtainLatestStatusLegal,
     PermissionLegal, StatusChangePossibleLegal, UpdateDuesLegal,
     BookAdjustmentLegal, KeepCoveredDueLegal, VoidUnpaidDueLegal,
     AdjustStatusToBalanceLegal, AddStatusChangeLegal
     DEF Progress, Handle

LEMMA NextLegal == TypeOK /\ AllLegal /\ [SerialNext]_vars => AllLegal'
<1>. SUFFICES ASSUME TypeOK, AllLegal, [SerialNext]_vars PROVE AllLegal'
  OBVIOUS
<1>1. ASSUME NEW w \in Workers, NEW a \in Attendees, Arrive(w, a) PROVE AllLegal'
  BY <1>1, ArriveLegal
<1>2. ASSUME NEW w \in Workers, Progress(w) PROVE AllLegal'
  BY <1>2, ProgressLegal
<1>3. CASE UNCHANGED req
  BY <1>3 DEF AllLegal, Legal, Busy, Promised!Leads
<1>4. ASSUME NEW a \in Attendees, BookPayment(a) PROVE UNCHANGED req
  BY <1>4 DEF BookPayment
<1>5. CASE UNCHANGED vars
  BY <1>3, <1>5 DEF vars
<1>. QED
  BY <1>1, <1>2, <1>3, <1>4, <1>5 DEF SerialNext

LEMMA InitLegal == Init => AllLegal
  BY DEF Init, AllLegal, Busy, Idle

-----------------------------------------------------------------------------
(***************************************************************************)
(* Every step of StatusDues is a step of LifeCycle, or none.               *)
(***************************************************************************)
Dues == [a \in Attendees |-> account[a].dues]

\* What changes none of these is not seen in the life cycle.
LEMMA Unseen ==
  ASSUME UNCHANGED <<status, packages, account, settled>>
  PROVE  UNCHANGED Promised!vars
  BY DEF Promised!vars

\* A payment changes no dues.
LEMMA BookPaymentUnseen ==
  ASSUME TypeOK, NEW a \in Attendees, BookPayment(a)
  PROVE  UNCHANGED Promised!vars
<1>1. PICK c \in PaymentAmounts : account' = [account EXCEPT ![a] = WithPayment(@, c)]
  BY DEF BookPayment
<1>2. \A b \in Attendees : account'[b].dues = account[b].dues
  <2>1. account[a] \in AccountType
    BY DEF TypeOK
  <2>2. WithPayment(account[a], c).dues = account[a].dues
    BY <2>1 DEF WithPayment, AccountType
  <2>. QED
    BY <1>1, <2>2 DEF TypeOK
<1>3. UNCHANGED <<status, packages, settled>>
  BY DEF BookPayment
<1>. QED
  BY <1>2, <1>3 DEF Promised!vars

LEMMA UpdateAttendeeChooses ==
  ASSUME TypeOK, NEW w \in Workers, UpdateAttendee(w)
  PROVE  Promised!Next
<1>1. req[w].att \in Attendees
  BY BusyType DEF UpdateAttendee, At, Request
<1>2. Promised!Choose(req[w].att)
  BY DEF UpdateAttendee, Promised!Choose
<1>. QED
  BY <1>1, <1>2 DEF Promised!Next

\* A due at one rate changes the dues at that rate.
LEMMA WithDueBooks ==
  ASSUME TypeOK, TypeOK', NEW a \in Attendees, NEW v \in VATs, NEW c,
         account' = [account EXCEPT ![a] = WithDue(@, v, c)],
         settled' = [settled EXCEPT ![a] = FALSE],
         UNCHANGED <<status, packages>>
  PROVE  Promised!Next
<1>1. account'[a] = WithDue(account[a], v, c)
  BY DEF TypeOK
<1>2. account'[a].dues = [account[a].dues EXCEPT ![v] = @ + c]
  BY <1>1 DEF WithDue
<1>3. account[a].dues \in [VATs -> Int] /\ account'[a].dues \in [VATs -> Int]
  BY DEF TypeOK, AccountType
<1>4. account'[a].dues = [account[a].dues EXCEPT ![v] = account'[a].dues[v]]
  BY <1>2, <1>3
<1>5. \A b \in Attendees \ {a} : account'[b] = account[b]
  BY DEF TypeOK
<1>6. Dues' = [Dues EXCEPT ![a][v] = Dues'[a][v]]
  <2>. DEFINE here == [account[a].dues EXCEPT ![v] = account'[a].dues[v]]
  <2>1. Dues' = [b \in Attendees |-> account'[b].dues]
    BY DEF Dues
  <2>2. [Dues EXCEPT ![a][v] = Dues'[a][v]] =
          [b \in Attendees |-> IF b = a THEN here ELSE account[b].dues]
    <3>. DEFINE booked == Dues'[a][v]
    <3>1. booked = account'[a].dues[v]
      BY <2>1
    <3>2. Dues[a] = account[a].dues /\ \A b \in Attendees : Dues[b] = account[b].dues
      BY DEF Dues
    <3>3. DOMAIN Dues = Attendees /\ Dues = [b \in Attendees |-> Dues[b]]
      BY DEF Dues
    <3>. HIDE DEF booked
    <3>4. [Dues EXCEPT ![a][v] = booked] =
            [b \in Attendees |-> IF b = a THEN [Dues[a] EXCEPT ![v] = booked] ELSE Dues[b]]
      BY <3>3
    <3>5. [Dues[a] EXCEPT ![v] = booked] = here
      BY <3>1, <3>2
    <3>6. [Dues EXCEPT ![a][v] = booked] =
            [b \in Attendees |-> IF b = a THEN here ELSE account[b].dues]
      BY <3>2, <3>4, <3>5
    <3>. QED
      BY <3>6 DEF booked
  <2>3. account'[a].dues = here
    BY <1>4
  <2>. HIDE DEF here
  <2>4. \A b \in Attendees : account'[b].dues = IF b = a THEN here ELSE account[b].dues
    BY <1>5, <2>3
  <2>. QED
    BY <2>1, <2>2, <2>4
<1>7. Dues'[a][v] \in Int
  BY <1>3 DEF Dues
<1>8. Promised!Book(a)
  BY <1>6, <1>7 DEF Promised!Book, Dues
<1>. QED
  BY <1>8 DEF Promised!Next

LEMMA BookAdjustmentBooks ==
  ASSUME TypeOK, TypeOK', NEW w \in Workers, BookAdjustment(w)
  PROVE  Promised!Next
<1>1. req[w].att \in Attendees
  BY BusyType DEF BookAdjustment, At, Request
<1>. QED
  BY <1>1, WithDueBooks DEF BookAdjustment

LEMMA VoidUnpaidDueBooks ==
  ASSUME TypeOK, TypeOK', NEW w \in Workers, VoidUnpaidDue(w)
  PROVE  Promised!Next
<1>1. req[w] \in Request /\ req[w].void # << >>
  BY BusyType DEF VoidUnpaidDue, At
<1>2. req[w].att \in Attendees /\ Head(req[w].void) \in Due
  BY <1>1 DEF Request
<1>3. Head(req[w].void).vat \in VATs
  BY <1>2 DEF Due
<1>. QED
  BY <1>2, <1>3, WithDueBooks DEF VoidUnpaidDue

\* What is recorded may follow the status in force, and goes with the dues.
LEMMA Concludes ==
  ASSUME SerialInv, AllLegal, SerialInv', NEW w \in Workers, At(w, "record"),
         status' = [status EXCEPT ![req[w].att] = req[w].new], Settle(req[w]),
         UNCHANGED <<packages, account>>
  PROVE  Promised!Next
<1>. DEFINE r == req[w]
            a == r.att
<1>1. r \in Request /\ Busy(w) /\ r.pc = "record"
  BY BusyType DEF At, SerialInv
<1>2. a \in Attendees /\ r.new \in Statuses
  BY <1>1 DEF Request
<1>3. r.old = status[a]
  BY <1>1 DEF SerialInv, Fresh
<1>4. Promised!Leads(status[a], r.new)
  BY <1>1, <1>3 DEF AllLegal, Legal, Promised!Leads
<1>5. settled' = [settled EXCEPT ![a] = TRUE]
  BY DEF Settle
<1>6. settled'[a] /\ status'[a] = r.new
  BY <1>2, <1>5 DEF SerialInv, TypeOK
<1>7. r.new # "cancelled" => account[a].dues = DesiredDues(r.new, packages[a])
  BY <1>2, <1>6 DEF SerialInv, DuesAsDesired
<1>8. packages[a] \in Selections /\ account[a].dues \in [VATs -> Int]
  BY <1>2 DEF SerialInv, TypeOK, AccountType
<1>9. Promised!Calls(r.new, packages[a], Dues[a])
  <2>1. Dues[a] = account[a].dues
    BY <1>2 DEF Dues
  <2>2. CASE r.new = "cancelled"
    BY <1>8, <2>1, <2>2 DEF Promised!Calls
  <2>3. CASE r.new \in {"new", "deleted"}
    BY <1>7, <2>1, <2>3 DEF Promised!Calls, DesiredDues, NoDues, Promised!NoDues
  <2>4. CASE r.new \in {"approved", "partially paid", "paid", "checked in"}
    BY <1>7, <1>8, <2>1, <2>4 DEF Promised!Calls, DesiredDues, Promised!ByBalance
  <2>. QED
    BY <1>2, <2>2, <2>3, <2>4 DEF Statuses
<1>10. r.new \in Promised!Outside \cup Promised!ByBalance \cup {"checked in"}
  BY <1>2 DEF Statuses, Promised!Outside, Promised!ByBalance
<1>11. UNCHANGED <<packages, Dues>>
  BY DEF Dues
<1>12. Promised!Conclude(a)
  BY <1>4, <1>5, <1>9, <1>10, <1>11 DEF Promised!Conclude, Dues
<1>. QED
  BY <1>2, <1>12 DEF Promised!Next

LEMMA StepSimulated ==
  SerialInv /\ AllLegal /\ SerialInv' /\ [SerialNext]_vars => [Promised!Next]_(Promised!vars)
<1>. SUFFICES ASSUME SerialInv, AllLegal, SerialInv', [SerialNext]_vars
     PROVE  Promised!Next \/ UNCHANGED Promised!vars
  OBVIOUS
<1>. USE DEF SerialInv
<1>1. ASSUME NEW w \in Workers, NEW a \in Attendees, Arrive(w, a)
      PROVE  UNCHANGED Promised!vars
  BY <1>1, Unseen DEF Arrive, ReceiveStatusChange, ReceiveUpdate, Receive
<1>2. ASSUME NEW w \in Workers, Progress(w)
      PROVE  Promised!Next \/ UNCHANGED Promised!vars
  <2>1. CASE UpdateAttendee(w)
    BY <2>1, UpdateAttendeeChooses
  <2>2. CASE BookAdjustment(w)
    BY <2>2, BookAdjustmentBooks
  <2>3. CASE VoidUnpaidDue(w)
    BY <2>3, VoidUnpaidDueBooks
  <2>4. CASE AddStatusChange(w)
    BY <2>4, Concludes DEF AddStatusChange
  <2>5. CASE LeaveStatus(w)
    <3>1. status' = [status EXCEPT ![req[w].att] = req[w].new]
      <4>1. req[w].old = status[req[w].att] /\ req[w].new = req[w].old
        BY <2>5 DEF LeaveStatus, At, Fresh
      <4>2. status' = status
        BY <2>5 DEF LeaveStatus
      <4>. QED
        BY <4>1, <4>2 DEF TypeOK
    <3>. QED
      BY <2>5, <3>1, Concludes DEF LeaveStatus
  <2>6. CASE \/ WriteAdminInfo(w) \/ ObtainLatestStatus(w) \/ StatusChangeAllowed(w)
             \/ CheckRegdesk(w) \/ StatusChangePossible(w) \/ UpdateDues(w) \/ KeepCoveredDue(w)
             \/ AdjustStatusToBalance(w) \/ SendEmail(w) \/ Fail(w)
    BY <2>6, Unseen DEF WriteAdminInfo, ObtainLatestStatus, StatusChangeAllowed,
       CheckRegdesk, StatusChangePossible, UpdateDues, KeepCoveredDue, AdjustStatusToBalance, SendEmail, Fail
  <2>. QED
    BY <1>2, <2>1, <2>2, <2>3, <2>4, <2>5, <2>6 DEF Progress, Handle
<1>3. ASSUME NEW a \in Attendees, BookPayment(a) PROVE UNCHANGED Promised!vars
  BY <1>3, BookPaymentUnseen
<1>4. CASE UNCHANGED vars
  BY <1>4, Unseen DEF vars
<1>. QED
  BY <1>1, <1>2, <1>3, <1>4 DEF SerialNext

LEMMA InitSimulated == Init => Promised!Init
<1>. SUFFICES ASSUME Init PROVE Promised!Init
  OBVIOUS
<1>1. \A a \in Attendees : account[a].dues = NoDues
  BY DEF Init, NoDebitor
<1>2. Dues = [a \in Attendees |-> Promised!NoDues]
  BY <1>1 DEF Dues, NoDues, Promised!NoDues
<1>. QED
  BY <1>2 DEF Init, Promised!Init, Dues

\* With requests on one attendee in sequence, every behaviour of the handlers, cut off
\* where they may be, is one of the life cycle: packages are chosen, dues are booked
\* rate by rate, and a status is left to stand only with the dues it calls for, after
\* one it may follow.
THEOREM LifeCycleImplemented == SerialSpec => FollowsLifeCycle
<1>1. Init => AllLegal /\ Promised!Init
  BY InitLegal, InitSimulated
<1>2. SerialInv /\ AllLegal /\ [SerialNext]_vars => AllLegal'
  BY NextLegal DEF SerialInv
<1>. QED
  BY <1>1, <1>2, SerialInvariant, StepSimulated, PTL
     DEF SerialSpec, FollowsLifeCycle, Promised!Spec

-----------------------------------------------------------------------------
(***************************************************************************)
(* What a request may record, in any interleaving.  Nothing but the        *)
(* request itself says so: the checks it has passed hold of the old status *)
(* as it read it, and what it is going to record is what it was asked for, *)
(* or, where that was by balance, another status by balance.               *)
(***************************************************************************)
Checked == {"dues", "book", "void", "balance", "record"}

\* The part of Allowed that does not change under the request's feet.
Granted(r) ==
    \/ r.by = Admin
    \/ r.by = Owner[r.att] /\ SelfAllowed(r.old, r.to)
    \/ r.by # Owner[r.att] /\ r.old = "paid" /\ r.to = "checked in"

Passed(r) ==
    /\ r.pc \in {"allow", "desk", "check"} => r.kind = "status"
    /\ r.pc = "balance" => r.new \in ByBalance
    /\ r.kind = "status" /\ r.pc \in Steps \ {"record", "mail"} => r.new = r.to
    /\ r.kind = "status" /\ r.pc = "record" =>
          r.new = r.to \/ {r.to, r.new} \subseteq ByBalance
    /\ r.kind = "status" /\ r.pc \in Checked \cup {"desk", "check"} => Granted(r)
    /\ r.kind = "status" /\ r.pc \in Checked /\ r.to \in {"partially paid", "paid", "checked in"} =>
          r.old \notin NotApproved
    /\ r.kind # "status" /\ r.pc \in Checked =>
          r.new = r.old \/ {r.old, r.new} \subseteq ByBalance

AllPassed == \A w \in Workers : Busy(w) => Passed(req[w])

LEMMA ContinuePassed ==
  ASSUME TypeOK, AllPassed, NEW w \in Workers, NEW r, Continue(w, r), Passed(r)
  PROVE  AllPassed'
<1>1. \A x \in Workers : req'[x] = IF x = w THEN r ELSE req[x]
  BY DEF Continue, TypeOK
<1>2. ASSUME NEW x \in Workers, Busy(x)'
      PROVE  Passed(req'[x])
  <2>1. CASE x = w
    BY <1>1, <2>1
  <2>2. CASE x # w
    BY <1>1, <1>2, <2>2 DEF AllPassed, Busy
  <2>. QED
    BY <2>1, <2>2
<1>. HIDE DEF Passed
<1>. QED
  BY <1>2 DEF AllPassed, Passed, Granted

LEMMA RespondPassed ==
  ASSUME TypeOK, AllPassed, NEW w \in Workers, Respond(w)
  PROVE  AllPassed'
<1>1. Idle.pc = "idle"
  BY DEF Idle
<1>2. Passed(Idle)
  BY <1>1 DEF Passed, Checked, Steps
<1>3. Continue(w, Idle)
  BY DEF Respond, Continue
<1>. QED
  BY <1>2, <1>3, ContinuePassed

\* While dues are booked, nothing of what was checked changes.
LEMMA BookingPassed ==
  ASSUME TypeOK, AllPassed, NEW w \in Workers, Busy(w),
         req[w].pc \in {"dues", "book", "void"},
         NEW r,
         r.kind = req[w].kind, r.att = req[w].att, r.by = req[w].by,
         r.old = req[w].old, r.new = req[w].new, r.to = req[w].to,
         r.pc \in {"book", "void", "balance", "record"},
         r.pc = "balance" => r.new \in ByBalance
  PROVE  Passed(r)
<1>1. Passed(req[w])
  BY DEF AllPassed
<1>2. Granted(req[w]) => Granted(r)
  BY DEF Granted
<1>. QED
  BY <1>1, <1>2 DEF Passed, Checked, Steps

LEMMA ArrivePassed ==
  ASSUME TypeOK, AllPassed, NEW w \in Workers, NEW a \in Attendees, Arrive(w, a)
  PROVE  AllPassed'
<1>1. PICK kind \in Kinds, by \in Callers, to \in Statuses : Receive(w, kind, a, by, to)
  BY RequestedAssumption DEF Arrive, ReceiveStatusChange, ReceiveUpdate, Kinds, Statuses
<1>. DEFINE r == [pc |-> IF kind = "status" THEN "latest" ELSE "write",
                  kind |-> kind, att |-> a, by |-> by, pkg |-> packages[a],
                  old |-> "new", new |-> to, to |-> to, desk |-> {},
                  diff |-> NoDues, void |-> << >>, pool |-> 0, seen |-> 0]
<1>2. Continue(w, r)
  BY <1>1 DEF Receive
<1>3. r.pc \in {"latest", "write"} /\ r.new = r.to
  OBVIOUS
<1>. HIDE DEF r
<1>4. Passed(r)
  BY <1>3 DEF Passed, Checked, Steps
<1>. QED
  BY <1>2, <1>4, ContinuePassed

LEMMA UpdateAttendeePassed ==
  ASSUME TypeOK, AllPassed, NEW w \in Workers, UpdateAttendee(w)
  PROVE  AllPassed'
<1>1. PICK p \in Selections : Continue(w, [req[w] EXCEPT !.pkg = p, !.pc = "latest"])
  BY DEF UpdateAttendee
<1>. DEFINE s == [req[w] EXCEPT !.pkg = p, !.pc = "latest"]
<1>2. /\ req[w] \in Request /\ Passed(req[w]) /\ req[w].pc = "write"
      /\ s.pc = "latest" /\ s.kind = req[w].kind /\ s.new = req[w].new /\ s.to = req[w].to
  BY BusyType DEF UpdateAttendee, At, Request, AllPassed
<1>. HIDE DEF s
<1>3. Passed(s)
  BY <1>2 DEF Passed, Checked, Steps
<1>. QED
  BY <1>1, <1>3, ContinuePassed DEF s

LEMMA WriteAdminInfoPassed ==
  ASSUME TypeOK, AllPassed, NEW w \in Workers, WriteAdminInfo(w)
  PROVE  AllPassed'
<1>. DEFINE s == [req[w] EXCEPT !.pc = "latest"]
<1>1. Continue(w, s)
  BY DEF WriteAdminInfo
<1>2. /\ Passed(req[w]) /\ req[w].pc = "write"
      /\ s.pc = "latest" /\ s.kind = req[w].kind /\ s.new = req[w].new /\ s.to = req[w].to
  BY BusyType DEF WriteAdminInfo, At, Request, AllPassed
<1>. HIDE DEF s
<1>3. Passed(s)
  BY <1>2 DEF Passed, Checked, Steps
<1>. QED
  BY <1>1, <1>3, ContinuePassed

\* An update asks for the status there is.
LEMMA ObtainLatestStatusPassed ==
  ASSUME TypeOK, AllPassed, NEW w \in Workers, ObtainLatestStatus(w)
  PROVE  AllPassed'
<1>. DEFINE r == req[w]
            current == status[r.att]
<1>1. r \in Request /\ Passed(r) /\ r.pc = "latest"
  BY BusyType DEF ObtainLatestStatus, At, AllPassed
<1>2. CASE r.kind = "status"
  <2>. DEFINE s == [r EXCEPT !.old = current, !.pc = "allow"]
  <2>1. Continue(w, s)
    BY <1>2 DEF ObtainLatestStatus
  <2>2. s.pc = "allow" /\ s.kind = r.kind /\ s.new = r.new /\ s.to = r.to
    BY <1>1 DEF Request
  <2>. HIDE DEF s
  <2>3. Passed(s)
    BY <1>1, <1>2, <2>2 DEF Passed, Checked, Steps
  <2>. QED
    BY <2>1, <2>3, ContinuePassed
<1>3. CASE r.kind # "status"
  <2>. DEFINE s == [r EXCEPT !.old = current, !.new = current, !.to = current, !.pc = "dues"]
  <2>1. Continue(w, s)
    BY <1>3 DEF ObtainLatestStatus
  <2>2. s.pc = "dues" /\ s.kind = r.kind /\ s.old = s.new
    BY <1>1 DEF Request
  <2>. HIDE DEF s
  <2>3. Passed(s)
    BY <1>3, <2>2 DEF Passed, Checked, Steps
  <2>. QED
    BY <2>1, <2>3, ContinuePassed
<1>. QED
  BY <1>2, <1>3

\* StatusChangeAllowed grants the request, up to what the user's registrations say ...
LEMMA PermissionPassed ==
  ASSUME TypeOK, AllPassed, NEW w \in Workers, StatusChangeAllowed(w) \/ CheckRegdesk(w)
  PROVE  AllPassed'
<1>1. req[w] \in Request /\ Passed(req[w]) /\ req[w].pc \in {"allow", "desk"}
  BY BusyType, PermissionMoves DEF AllPassed
<1>2. req[w].kind = "status" /\ req[w].new = req[w].to
  BY <1>1 DEF Passed, Steps
<1>3. Respond(w) \/ Granted(req[w])
  <2>1. CASE StatusChangeAllowed(w)
    <3>1. Respond(w) \/ Allowed(req[w]) \/ NeedsRegdesk(req[w])
      BY <2>1 DEF StatusChangeAllowed
    <3>. QED
      BY <1>2, <3>1 DEF Allowed, NeedsRegdesk, Granted
  <2>2. CASE CheckRegdesk(w)
    BY <1>1, <1>2, <2>2 DEF CheckRegdesk, At, Passed
  <2>. QED
    BY <2>1, <2>2
<1>4. ASSUME NEW n, Granting(req[w], n), Granted(req[w]) PROVE Passed(n)
  <2>1. Granted(n)
    BY <1>4 DEF Granting, Granted
  <2>. QED
    BY <1>2, <1>4, <2>1 DEF Granting, Passed, Checked, Steps
<1>. QED
  BY <1>3, <1>4, PermissionMoves, ContinuePassed, RespondPassed

\* ... and StatusChangePossible sends it to approved first.
LEMMA StatusChangePossiblePassed ==
  ASSUME TypeOK, AllPassed, NEW w \in Workers, StatusChangePossible(w)
  PROVE  AllPassed'
<1>. DEFINE r == req[w]
            acc == account[r.att]
            s == [r EXCEPT !.seen = acc.paid, !.pc = "dues"]
<1>1. r \in Request /\ Passed(r) /\ r.pc = "check"
  BY BusyType DEF StatusChangePossible, At, AllPassed
<1>2. CASE ~Possible(r.old, r.new, acc)
  BY <1>2, RespondPassed DEF StatusChangePossible
<1>3. CASE Possible(r.old, r.new, acc)
  <2>1. Continue(w, s)
    BY <1>3 DEF StatusChangePossible
  <2>2. /\ s.pc = "dues" /\ s.kind = r.kind /\ s.new = r.new /\ s.to = r.to /\ s.old = r.old
        /\ s.by = r.by /\ s.att = r.att
    BY <1>1 DEF Request
  <2>3. /\ r.kind = "status" /\ r.new = r.to /\ Granted(r)
        /\ r.to \in {"partially paid", "paid", "checked in"} => r.old \notin NotApproved
    BY <1>1, <1>3 DEF Passed, Steps, Checked, Possible
  <2>. HIDE DEF s, r
  <2>4. Granted(s)
    BY <2>2, <2>3 DEF Granted
  <2>5. Passed(s)
    BY <2>2, <2>3, <2>4 DEF Passed, Checked, Steps
  <2>. QED
    BY <2>1, <2>5, ContinuePassed
<1>. QED
  BY <1>2, <1>3

LEMMA UpdateDuesPassed ==
  ASSUME TypeOK, AllPassed, NEW w \in Workers, UpdateDues(w)
  PROVE  AllPassed'
<1>. DEFINE r == req[w]
            acc == account[r.att]
            desired == DesiredDues(r.new, r.pkg)
            diff == [x \in VATs |-> desired[x] - acc.dues[x]]
            u == [r EXCEPT !.void = acc.positive, !.seen = acc.paid,
                           !.pool = acc.paid + acc.negative]
            v == [r EXCEPT !.diff = diff]
<1>1. r \in Request /\ Busy(w) /\ r.pc = "dues"
  BY BusyType DEF UpdateDues, At
<1>2. CASE r.new = "cancelled"
  <2>. DEFINE s == Voiding(u)
  <2>1. Continue(w, s)
    BY <1>2 DEF UpdateDues
  <2>2. /\ s.kind = r.kind /\ s.att = r.att /\ s.by = r.by
        /\ s.old = r.old /\ s.new = r.new /\ s.to = r.to /\ s.pc \in {"void", "record"}
    BY <1>1 DEF Voiding, Request
  <2>. HIDE DEF s
  <2>3. Passed(s)
    BY <1>1, <2>2, BookingPassed
  <2>. QED
    BY <2>1, <2>3, ContinuePassed
<1>3. CASE r.new # "cancelled"
  <2>. DEFINE s == Adjusting(v)
  <2>1. Continue(w, s)
    BY <1>3 DEF UpdateDues
  <2>2. /\ s.kind = r.kind /\ s.att = r.att /\ s.by = r.by
        /\ s.old = r.old /\ s.new = r.new /\ s.to = r.to
        /\ s.pc \in {"book", "balance", "record"} /\ (s.pc = "balance" => s.new \in ByBalance)
    <3>. HIDE DEF diff
    <3>. QED
      BY <1>1 DEF Adjusting, Request
  <2>. HIDE DEF s
  <2>3. Passed(s)
    BY <1>1, <2>2, BookingPassed
  <2>. QED
    BY <2>1, <2>3, ContinuePassed
<1>. QED
  BY <1>2, <1>3

LEMMA BookAdjustmentPassed ==
  ASSUME TypeOK, AllPassed, NEW w \in Workers, BookAdjustment(w)
  PROVE  AllPassed'
<1>. DEFINE r == req[w]
<1>1. r \in Request /\ Busy(w) /\ r.pc = "book"
  BY BusyType DEF BookAdjustment, At
<1>2. PICK v \in VATs : Continue(w, Adjusting([r EXCEPT !.diff[v] = 0]))
  BY DEF BookAdjustment
<1>. DEFINE s == Adjusting([r EXCEPT !.diff[v] = 0])
<1>3. /\ s.kind = r.kind /\ s.att = r.att /\ s.by = r.by
      /\ s.old = r.old /\ s.new = r.new /\ s.to = r.to
      /\ s.pc \in {"book", "balance", "record"} /\ (s.pc = "balance" => s.new \in ByBalance)
  BY <1>1 DEF Adjusting, Request
<1>4. Continue(w, s)
  BY <1>2
<1>. HIDE DEF s
<1>5. Passed(s)
  BY <1>1, <1>3, BookingPassed
<1>. QED
  BY <1>4, <1>5, ContinuePassed

LEMMA KeepCoveredDuePassed ==
  ASSUME TypeOK, AllPassed, NEW w \in Workers, KeepCoveredDue(w)
  PROVE  AllPassed'
<1>. DEFINE r == req[w]
            s == Voiding([r EXCEPT !.void = Tail(@), !.pool = @ - Head(r.void).cent])
<1>1. r \in Request /\ Busy(w) /\ r.pc = "void"
  BY BusyType DEF KeepCoveredDue, At
<1>2. Continue(w, s)
  BY DEF KeepCoveredDue
<1>3. /\ s.kind = r.kind /\ s.att = r.att /\ s.by = r.by
      /\ s.old = r.old /\ s.new = r.new /\ s.to = r.to /\ s.pc \in {"void", "record"}
  BY <1>1 DEF Voiding, Request
<1>. HIDE DEF s
<1>4. Passed(s)
  BY <1>1, <1>3, BookingPassed
<1>. QED
  BY <1>2, <1>4, ContinuePassed

LEMMA VoidUnpaidDuePassed ==
  ASSUME TypeOK, AllPassed, NEW w \in Workers, VoidUnpaidDue(w)
  PROVE  AllPassed'
<1>. DEFINE r == req[w]
            left == IF r.pool > 0 THEN r.pool ELSE 0
            s == Voiding([r EXCEPT !.void = Tail(@), !.pool = @ - left])
<1>1. r \in Request /\ Busy(w) /\ r.pc = "void"
  BY BusyType DEF VoidUnpaidDue, At
<1>2. Continue(w, s)
  BY DEF VoidUnpaidDue
<1>3. /\ s.kind = r.kind /\ s.att = r.att /\ s.by = r.by
      /\ s.old = r.old /\ s.new = r.new /\ s.to = r.to /\ s.pc \in {"void", "record"}
  BY <1>1 DEF Voiding, Request
<1>. HIDE DEF s
<1>4. Passed(s)
  BY <1>1, <1>3, BookingPassed
<1>. QED
  BY <1>2, <1>4, ContinuePassed

\* The balance replaces a status by balance by another.
LEMMA AdjustStatusToBalancePassed ==
  ASSUME TypeOK, AllPassed, NEW w \in Workers, AdjustStatusToBalance(w)
  PROVE  AllPassed'
<1>. DEFINE r == req[w]
            acc == account[r.att]
            new == StatusForBalance(acc.total, acc.paid)
            s == [r EXCEPT !.new = new, !.seen = acc.paid, !.pc = "record"]
<1>1. r \in Request /\ Passed(r) /\ r.pc = "balance"
  BY BusyType DEF AdjustStatusToBalance, At, AllPassed
<1>2. Continue(w, s) \/ Respond(w)
  BY DEF AdjustStatusToBalance
<1>3. new \in ByBalance
  BY DEF StatusForBalance, ByBalance
<1>. HIDE DEF new
<1>4. /\ s.pc = "record" /\ s.kind = r.kind /\ s.att = r.att /\ s.by = r.by
      /\ s.old = r.old /\ s.new = new /\ s.to = r.to
  BY <1>1 DEF Request
<1>5. /\ r.new \in ByBalance
      /\ r.kind = "status" => /\ r.new = r.to /\ Granted(r)
                              /\ r.to \in {"partially paid", "paid", "checked in"}
                                    => r.old \notin NotApproved
      /\ r.kind # "status" => r.old \in ByBalance
  BY <1>1 DEF Passed, Checked, Steps
<1>. HIDE DEF s, r
<1>6. r.kind = "status" => Granted(s)
  BY <1>4, <1>5 DEF Granted
<1>7. Passed(s)
  BY <1>3, <1>4, <1>5, <1>6 DEF Passed, Checked, Steps
<1>. QED
  BY <1>2, <1>7, ContinuePassed, RespondPassed

LEMMA AddStatusChangePassed ==
  ASSUME TypeOK, AllPassed, NEW w \in Workers, AddStatusChange(w)
  PROVE  AllPassed'
<1>. DEFINE s == [req[w] EXCEPT !.pc = "mail"]
<1>1. Continue(w, s)
  BY DEF AddStatusChange
<1>2. s.pc = "mail"
  BY BusyType DEF AddStatusChange, At, Request
<1>. HIDE DEF s
<1>3. Passed(s)
  BY <1>2 DEF Passed, Checked, Steps
<1>. QED
  BY <1>1, <1>3, ContinuePassed

LEMMA ProgressPassed ==
  ASSUME TypeOK, AllPassed, NEW w \in Workers, Progress(w)
  PROVE  AllPassed'
<1>1. CASE Fail(w) \/ SendEmail(w) \/ LeaveStatus(w)
  BY <1>1, RespondPassed DEF Fail, SendEmail, LeaveStatus
<1>. QED
  BY <1>1, UpdateAttendeePassed, WriteAdminInfoPassed, ObtainLatestStatusPassed,
     PermissionPassed, StatusChangePossiblePassed, UpdateDuesPassed,
     BookAdjustmentPassed, KeepCoveredDuePassed, VoidUnpaidDuePassed,
     AdjustStatusToBalancePassed, AddStatusChangePassed
     DEF Progress, Handle

LEMMA NextPassed == TypeOK /\ AllPassed /\ [Next]_vars => AllPassed'
<1>. SUFFICES ASSUME TypeOK, AllPassed, [Next]_vars PROVE AllPassed'
  OBVIOUS
<1>1. ASSUME NEW w \in Workers, NEW a \in Attendees, Arrive(w, a) PROVE AllPassed'
  BY <1>1, ArrivePassed
<1>2. ASSUME NEW w \in Workers, Progress(w) PROVE AllPassed'
  BY <1>2, ProgressPassed
<1>3. CASE UNCHANGED req
  BY <1>3 DEF AllPassed, Busy
<1>4. ASSUME NEW a \in Attendees, BookPayment(a) PROVE UNCHANGED req
  BY <1>4 DEF BookPayment
<1>5. CASE UNCHANGED vars
  BY <1>3, <1>5 DEF vars
<1>. QED
  BY <1>1, <1>2, <1>3, <1>4, <1>5 DEF Next

LEMMA InitPassed == Init => AllPassed
  BY DEF Init, AllPassed, Busy, Idle

-----------------------------------------------------------------------------
(***************************************************************************)
(* Which changes of status are recorded.                                   *)
(***************************************************************************)
\* A status changes only in AddStatusChange.
LEMMA WhoRecords ==
  ASSUME TypeOK, [Next]_vars, NEW a \in Attendees, status'[a] # status[a]
  PROVE  \E w \in Workers :
            /\ Busy(w) /\ AddStatusChange(w)
            /\ req[w] \in Request /\ req[w].att = a
            /\ req[w].pc = "record" /\ req'[w].pc = "mail"
            /\ status'[a] = req[w].new /\ req[w].new # req[w].old
<1>1. PICK w \in Workers : AddStatusChange(w)
  <2>1. ASSUME NEW w \in Workers, NEW b \in Attendees, Arrive(w, b) PROVE status' = status
    BY <2>1 DEF Arrive, ReceiveStatusChange, ReceiveUpdate, Receive
  <2>2. ASSUME NEW b \in Attendees, BookPayment(b) PROVE status' = status
    BY <2>2 DEF BookPayment
  <2>3. ASSUME NEW w \in Workers, Progress(w), ~AddStatusChange(w) PROVE status' = status
    BY <2>3 DEF Progress, Handle, UpdateAttendee, WriteAdminInfo, ObtainLatestStatus,
       StatusChangeAllowed, CheckRegdesk, StatusChangePossible, UpdateDues, BookAdjustment,
       KeepCoveredDue,
       VoidUnpaidDue, AdjustStatusToBalance, LeaveStatus, SendEmail, Fail
  <2>4. CASE UNCHANGED vars
    BY <2>4 DEF vars
  <2>. QED
    BY <2>1, <2>2, <2>3, <2>4 DEF Next
<1>2. Busy(w) /\ req[w] \in Request /\ req[w].pc = "record" /\ req[w].new # req[w].old
  BY <1>1, BusyType DEF AddStatusChange, At
<1>3. req'[w].pc = "mail"
  BY <1>1, <1>2 DEF AddStatusChange, Continue, TypeOK, Request
<1>4. req[w].att = a /\ status'[a] = req[w].new
  BY <1>1, <1>2 DEF AddStatusChange, TypeOK
<1>. QED
  BY <1>1, <1>2, <1>3, <1>4

\* In any interleaving of requests, payments and failures, an update records only a
\* status by balance in place of another it had found, and a request for a status only
\* that one, or one by balance in place of another.
THEOREM UpdatesMoveByBalance == Spec => UpdatesMoveByBalanceOnly
<1>1. ASSUME TypeOK, AllPassed, [Next]_vars, NEW a \in Attendees,
             Change(a, Statuses, Statuses)
      PROVE  RecordedBy(a, LAMBDA r :
                \/ r.kind # "status" /\ {r.old, status'[a]} \subseteq ByBalance
                \/ r.kind = "status" /\ r.to = status'[a]
                \/ r.kind = "status" /\ {r.to, status'[a]} \subseteq ByBalance)
  <2>1. status'[a] # status[a]
    BY <1>1 DEF Change
  <2>2. PICK w \in Workers :
            /\ Busy(w) /\ req[w].att = a /\ req[w].pc = "record" /\ req'[w].pc = "mail"
            /\ status'[a] = req[w].new /\ req[w].new # req[w].old
    BY <1>1, <2>1, WhoRecords
  <2>3. Passed(req[w])
    BY <1>1, <2>2 DEF AllPassed
  <2>4. \/ req[w].kind # "status" /\ {req[w].old, status'[a]} \subseteq ByBalance
        \/ req[w].kind = "status" /\ req[w].to = status'[a]
        \/ req[w].kind = "status" /\ {req[w].to, status'[a]} \subseteq ByBalance
    BY <2>2, <2>3 DEF Passed, Checked
  <2>. QED
    BY <2>2, <2>4 DEF RecordedBy
<1>2. TypeOK /\ AllPassed /\ [Next]_vars =>
        [\A a \in Attendees :
         Change(a, Statuses, Statuses) => RecordedBy(a, LAMBDA r :
             \/ r.kind # "status" /\ {r.old, status'[a]} \subseteq ByBalance
             \/ r.kind = "status" /\ r.to = status'[a]
             \/ r.kind = "status" /\ {r.to, status'[a]} \subseteq ByBalance)]_vars
  BY <1>1
<1>. QED
  BY <1>2, InitPassed, NextPassed, TypeCorrect, PTL DEF Spec, UpdatesMoveByBalanceOnly

LEMMA SerialNextIsNext == [SerialNext]_vars => [Next]_vars
  BY DEF SerialNext, Next

\* The status a request found is still the one in force when it records another.
LEMMA WhoRecordsSerial ==
  ASSUME SerialInv, AllPassed, [SerialNext]_vars, NEW a \in Attendees, status'[a] # status[a]
  PROVE  \E w \in Workers :
            /\ Busy(w) /\ req[w] \in Request /\ Passed(req[w]) /\ req[w].att = a
            /\ req[w].pc = "record" /\ req'[w].pc = "mail"
            /\ status[a] = req[w].old /\ status'[a] = req[w].new
            /\ req[w].new # req[w].old
<1>1. TypeOK /\ [Next]_vars
  BY SerialNextIsNext DEF SerialInv
<1>2. PICK w \in Workers :
            /\ Busy(w) /\ req[w] \in Request /\ req[w].att = a
            /\ req[w].pc = "record" /\ req'[w].pc = "mail"
            /\ status'[a] = req[w].new /\ req[w].new # req[w].old
  BY <1>1, WhoRecords
<1>3. Passed(req[w])
  BY <1>2 DEF AllPassed
<1>4. status[a] = req[w].old
  BY <1>2 DEF SerialInv, Fresh
<1>. QED
  BY <1>2, <1>3, <1>4

LEMMA SerialPassed == SerialSpec => [](SerialInv /\ AllPassed)
<1>1. SerialInv /\ AllPassed /\ [SerialNext]_vars => AllPassed'
  BY NextPassed, SerialNextIsNext DEF SerialInv
<1>. QED
  BY <1>1, InitPassed, SerialInvariant, PTL DEF SerialSpec

\* Who is new, cancelled or deleted is given a place only by an admin who asks for
\* "approved", whatever failed before and whoever asks for what.
THEOREM PlacesByApproval == SerialSpec => LeavesByApproval
<1>1. ASSUME SerialInv, AllPassed, [SerialNext]_vars, NEW a \in Attendees,
             Change(a, NotApproved, Statuses \ NotApproved)
      PROVE  /\ status'[a] # "checked in"
             /\ RecordedBy(a, LAMBDA r : r.by = Admin /\ r.to = "approved")
  <2>1. status[a] \in NotApproved /\ status'[a] \in Statuses \ NotApproved
        /\ status'[a] # status[a]
    BY <1>1 DEF Change
  <2>2. PICK w \in Workers :
            /\ req[w] \in Request /\ Passed(req[w]) /\ req[w].att = a
            /\ req[w].pc = "record" /\ req'[w].pc = "mail"
            /\ status[a] = req[w].old /\ status'[a] = req[w].new
            /\ req[w].new # req[w].old
    BY <1>1, <2>1, WhoRecordsSerial
  <2>. DEFINE r == req[w]
  <2>3. r.old \in NotApproved /\ r.new \in Statuses \ NotApproved /\ r.to \in Statuses
    BY <2>1, <2>2 DEF Request
  <2>. HIDE DEF r
  <2>4. r.kind = "status"
    BY <2>1, <2>2, <2>3 DEF Passed, Checked, ByBalance, NotApproved, r
  <2>5. Granted(r) /\ r.to \notin {"partially paid", "paid", "checked in"}
        /\ (r.new = r.to \/ {r.to, r.new} \subseteq ByBalance)
    BY <2>2, <2>3, <2>4 DEF Passed, Checked, r
  <2>6. r.to = "approved" /\ r.new # "checked in"
    BY <2>3, <2>5 DEF Statuses, NotApproved, ByBalance
  <2>7. r.by = Admin
    BY <2>3, <2>5, <2>6 DEF Granted, SelfAllowed, NotApproved
  <2>. QED
    BY <2>2, <2>6, <2>7 DEF RecordedBy, r
<1>2. SerialInv /\ AllPassed /\ [SerialNext]_vars =>
        [\A a \in Attendees :
         Change(a, NotApproved, Statuses \ NotApproved)
            => /\ status'[a] # "checked in"
               /\ RecordedBy(a, LAMBDA r : r.by = Admin /\ r.to = "approved")]_vars
  BY <1>1
<1>. QED
  BY <1>2, SerialPassed, PTL DEF SerialSpec, LeavesByApproval

\* Users who ask for a status get no more than StatusChangeAllowed grants them, in
\* terms of the status that is in force when theirs is recorded.
THEOREM UsersCancelOrCheckIn == SerialSpec => UsersOnlyCancelOrCheckIn
<1>1. ASSUME SerialInv, AllPassed, [SerialNext]_vars, NEW a \in Attendees,
             Change(a, Statuses, Statuses),
             RecordedBy(a, LAMBDA r : r.kind = "status" /\ r.by # Admin)
      PROVE  \/ /\ Change(a, {"new", "approved"}, {"cancelled"})
                /\ RecordedBy(a, LAMBDA r : r.by = Owner[a])
             \/ /\ Change(a, {"paid"}, {"checked in"})
                /\ RecordedBy(a, LAMBDA r : r.by # Owner[a])
  <2>1. status'[a] # status[a]
    BY <1>1 DEF Change
  <2>2. PICK w \in Workers :
            /\ Busy(w) /\ req[w] \in Request /\ Passed(req[w]) /\ req[w].att = a
            /\ req[w].pc = "record" /\ req'[w].pc = "mail"
            /\ status[a] = req[w].old /\ status'[a] = req[w].new
            /\ req[w].new # req[w].old
    BY <1>1, <2>1, WhoRecordsSerial
  <2>. DEFINE r == req[w]
  <2>3. r.kind = "status" /\ r.by # Admin
    <3>1. PICK v \in Workers :
             /\ req[v].pc = "record" /\ req'[v].pc = "mail" /\ req[v].att = a
             /\ req[v].kind = "status" /\ req[v].by # Admin
      BY <1>1 DEF RecordedBy
    <3>2. Busy(v) /\ v = w
      BY <1>1, <2>2, <3>1 DEF SerialInv, OneRequestEach, Busy
    <3>. QED
      BY <3>1, <3>2
  <2>. HIDE DEF r
  <2>4. Granted(r) /\ (r.new = r.to \/ {r.to, r.new} \subseteq ByBalance)
    BY <2>2, <2>3 DEF Passed, Checked, r
  <2>5. CASE r.by = Owner[r.att] /\ SelfAllowed(r.old, r.to)
    <3>1. r.old \in {"new", "approved"} /\ r.new = "cancelled"
      BY <2>4, <2>5 DEF SelfAllowed, ByBalance
    <3>2. Change(a, {"new", "approved"}, {"cancelled"})
      BY <2>1, <2>2, <3>1 DEF Change, r
    <3>. QED
      BY <2>2, <2>5, <3>2 DEF RecordedBy, r
  <2>6. CASE r.by # Owner[r.att] /\ r.old = "paid" /\ r.to = "checked in"
    <3>1. r.new = "checked in"
      BY <2>4, <2>6 DEF ByBalance
    <3>2. Change(a, {"paid"}, {"checked in"})
      BY <2>1, <2>2, <2>6, <3>1 DEF Change, r
    <3>. QED
      BY <2>2, <2>6, <3>2 DEF RecordedBy, r
  <2>. QED
    BY <2>3, <2>4, <2>5, <2>6 DEF Granted
<1>2. SerialInv /\ AllPassed /\ [SerialNext]_vars =>
        [\A a \in Attendees :
         /\ Change(a, Statuses, Statuses)
         /\ RecordedBy(a, LAMBDA r : r.kind = "status" /\ r.by # Admin)
         => \/ Change(a, {"new", "approved"}, {"cancelled"}) /\ RecordedBy(a, LAMBDA r : r.by = Owner[a])
            \/ Change(a, {"paid"}, {"checked in"}) /\ RecordedBy(a, LAMBDA r : r.by # Owner[a])]_vars
  BY <1>1
<1>. QED
  BY <1>2, SerialPassed, PTL DEF SerialSpec, UsersOnlyCancelOrCheckIn

-----------------------------------------------------------------------------
(***************************************************************************)
(* A check-in.  What was found paid in full stays so until the check-in is *)
(* recorded, unless the request itself books dues in between: then the     *)
(* attendee is not settled, and whoever is was left alone since the check. *)
(***************************************************************************)
Covered(r) ==
    /\ r.kind = "status" /\ r.new = "checked in" /\ r.pc \in {"dues", "book", "record"}
    /\ settled[r.att]
    => r.seen >= account[r.att].total

AllCovered == \A w \in Workers : Busy(w) => Covered(req[w])

\* A step of w keeps what the others know if it leaves their attendees alone, or
\* unsettled.
LEMMA ContinueCovered ==
  ASSUME TypeOK, AllCovered, NEW w \in Workers, NEW r, Continue(w, r),
         \A x \in Workers \ {w} : Busy(x) /\ settled'[req[x].att] =>
             settled[req[x].att] /\ account'[req[x].att].total = account[req[x].att].total,
         /\ r.kind = "status" /\ r.new = "checked in" /\ r.pc \in {"dues", "book", "record"}
         /\ settled'[r.att]
         => r.seen >= account'[r.att].total
  PROVE  AllCovered'
<1>1. \A x \in Workers : req'[x] = IF x = w THEN r ELSE req[x]
  BY DEF Continue, TypeOK
<1>2. ASSUME NEW x \in Workers, Busy(x)'
      PROVE  Covered(req[x])'
  <2>1. CASE x = w
    BY <1>1, <2>1 DEF Covered
  <2>2. CASE x # w
    <3>1. Busy(x) /\ req'[x] = req[x] /\ Covered(req[x])
      BY <1>1, <1>2, <2>2 DEF Busy, AllCovered
    <3>. QED
      BY <2>2, <3>1 DEF Covered
  <2>. QED
    BY <2>1, <2>2
<1>. QED
  BY <1>2 DEF AllCovered

\* In particular a step that neither books dues nor settles anything.
LEMMA MoveCovered ==
  ASSUME TypeOK, AllCovered, NEW w \in Workers, NEW r, Continue(w, r), Covered(r),
         UNCHANGED <<account, settled>>
  PROVE  AllCovered'
  BY ContinueCovered DEF Covered

LEMMA RespondCovered ==
  ASSUME TypeOK, AllCovered, NEW w \in Workers, Respond(w), UNCHANGED <<account, settled>>
  PROVE  AllCovered'
<1>1. Idle.pc = "idle"
  BY DEF Idle
<1>2. Covered(Idle)
  BY <1>1 DEF Covered
<1>3. Continue(w, Idle)
  BY DEF Respond, Continue
<1>. QED
  BY <1>2, <1>3, MoveCovered

LEMMA ArriveCovered ==
  ASSUME TypeOK, AllCovered, NEW w \in Workers, NEW a \in Attendees, Arrive(w, a)
  PROVE  AllCovered'
<1>1. PICK kind \in Kinds, by \in Callers, to \in Statuses : Receive(w, kind, a, by, to)
  BY RequestedAssumption DEF Arrive, ReceiveStatusChange, ReceiveUpdate, Kinds, Statuses
<1>. DEFINE r == [pc |-> IF kind = "status" THEN "latest" ELSE "write",
                  kind |-> kind, att |-> a, by |-> by, pkg |-> packages[a],
                  old |-> "new", new |-> to, to |-> to, desk |-> {},
                  diff |-> NoDues, void |-> << >>, pool |-> 0, seen |-> 0]
<1>2. Continue(w, r) /\ UNCHANGED <<account, settled>>
  BY <1>1 DEF Receive
<1>3. r.pc \in {"latest", "write"}
  OBVIOUS
<1>. HIDE DEF r
<1>4. Covered(r)
  BY <1>3 DEF Covered
<1>. QED
  BY <1>2, <1>4, MoveCovered

\* Before the check there is nothing to know.
LEMMA EarlyCovered ==
  ASSUME TypeOK, AllCovered, NEW w \in Workers,
         \/ WriteAdminInfo(w) \/ ObtainLatestStatus(w)
         \/ StatusChangeAllowed(w) \/ CheckRegdesk(w)
  PROVE  AllCovered'
<1>. DEFINE r == req[w]
<1>1. r \in Request
  BY BusyType DEF WriteAdminInfo, ObtainLatestStatus, StatusChangeAllowed, CheckRegdesk, At
<1>2. UNCHANGED <<account, settled>>
  BY DEF WriteAdminInfo, ObtainLatestStatus, StatusChangeAllowed, CheckRegdesk
<1>3. CASE WriteAdminInfo(w)
  <2>. DEFINE s == [r EXCEPT !.pc = "latest"]
  <2>1. Continue(w, s) /\ s.pc = "latest"
    BY <1>1, <1>3 DEF WriteAdminInfo, Request
  <2>. HIDE DEF s
  <2>. QED
    BY <1>2, <2>1, MoveCovered DEF Covered
<1>4. CASE ObtainLatestStatus(w)
  <2>. DEFINE current == status[r.att]
              asked == [r EXCEPT !.old = current, !.pc = "allow"]
              update == [r EXCEPT !.old = current, !.new = current, !.to = current,
                                  !.pc = "dues"]
  <2>1. \/ Continue(w, asked)
        \/ r.kind # "status" /\ Continue(w, update)
    <3>1. CASE r.kind = "status"
      BY <1>4, <3>1 DEF ObtainLatestStatus
    <3>2. CASE r.kind # "status"
      BY <1>4, <3>2 DEF ObtainLatestStatus
    <3>. QED
      BY <3>1, <3>2
  <2>2. asked.pc = "allow" /\ update.kind = r.kind
    BY <1>1 DEF Request
  <2>. HIDE DEF asked, update
  <2>. QED
    BY <1>2, <2>1, <2>2, MoveCovered DEF Covered
<1>5. CASE StatusChangeAllowed(w) \/ CheckRegdesk(w)
  <2>1. ASSUME NEW n, Granting(r, n) PROVE Covered(n)
    BY <2>1 DEF Granting, Covered
  <2>. QED
    BY <1>2, <1>5, <2>1, PermissionMoves, MoveCovered, RespondCovered
<1>. QED
  BY <1>3, <1>4, <1>5

\* The check itself, checkPaidInFull.
LEMMA StatusChangePossibleCovered ==
  ASSUME TypeOK, AllCovered, NEW w \in Workers, StatusChangePossible(w)
  PROVE  AllCovered'
<1>. DEFINE r == req[w]
            acc == account[r.att]
            s == [r EXCEPT !.seen = acc.paid, !.pc = "dues"]
<1>1. r \in Request /\ UNCHANGED <<account, settled>>
  BY BusyType DEF StatusChangePossible, At
<1>2. \/ Respond(w)
      \/ Continue(w, s) /\ Possible(r.old, r.new, acc)
  BY DEF StatusChangePossible
<1>3. s.new = r.new /\ s.att = r.att /\ s.seen = acc.paid
  BY <1>1 DEF Request
<1>4. Possible(r.old, r.new, acc) /\ r.new = "checked in" => acc.paid >= acc.total
  BY DEF Possible, checkPaidInFull
<1>. HIDE DEF s
<1>5. Possible(r.old, r.new, acc) => Covered(s)
  BY <1>3, <1>4 DEF Covered
<1>. QED
  BY <1>1, <1>2, <1>5, MoveCovered, RespondCovered

\* UpdateDues leaves what was seen, unless it is on a cancellation.
LEMMA UpdateDuesCovered ==
  ASSUME TypeOK, AllCovered, NEW w \in Workers, UpdateDues(w)
  PROVE  AllCovered'
<1>. DEFINE r == req[w]
            acc == account[r.att]
            desired == DesiredDues(r.new, r.pkg)
            diff == [x \in VATs |-> desired[x] - acc.dues[x]]
            u == Voiding([r EXCEPT !.void = acc.positive, !.seen = acc.paid,
                                   !.pool = acc.paid + acc.negative])
            v == Adjusting([r EXCEPT !.diff = diff])
<1>1. r \in Request /\ Busy(w) /\ r.pc = "dues" /\ UNCHANGED <<account, settled>>
  BY BusyType DEF UpdateDues, At
<1>2. Covered(r)
  BY <1>1 DEF AllCovered
<1>3. CASE r.new = "cancelled"
  <2>1. Continue(w, u)
    BY <1>3 DEF UpdateDues
  <2>2. u.new = "cancelled"
    BY <1>1, <1>3 DEF Voiding, Request
  <2>. HIDE DEF u
  <2>. QED
    BY <1>1, <2>1, <2>2, MoveCovered DEF Covered
<1>4. CASE r.new # "cancelled"
  <2>1. Continue(w, v)
    BY <1>4 DEF UpdateDues
  <2>2. v.kind = r.kind /\ v.new = r.new /\ v.att = r.att /\ v.seen = r.seen
    <3>. HIDE DEF diff
    <3>. QED
      BY <1>1 DEF Adjusting, Request
  <2>. HIDE DEF v
  <2>3. Covered(v)
    BY <1>1, <1>2, <2>2 DEF Covered
  <2>. QED
    BY <1>1, <2>1, <2>3, MoveCovered
<1>. QED
  BY <1>3, <1>4

\* Where something is booked or written, the attendee is not settled any more.
LEMMA UnsettleCovered ==
  ASSUME TypeOK, AllCovered, NEW w \in Workers, NEW r, Continue(w, r),
         NEW a \in Attendees, r.att = a, settled' = [settled EXCEPT ![a] = FALSE],
         \A b \in Attendees \ {a} : account'[b] = account[b]
  PROVE  AllCovered'
<1>1. ~settled'[a] /\ \A b \in Attendees \ {a} : settled'[b] = settled[b]
  BY DEF TypeOK
<1>2. \A x \in Workers : Busy(x) => req[x].att \in Attendees
  BY BusyType DEF Request
<1>. QED
  BY <1>1, <1>2, ContinueCovered

LEMMA BookingCovered ==
  ASSUME TypeOK, AllCovered, NEW w \in Workers,
         UpdateAttendee(w) \/ BookAdjustment(w) \/ VoidUnpaidDue(w)
  PROVE  AllCovered'
<1>. DEFINE r == req[w]
            a == r.att
            left == IF r.pool > 0 THEN r.pool ELSE 0
<1>1. r \in Request /\ a \in Attendees
  BY BusyType DEF UpdateAttendee, BookAdjustment, VoidUnpaidDue, At, Request
<1>2. settled' = [settled EXCEPT ![a] = FALSE]
  BY DEF UpdateAttendee, BookAdjustment, VoidUnpaidDue
<1>3. \A b \in Attendees \ {a} : account'[b] = account[b]
  BY <1>1 DEF UpdateAttendee, BookAdjustment, VoidUnpaidDue, TypeOK
<1>4. CASE UpdateAttendee(w)
  <2>1. PICK p \in Selections : Continue(w, [r EXCEPT !.pkg = p, !.pc = "latest"])
    BY <1>4 DEF UpdateAttendee
  <2>2. [r EXCEPT !.pkg = p, !.pc = "latest"].att = a
    BY <1>1 DEF Request
  <2>. QED
    BY <1>1, <1>2, <1>3, <2>1, <2>2, UnsettleCovered
<1>5. CASE BookAdjustment(w)
  <2>1. PICK v \in VATs : Continue(w, Adjusting([r EXCEPT !.diff[v] = 0]))
    BY <1>5 DEF BookAdjustment
  <2>2. Adjusting([r EXCEPT !.diff[v] = 0]).att = a
    BY <1>1 DEF Adjusting, Request
  <2>. QED
    BY <1>1, <1>2, <1>3, <2>1, <2>2, UnsettleCovered
<1>6. CASE VoidUnpaidDue(w)
  <2>1. Continue(w, Voiding([r EXCEPT !.void = Tail(@), !.pool = @ - left]))
    BY <1>6 DEF VoidUnpaidDue
  <2>2. Voiding([r EXCEPT !.void = Tail(@), !.pool = @ - left]).att = a
    BY <1>1 DEF Voiding, Request
  <2>. QED
    BY <1>1, <1>2, <1>3, <2>1, <2>2, UnsettleCovered
<1>. QED
  BY <1>4, <1>5, <1>6

\* Walking the dues on cancellation is no check-in, nor is a status by balance.
LEMMA OtherwiseCovered ==
  ASSUME SerialInv, AllCovered, NEW w \in Workers, KeepCoveredDue(w) \/ AdjustStatusToBalance(w)
  PROVE  AllCovered'
<1>. DEFINE r == req[w]
            acc == account[r.att]
            new == StatusForBalance(acc.total, acc.paid)
            u == Voiding([r EXCEPT !.void = Tail(@), !.pool = @ - Head(r.void).cent])
            v == [r EXCEPT !.new = new, !.seen = acc.paid, !.pc = "record"]
<1>1. r \in Request /\ Booked(r) /\ UNCHANGED <<account, settled>> /\ TypeOK
  BY Alone DEF KeepCoveredDue, AdjustStatusToBalance, At, SerialInv
<1>2. CASE KeepCoveredDue(w)
  <2>1. Continue(w, u) /\ r.new = "cancelled"
    BY <1>1, <1>2 DEF KeepCoveredDue, At, Booked
  <2>2. u.new = "cancelled"
    BY <1>1, <2>1 DEF Voiding, Request
  <2>. HIDE DEF u
  <2>. QED
    BY <1>1, <2>1, <2>2, MoveCovered DEF Covered
<1>3. CASE AdjustStatusToBalance(w)
  <2>1. Continue(w, v) \/ Respond(w)
    BY <1>3 DEF AdjustStatusToBalance
  <2>2. v.new = new /\ new # "checked in"
    BY <1>1 DEF StatusForBalance, Request
  <2>. HIDE DEF v, new
  <2>. QED
    BY <1>1, <2>1, <2>2, MoveCovered, RespondCovered DEF Covered
<1>. QED
  BY <1>2, <1>3

\* Nobody else is on the attendee a request concludes with.
LEMMA ConcludeCovered ==
  ASSUME SerialInv, AllCovered, NEW w \in Workers, AddStatusChange(w) \/ LeaveStatus(w)
  PROVE  AllCovered'
<1>. DEFINE r == req[w]
            a == r.att
            s == IF AddStatusChange(w) THEN [r EXCEPT !.pc = "mail"] ELSE Idle
<1>1. Busy(w) /\ r \in Request /\ \A x \in Workers \ {w} : Busy(x) => req[x].att # a
  BY Alone DEF AddStatusChange, LeaveStatus, At
<1>2. account' = account /\ settled' = [settled EXCEPT ![a] = TRUE]
  BY DEF AddStatusChange, LeaveStatus, Settle
<1>3. Continue(w, s) /\ s.pc \notin {"dues", "book", "record"}
  BY <1>1 DEF AddStatusChange, LeaveStatus, Respond, Continue, Idle, Request
<1>. HIDE DEF s
<1>4. \A x \in Workers \ {w} : Busy(x) /\ settled'[req[x].att] =>
             settled[req[x].att] /\ account'[req[x].att].total = account[req[x].att].total
  BY <1>1, <1>2 DEF SerialInv, TypeOK
<1>. QED
  BY <1>3, <1>4, ContinueCovered DEF SerialInv

LEMMA BookPaymentCovered ==
  ASSUME TypeOK, AllCovered, NEW a \in Attendees, BookPayment(a)
  PROVE  AllCovered'
<1>1. PICK c \in PaymentAmounts : account' = [account EXCEPT ![a] = WithPayment(@, c)]
  BY DEF BookPayment
<1>2. WithPayment(account[a], c).total = account[a].total
  BY DEF WithPayment, TypeOK, AccountType
<1>3. \A b \in Attendees : account'[b].total = account[b].total
  BY <1>1, <1>2 DEF TypeOK
<1>4. \A x \in Workers : Busy(x) => req[x].att \in Attendees
  BY BusyType DEF Request
<1>5. req' = req /\ settled' = settled
  BY DEF BookPayment
<1>6. ASSUME NEW x \in Workers, Busy(x)'
      PROVE  Covered(req[x])'
  BY <1>3, <1>4, <1>5, <1>6 DEF Busy, AllCovered, Covered
<1>. QED
  BY <1>6 DEF AllCovered

LEMMA NextCovered == SerialInv /\ AllCovered /\ [SerialNext]_vars => AllCovered'
<1>. SUFFICES ASSUME SerialInv, AllCovered, [SerialNext]_vars PROVE AllCovered'
  OBVIOUS
<1>0. TypeOK
  BY DEF SerialInv
<1>1. ASSUME NEW w \in Workers, NEW a \in Attendees, Arrive(w, a) PROVE AllCovered'
  BY <1>0, <1>1, ArriveCovered
<1>2. ASSUME NEW w \in Workers, Fail(w) \/ SendEmail(w) PROVE AllCovered'
  BY <1>0, <1>2, RespondCovered DEF Fail, SendEmail
<1>3. ASSUME NEW w \in Workers, Progress(w) PROVE AllCovered'
  BY <1>0, <1>2, <1>3, EarlyCovered, StatusChangePossibleCovered, UpdateDuesCovered,
     BookingCovered, OtherwiseCovered, ConcludeCovered DEF Progress, Handle
<1>4. ASSUME NEW a \in Attendees, BookPayment(a) PROVE AllCovered'
  BY <1>0, <1>4, BookPaymentCovered
<1>5. CASE UNCHANGED vars
  BY <1>5 DEF vars, AllCovered, Busy, Covered
<1>. QED
  BY <1>1, <1>3, <1>4, <1>5 DEF SerialNext

LEMMA InitCovered == Init => AllCovered
  BY DEF Init, AllCovered, Busy, Idle

\* Whose dues are settled when a check-in is recorded has paid them in full by the
\* payments the check read, whatever was booked or paid in the meantime.
THEOREM CheckedInPaidInFull == SerialSpec => CheckInPaidInFull
<1>1. ASSUME SerialInv, AllPassed, AllCovered, [SerialNext]_vars, NEW a \in Attendees,
             Change(a, Statuses, {"checked in"}), settled[a]
      PROVE  RecordedBy(a, LAMBDA r : r.seen >= account[a].total)
  <2>1. status'[a] = "checked in" /\ status'[a] # status[a]
    BY <1>1 DEF Change
  <2>2. PICK w \in Workers :
            /\ Busy(w) /\ req[w] \in Request /\ Passed(req[w]) /\ req[w].att = a
            /\ req[w].pc = "record" /\ req'[w].pc = "mail"
            /\ status[a] = req[w].old /\ status'[a] = req[w].new
            /\ req[w].new # req[w].old
    BY <1>1, <2>1, WhoRecordsSerial
  <2>3. req[w].kind = "status"
    BY <2>1, <2>2 DEF Passed, Checked, ByBalance
  <2>4. req[w].seen >= account[a].total
    BY <1>1, <2>1, <2>2, <2>3 DEF AllCovered, Covered
  <2>. QED
    BY <2>2, <2>4 DEF RecordedBy
<1>2. SerialInv /\ AllPassed /\ AllCovered /\ [SerialNext]_vars =>
        [\A a \in Attendees :
         Change(a, Statuses, {"checked in"}) /\ settled[a]
            => RecordedBy(a, LAMBDA r : r.seen >= account[a].total)]_vars
  BY <1>1
<1>. QED
  BY <1>2, InitCovered, NextCovered, SerialPassed, PTL DEF SerialSpec, CheckInPaidInFull

-----------------------------------------------------------------------------
(***************************************************************************)
(* The regdesk.  Of a check-in that has passed StatusChangeAllowed it is   *)
(* remembered who held the permission, and that only grows; before, only   *)
(* registrations of the user are looked at.                                *)
(***************************************************************************)
Entitled(by, h) == by = Admin \/ \E oa \in h : Owner[oa] = by

AtDesk(r, h) ==
    /\ r.pc = "desk" => \A oa \in r.desk : Owner[oa] = r.by
    /\ r.kind = "status" /\ r.to = "checked in" /\ r.pc \in Checked \cup {"check"}
          => Entitled(r.by, h)

AllAtDesk == \A w \in Workers : Busy(w) => AtDesk(req[w], held[w])

\* From the check on, a request is the same one until its status is recorded.
SameRequest(r, n) ==
    /\ r.pc \in Checked \cup {"check"} /\ n.pc \in Checked \cup {"mail"}
    /\ n.kind = r.kind /\ n.by = r.by /\ n.to = r.to

\* How a request goes on after the check.
LEMMA LateMoves ==
  ASSUME TypeOK, NEW w \in Workers,
         \/ StatusChangePossible(w) \/ UpdateDues(w) \/ BookAdjustment(w)
         \/ KeepCoveredDue(w) \/ VoidUnpaidDue(w) \/ AdjustStatusToBalance(w)
         \/ AddStatusChange(w) \/ LeaveStatus(w) \/ SendEmail(w) \/ Fail(w)
  PROVE  Respond(w) \/ \E n : SameRequest(req[w], n) /\ Continue(w, n)
<1>. DEFINE r == req[w]
            acc == account[r.att]
<1>1. r \in Request
  BY BusyType DEF StatusChangePossible, UpdateDues, BookAdjustment, KeepCoveredDue,
     VoidUnpaidDue, AdjustStatusToBalance, AddStatusChange, LeaveStatus, SendEmail, Fail, At
<1>2. CASE StatusChangePossible(w)
  <2>. DEFINE n == [r EXCEPT !.seen = acc.paid, !.pc = "dues"]
  <2>1. SameRequest(r, n)
    BY <1>1, <1>2 DEF StatusChangePossible, At, SameRequest, Request, Checked
  <2>2. Respond(w) \/ Continue(w, n)
    BY <1>2 DEF StatusChangePossible
  <2>. HIDE DEF n
  <2>. QED
    BY <2>1, <2>2
<1>3. CASE UpdateDues(w)
  <2>. DEFINE desired == DesiredDues(r.new, r.pkg)
              diff == [v \in VATs |-> desired[v] - acc.dues[v]]
              u == Voiding([r EXCEPT !.void = acc.positive, !.seen = acc.paid,
                                     !.pool = acc.paid + acc.negative])
              v == Adjusting([r EXCEPT !.diff = diff])
  <2>1. SameRequest(r, u) /\ SameRequest(r, v)
    BY <1>1, <1>3 DEF UpdateDues, At, SameRequest, Voiding, Adjusting, Request, Checked
  <2>2. Continue(w, u) \/ Continue(w, v)
    BY <1>3 DEF UpdateDues
  <2>. HIDE DEF u, v
  <2>. QED
    BY <2>1, <2>2
<1>4. CASE BookAdjustment(w)
  <2>1. PICK x \in VATs : Continue(w, Adjusting([r EXCEPT !.diff[x] = 0]))
    BY <1>4 DEF BookAdjustment
  <2>2. SameRequest(r, Adjusting([r EXCEPT !.diff[x] = 0]))
    BY <1>1, <1>4 DEF BookAdjustment, At, SameRequest, Adjusting, Request, Checked
  <2>. QED
    BY <2>1, <2>2
<1>5. CASE KeepCoveredDue(w)
  <2>. DEFINE n == Voiding([r EXCEPT !.void = Tail(r.void), !.pool = r.pool - Head(r.void).cent])
  <2>1. SameRequest(r, n)
    BY <1>1, <1>5 DEF KeepCoveredDue, At, SameRequest, Voiding, Request, Checked
  <2>2. Continue(w, n)
    BY <1>5 DEF KeepCoveredDue
  <2>. HIDE DEF n
  <2>. QED
    BY <2>1, <2>2
<1>6. CASE VoidUnpaidDue(w)
  <2>. DEFINE left == IF r.pool > 0 THEN r.pool ELSE 0
              n == Voiding([r EXCEPT !.void = Tail(r.void), !.pool = r.pool - left])
  <2>1. SameRequest(r, n)
    BY <1>1, <1>6 DEF VoidUnpaidDue, At, SameRequest, Voiding, Request, Checked
  <2>2. Continue(w, n)
    BY <1>6 DEF VoidUnpaidDue
  <2>. HIDE DEF n
  <2>. QED
    BY <2>1, <2>2
<1>7. CASE AdjustStatusToBalance(w)
  <2>. DEFINE n == [r EXCEPT !.new = StatusForBalance(acc.total, acc.paid),
                             !.seen = acc.paid, !.pc = "record"]
  <2>1. SameRequest(r, n)
    BY <1>1, <1>7 DEF AdjustStatusToBalance, At, SameRequest, Request, Checked
  <2>2. Respond(w) \/ Continue(w, n)
    BY <1>7 DEF AdjustStatusToBalance
  <2>. HIDE DEF n
  <2>. QED
    BY <2>1, <2>2
<1>8. CASE AddStatusChange(w)
  <2>. DEFINE n == [r EXCEPT !.pc = "mail"]
  <2>1. SameRequest(r, n)
    BY <1>1, <1>8 DEF AddStatusChange, At, SameRequest, Request, Checked
  <2>2. Continue(w, n)
    BY <1>8 DEF AddStatusChange
  <2>. HIDE DEF n
  <2>. QED
    BY <2>1, <2>2
<1>9. CASE LeaveStatus(w) \/ SendEmail(w) \/ Fail(w)
  BY <1>9 DEF LeaveStatus, SendEmail, Fail
<1>. QED
  BY <1>2, <1>3, <1>4, <1>5, <1>6, <1>7, <1>8, <1>9

\* Who holds the permission now has held it since the request arrived.
Remembered == \A w \in Workers :
    held'[w] = IF req'[w].pc = "idle" THEN {} ELSE held[w] \cup regdesk'

LEMMA AtDeskGrows ==
  ASSUME NEW r, NEW h, NEW k, h \subseteq k, AtDesk(r, h)
  PROVE  AtDesk(r, k)
BY DEF AtDesk, Entitled

LEMMA ContinueAtDesk ==
  ASSUME TypeOK, AllAtDesk, Remembered, NEW w \in Workers, NEW r, Continue(w, r),
         AtDesk(r, held[w] \cup regdesk')
  PROVE  AllAtDesk'
<1>1. \A x \in Workers : req'[x] = IF x = w THEN r ELSE req[x]
  BY DEF Continue, TypeOK
<1>2. ASSUME NEW x \in Workers, Busy(x)'
      PROVE  AtDesk(req'[x], held'[x])
  <2>1. held'[x] = held[x] \cup regdesk'
    BY <1>2 DEF Remembered, Busy
  <2>2. CASE x = w
    BY <1>1, <2>1, <2>2
  <2>3. CASE x # w
    BY <1>1, <1>2, <2>1, <2>3, AtDeskGrows DEF AllAtDesk, Busy
  <2>. QED
    BY <2>2, <2>3
<1>. QED
  BY <1>2 DEF AllAtDesk, AtDesk, Entitled

LEMMA RespondAtDesk ==
  ASSUME TypeOK, AllAtDesk, Remembered, NEW w \in Workers, Respond(w)
  PROVE  AllAtDesk'
<1>1. Idle.pc = "idle"
  BY DEF Idle
<1>2. AtDesk(Idle, held[w] \cup regdesk')
  BY <1>1 DEF AtDesk, Checked
<1>3. Continue(w, Idle)
  BY DEF Respond, Continue
<1>. QED
  BY <1>2, <1>3, ContinueAtDesk

\* Requests that have not come to the permissions need none.
LEMMA EarlyAtDesk ==
  ASSUME TypeOK, AllAtDesk, Remembered, NEW w \in Workers,
         \/ \E a \in Attendees : Arrive(w, a)
         \/ UpdateAttendee(w) \/ WriteAdminInfo(w) \/ ObtainLatestStatus(w)
  PROVE  AllAtDesk'
<1>1. ASSUME NEW r, r.pc \in {"write", "latest", "allow"} \/ (r.kind # "status" /\ r.pc = "dues")
      PROVE  AtDesk(r, held[w] \cup regdesk')
  BY <1>1 DEF AtDesk, Checked
<1>2. ASSUME NEW a \in Attendees, Arrive(w, a) PROVE AllAtDesk'
  <2>1. PICK kind \in Kinds, by \in Callers, to \in Statuses : Receive(w, kind, a, by, to)
    BY <1>2, RequestedAssumption
       DEF Arrive, ReceiveStatusChange, ReceiveUpdate, Kinds, Statuses
  <2>. DEFINE r == [pc |-> IF kind = "status" THEN "latest" ELSE "write",
                    kind |-> kind, att |-> a, by |-> by, pkg |-> packages[a],
                    old |-> "new", new |-> to, to |-> to, desk |-> {},
                    diff |-> NoDues, void |-> << >>, pool |-> 0, seen |-> 0]
  <2>2. Continue(w, r) /\ r.pc \in {"write", "latest"}
    BY <2>1 DEF Receive
  <2>. HIDE DEF r
  <2>. QED
    BY <1>1, <2>2, ContinueAtDesk
<1>3. CASE UpdateAttendee(w)
  <2>1. PICK p \in Selections : Continue(w, [req[w] EXCEPT !.pkg = p, !.pc = "latest"])
    BY <1>3 DEF UpdateAttendee
  <2>. DEFINE s == [req[w] EXCEPT !.pkg = p, !.pc = "latest"]
  <2>2. Continue(w, s) /\ s.pc = "latest"
    BY <1>3, <2>1, BusyType DEF UpdateAttendee, At, Request
  <2>. HIDE DEF s
  <2>. QED
    BY <1>1, <2>2, ContinueAtDesk
<1>4. CASE WriteAdminInfo(w)
  <2>. DEFINE s == [req[w] EXCEPT !.pc = "latest"]
  <2>1. Continue(w, s) /\ s.pc = "latest"
    BY <1>4, BusyType DEF WriteAdminInfo, At, Request
  <2>. HIDE DEF s
  <2>. QED
    BY <1>1, <2>1, ContinueAtDesk
<1>5. CASE ObtainLatestStatus(w)
  <2>. DEFINE current == status[req[w].att]
              asked == [req[w] EXCEPT !.old = current, !.pc = "allow"]
              update == [req[w] EXCEPT !.old = current, !.new = current, !.to = current,
                                       !.pc = "dues"]
  <2>1. asked.pc = "allow" /\ update.kind = req[w].kind /\ update.pc = "dues"
    BY <1>5, BusyType DEF ObtainLatestStatus, At, Request
  <2>2. Continue(w, asked) \/ (req[w].kind # "status" /\ Continue(w, update))
    <3>1. CASE req[w].kind = "status"
      BY <1>5, <3>1 DEF ObtainLatestStatus
    <3>2. CASE req[w].kind # "status"
      BY <1>5, <3>2 DEF ObtainLatestStatus
    <3>. QED
      BY <3>1, <3>2
  <2>. HIDE DEF asked, update
  <2>. QED
    BY <1>1, <2>1, <2>2, ContinueAtDesk
<1>. QED
  BY <1>2, <1>3, <1>4, <1>5

\* StatusChangeAllowed: admins need no permission, and nobody checks in himself.
LEMMA AllowedAtDesk ==
  ASSUME TypeOK, AllPassed, AllAtDesk, Remembered, NEW w \in Workers, StatusChangeAllowed(w)
  PROVE  AllAtDesk'
<1>. DEFINE r == req[w]
            c == [r EXCEPT !.pc = "check"]
            d == [r EXCEPT !.pc = "desk", !.desk = FindByIdentity(r)]
<1>1. r \in Request /\ Passed(r) /\ r.pc = "allow"
  BY BusyType DEF StatusChangeAllowed, At, AllPassed
<1>2. r.kind = "status" /\ r.new = r.to
  BY <1>1 DEF Passed, Steps
<1>3. Respond(w) \/ (Continue(w, c) /\ Allowed(r)) \/ Continue(w, d)
  BY DEF StatusChangeAllowed
<1>4. c.pc = "check" /\ c.to = r.to /\ c.by = r.by
  BY <1>1 DEF Request
<1>5. d.pc = "desk" /\ d.desk = FindByIdentity(r) /\ d.by = r.by
  BY <1>1 DEF Request
<1>6. ASSUME Allowed(r) PROVE AtDesk(c, held[w] \cup regdesk')
  <2>1. r.to = "checked in" => r.by = Admin
    BY <1>2, <1>6 DEF Allowed, SelfAllowed
  <2>. HIDE DEF c
  <2>. QED
    BY <1>4, <2>1 DEF AtDesk, Entitled
<1>7. AtDesk(d, held[w] \cup regdesk')
  <2>1. \A oa \in FindByIdentity(r) : Owner[oa] = r.by
    BY DEF FindByIdentity
  <2>. HIDE DEF d
  <2>. QED
    BY <1>5, <2>1 DEF AtDesk, Checked
<1>. HIDE DEF c, d
<1>. QED
  BY <1>3, <1>6, <1>7, ContinueAtDesk, RespondAtDesk

\* The permission is read from a registration of the user.
LEMMA CheckRegdeskAtDesk ==
  ASSUME TypeOK, AllAtDesk, Remembered, NEW w \in Workers, CheckRegdesk(w)
  PROVE  AllAtDesk'
<1>. DEFINE r == req[w]
            c == [r EXCEPT !.pc = "check"]
<1>1. r \in Request /\ r.pc = "desk" /\ AtDesk(r, held[w]) /\ regdesk' = regdesk
  BY BusyType DEF CheckRegdesk, At, AllAtDesk
<1>2. PICK oa \in r.desk :
         \/ Respond(w)
         \/ Continue(w, c) /\ oa \in regdesk
         \/ Continue(w, [r EXCEPT !.desk = r.desk \ {oa}])
  BY DEF CheckRegdesk
<1>. DEFINE d == [r EXCEPT !.desk = r.desk \ {oa}]
<1>3. c.pc = "check" /\ c.by = r.by
  BY <1>1 DEF Request
<1>4. d.pc = "desk" /\ d.desk = r.desk \ {oa} /\ d.by = r.by
  BY <1>1 DEF Request
<1>5. Owner[oa] = r.by /\ \A o \in r.desk : Owner[o] = r.by
  BY <1>1 DEF AtDesk
<1>6. Respond(w) \/ (Continue(w, c) /\ oa \in regdesk) \/ Continue(w, d)
  BY <1>2
<1>. HIDE DEF c, d
<1>7. oa \in regdesk => AtDesk(c, held[w] \cup regdesk')
  BY <1>1, <1>3, <1>5 DEF AtDesk, Entitled
<1>8. AtDesk(d, held[w] \cup regdesk')
  BY <1>4, <1>5 DEF AtDesk, Checked
<1>. QED
  BY <1>6, <1>7, <1>8, ContinueAtDesk, RespondAtDesk

LEMMA ProgressAtDesk ==
  ASSUME TypeOK, AllPassed, AllAtDesk, Remembered, NEW w \in Workers, Progress(w)
  PROVE  AllAtDesk'
<1>1. ASSUME NEW n, SameRequest(req[w], n) PROVE AtDesk(n, held[w] \cup regdesk')
  <2>1. AtDesk(req[w], held[w])
    BY <1>1 DEF AllAtDesk, SameRequest, Checked, Busy
  <2>. QED
    BY <1>1, <2>1 DEF SameRequest, AtDesk, Entitled, Checked
<1>2. ASSUME Respond(w) \/ \E n : SameRequest(req[w], n) /\ Continue(w, n)
      PROVE  AllAtDesk'
  BY <1>1, <1>2, ContinueAtDesk, RespondAtDesk
<1>3. CASE UpdateAttendee(w) \/ WriteAdminInfo(w) \/ ObtainLatestStatus(w)
  BY <1>3, EarlyAtDesk
<1>4. CASE StatusChangeAllowed(w) \/ CheckRegdesk(w)
  BY <1>4, AllowedAtDesk, CheckRegdeskAtDesk
<1>. QED
  BY <1>2, <1>3, <1>4, LateMoves DEF Progress, Handle

LEMMA NextAtDesk == TypeOK /\ AllPassed /\ AllAtDesk /\ [HeldNext]_heldVars => AllAtDesk'
<1>. SUFFICES ASSUME TypeOK, AllPassed, AllAtDesk, [HeldNext]_heldVars PROVE AllAtDesk'
  OBVIOUS
<1>1. CASE UNCHANGED heldVars
  BY <1>1 DEF heldVars, vars, AllAtDesk, AtDesk, Entitled, Busy
<1>2. CASE HeldNext
  <2>1. Remembered
    BY <1>2 DEF HeldNext, Remembered
  <2>2. ASSUME NEW w \in Workers, NEW a \in Attendees, Arrive(w, a) PROVE AllAtDesk'
    BY <2>1, <2>2, EarlyAtDesk
  <2>3. ASSUME NEW w \in Workers, Progress(w) PROVE AllAtDesk'
    BY <2>1, <2>3, ProgressAtDesk
  <2>4. ASSUME NEW a \in Attendees, BookPayment(a) PROVE AllAtDesk'
    <3>1. req' = req
      BY <2>4 DEF BookPayment
    <3>2. ASSUME NEW w \in Workers, Busy(w)'
          PROVE  AtDesk(req'[w], held'[w])
      <4>1. held'[w] = held[w] \cup regdesk' /\ AtDesk(req[w], held[w])
        BY <2>1, <3>1, <3>2 DEF Remembered, AllAtDesk, Busy
      <4>. QED
        BY <3>1, <4>1, AtDeskGrows
    <3>. QED
      BY <3>2 DEF AllAtDesk, AtDesk, Entitled
  <2>. QED
    BY <1>2, <2>2, <2>3, <2>4 DEF HeldNext, SerialNext
<1>. QED
  BY <1>1, <1>2

LEMMA HeldStepIsNext == [HeldNext]_heldVars => [Next]_vars
  BY DEF HeldNext, SerialNext, Next, heldVars

\* With requests on one attendee in sequence, and any number of registrations and
\* permissions granted and withdrawn: a check-in is an admin's, or that of a user one
\* of whose registrations held the permission since the request arrived.
THEOREM RegdeskChecksIn == HeldSpec => CheckedInAtRegdesk
<1>1. HeldInit => TypeOK /\ AllPassed /\ AllAtDesk
  <2>1. Init => AllAtDesk
    BY DEF Init, AllAtDesk, Busy, Idle
  <2>. QED
    BY <2>1, InitType, InitPassed DEF HeldInit
<1>2. TypeOK /\ AllPassed /\ AllAtDesk /\ [HeldNext]_heldVars
        => TypeOK' /\ AllPassed' /\ AllAtDesk'
  BY HeldStepIsNext, NextType, NextPassed, NextAtDesk
<1>3. ASSUME TypeOK, AllPassed, AllAtDesk, [HeldNext]_heldVars, NEW a \in Attendees,
             Change(a, Statuses, {"checked in"})
      PROVE  \E w \in Workers :
                 /\ req[w].pc = "record" /\ req'[w].pc = "mail" /\ req[w].att = a
                 /\ \/ req[w].by = Admin
                    \/ \E oa \in held[w] : Owner[oa] = req[w].by
  <2>1. status'[a] = "checked in" /\ status'[a] # status[a]
    BY <1>3 DEF Change
  <2>2. PICK w \in Workers :
            /\ Busy(w) /\ req[w].att = a /\ req[w].pc = "record" /\ req'[w].pc = "mail"
            /\ status'[a] = req[w].new /\ req[w].new # req[w].old
    BY <1>3, <2>1, HeldStepIsNext, WhoRecords
  <2>3. Passed(req[w]) /\ AtDesk(req[w], held[w])
    BY <1>3, <2>2 DEF AllPassed, AllAtDesk
  <2>4. req[w].kind = "status" /\ req[w].to = "checked in"
    BY <2>1, <2>2, <2>3 DEF Passed, Checked, ByBalance
  <2>5. Entitled(req[w].by, held[w])
    BY <2>2, <2>3, <2>4 DEF AtDesk, Checked
  <2>. QED
    BY <2>2, <2>5 DEF Entitled
<1>4. TypeOK /\ AllPassed /\ AllAtDesk /\ [HeldNext]_heldVars =>
        [\A a \in Attendees :
         Change(a, Statuses, {"checked in"})
            => \E w \in Workers :
                 /\ req[w].pc = "record" /\ req'[w].pc = "mail" /\ req[w].att = a
                 /\ \/ req[w].by = Admin
                    \/ \E oa \in held[w] : Owner[oa] = req[w].by]_heldVars
  BY <1>3
<1>. QED
  BY <1>1, <1>2, <1>4, PTL DEF HeldSpec, CheckedInAtRegdesk
=============================================================================
