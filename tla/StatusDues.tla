----------------------------- MODULE StatusDues -----------------------------
(***************************************************************************)
(* The requests that change an attendee's status, packages or permissions, *)
(* and what they do to the attendee's dues at the payment service:         *)
(*                                                                         *)
(*   POST /attendees/{id}/status   "status"     postStatusHandler          *)
(*   PUT  /attendees/{id}          "attendee"   updateAttendeeHandler      *)
(*   PUT  /attendees/{id}/admin    "admin"      writeAdminInfoHandler      *)
(*                                                                         *)
(* Every request runs in a goroutine of its own, without locks and without *)
(* a database transaction.  One action is one access to the database, the  *)
(* payment service or the mail service, together with the computation up   *)
(* to the next access, so that a request may act on what it read earlier.  *)
(* Any access may fail, and the request may run into its timeout: then the *)
(* handler returns at once and leaves behind what it has done so far.      *)
(***************************************************************************)
EXTENDS Account, FiniteSetsExt

CONSTANTS
    Attendees,
    Subjects,       \* logged in users who are not admins
    Owner,          \* attendee -> the user who registered it (identity)
    Packages, Price, Vat,   \* the package configuration: cents and tax rate
    Selections,     \* the selections of packages the choice constraints permit
    Workers,        \* requests in progress at a time (bound)
    Requested,      \* the statuses asked for (bound)
    PaymentAmounts, \* amounts of payments and refunds, in cents (bound)
    Balances,       \* what the payments of an attendee may add up to (bound)
    MaxPositive,    \* positive dues on an account when a request is accepted (bound)
    MaxNegative     \* sum of the negative dues when a request is accepted (bound)

Admin == "admin"    \* the admin role, or the api token
Callers == Subjects \cup {Admin}

Statuses == {"new", "approved", "partially paid", "paid", "checked in", "cancelled", "deleted"}

\* The statuses UpdateDues chooses among according to the balance.
ByBalance == {"approved", "partially paid", "paid"}

\* From these, StatusChangePossible asks to go to approved first.
NotApproved == {"new", "cancelled", "deleted"}

packageDuesByVAT(selection) ==
    [v \in VATs |-> MapThenSumSet(LAMBDA p : Price[p], {p \in selection : Vat[p] = v})]

ASSUME OwnerAssumption == Owner \in [Attendees -> Subjects] /\ Admin \notin Subjects
ASSUME PackageAssumption ==
    \A s \in Selections : packageDuesByVAT(s) \in [VATs -> Int]
ASSUME RequestedAssumption == Requested \subseteq Statuses
ASSUME PaymentAssumption == PaymentAmounts \subseteq Int /\ Balances \subseteq Int

-----------------------------------------------------------------------------
VARIABLES
    status,     \* attendee -> latest status (GetFullStatusHistory, last entry)
    packages,   \* attendee -> selected packages, in the database
    regdesk,    \* attendees whose admin info holds the permission "regdesk"
    account,    \* attendee -> its transactions at the payment service
    req,        \* worker -> the request it is handling
    settled,    \* history: no request failed since it began to change the attendee
    basis       \* history: attendee -> payments the last settled request relied on

vars == <<status, packages, regdesk, account, req, settled, basis>>

Kinds == {"status", "attendee", "admin"}

\* The next access of a request.
Steps == {"write", "latest", "allow", "desk", "check", "dues", "book", "void",
          "balance", "record", "mail"}

(***************************************************************************)
(* The local variables of a handler: whose request for what, the packages  *)
(* of the attendee as loaded, the old status as read, the status to record *)
(* and the one asked for, the user's registrations whose permissions are   *)
(* still to be read, the adjustments still to be booked, on cancellation   *)
(* the dues still to be walked and the money left for them, and the        *)
(* payments last read.                                                     *)
(***************************************************************************)
Request ==
    [pc : Steps, kind : Kinds, att : Attendees, by : Callers,
     pkg : Selections, old : Statuses, new : Statuses, to : Statuses,
     desk : SUBSET Attendees,
     diff : [VATs -> Int], void : Seq(Due), pool : Int, seen : Int]

Idle == [pc |-> "idle"]

Busy(w) == req[w].pc # "idle"

\* No request on a is in progress.
Quiet(a) == \A w \in Workers : Busy(w) => req[w].att # a

TypeOK ==
    /\ status \in [Attendees -> Statuses]
    /\ packages \in [Attendees -> Selections]
    /\ regdesk \subseteq Attendees
    /\ account \in [Attendees -> AccountType]
    /\ req \in [Workers -> Request \cup {Idle}]
    /\ settled \in [Attendees -> BOOLEAN]
    /\ basis \in [Attendees -> Int]

\* Every attendee has just been registered.
Init ==
    /\ status = [a \in Attendees |-> "new"]
    /\ packages \in [Attendees -> Selections]
    /\ regdesk = {}
    /\ account = [a \in Attendees |-> NoDebitor]
    /\ req = [w \in Workers |-> Idle]
    /\ settled = [a \in Attendees |-> TRUE]
    /\ basis = [a \in Attendees |-> 0]

-----------------------------------------------------------------------------
\* The handler of w continues as r; it answers with success or an error.
Continue(w, r) == req' = [req EXCEPT ![w] = r]
Respond(w) == req' = [req EXCEPT ![w] = Idle]

At(w, step) == Busy(w) /\ req[w].pc = step

\* Who may have a request handled at all; anybody logged in may ask for a status.
Accepted(kind, a, by) ==
    \/ kind = "status"                                  \* LoggedInOrApiToken
    \/ kind = "attendee" /\ by \in {Owner[a], Admin}    \* IsSubjectOrRoleOrApiToken
    \/ kind = "admin" /\ by = Admin                     \* HasRoleOrApiToken

\* A request arrives and the handler loads the attendee.
Receive(w, kind, a, by, to) ==
    /\ ~Busy(w)
    /\ Accepted(kind, a, by)
    /\ Len(account[a].positive) <= MaxPositive
    /\ account[a].negative <= MaxNegative
    /\ Continue(w, [pc |-> IF kind = "status" THEN "latest" ELSE "write",
                    kind |-> kind, att |-> a, by |-> by, pkg |-> packages[a],
                    old |-> "new", new |-> to, to |-> to, desk |-> {},
                    diff |-> NoDues, void |-> << >>, pool |-> 0, seen |-> 0])
    /\ UNCHANGED <<status, packages, regdesk, account, settled, basis>>

\* A status is asked for, the other requests leave "to" at its default.
ReceiveStatusChange(w, a, by, to) == Receive(w, "status", a, by, to)
ReceiveUpdate(w, kind, a, by) == kind # "status" /\ Receive(w, kind, a, by, "new")

-----------------------------------------------------------------------------
\* PUT of an attendee: the whole row is saved, with the packages of the body.
UpdateAttendee(w) ==
    LET r == req[w] IN
    /\ At(w, "write") /\ r.kind = "attendee"
    /\ \E s \in Selections :
         /\ packages' = [packages EXCEPT ![r.att] = s]
         /\ Continue(w, [r EXCEPT !.pkg = s, !.pc = "latest"])
    /\ settled' = [settled EXCEPT ![r.att] = FALSE]
    /\ UNCHANGED <<status, regdesk, account, basis>>

\* PUT of the admin info: sets or removes the permission "regdesk".
WriteAdminInfo(w) ==
    LET r == req[w] IN
    /\ At(w, "write") /\ r.kind = "admin"
    /\ \E granted \in BOOLEAN :
         regdesk' = IF granted THEN regdesk \cup {r.att} ELSE regdesk \ {r.att}
    /\ Continue(w, [r EXCEPT !.pc = "latest"])
    /\ UNCHANGED <<status, packages, account, settled, basis>>

\* An update asks for the status the attendee has; it may be adjusted later.
ObtainLatestStatus(w) ==
    LET r == req[w]
        current == status[r.att] IN
    /\ At(w, "latest")
    /\ Continue(w, IF r.kind = "status"
                   THEN [r EXCEPT !.old = current, !.pc = "allow"]
                   ELSE [r EXCEPT !.old = current, !.new = current, !.to = current,
                                  !.pc = "dues"])
    /\ UNCHANGED <<status, packages, regdesk, account, settled, basis>>

\* Mutant: partially paid attendees may cancel themselves, too.
SelfAllowed_PartiallyPaid(old, new) == old \in ByBalance \cup {"new"} /\ new = "cancelled"

SelfAllowed(old, new) == old \in {"new", "approved"} /\ new = "cancelled"

Allowed(r) ==
    \/ r.by = Admin
    \/ r.by = Owner[r.att] /\ SelfAllowed(r.old, r.new)

\* Others may check in who is paid, if they are at the regdesk.
NeedsRegdesk(r) == r.by \notin {Owner[r.att], Admin} /\ r.old = "paid" /\ r.new = "checked in"

\* Mutant: the registrations of the attendee's owner are looked up.
FindByIdentity_OfAttendee(r) == {oa \in Attendees : Owner[oa] = Owner[r.att]}

FindByIdentity(r) == {oa \in Attendees : Owner[oa] = r.by}

StatusChangeAllowed(w) ==
    LET r == req[w] IN
    /\ At(w, "allow")
    /\ IF Allowed(r)
       THEN Continue(w, [r EXCEPT !.pc = "check"])
       ELSE IF NeedsRegdesk(r) /\ FindByIdentity(r) # {}
       THEN Continue(w, [r EXCEPT !.pc = "desk", !.desk = FindByIdentity(r)])
       ELSE Respond(w)
    /\ UNCHANGED <<status, packages, regdesk, account, settled, basis>>

\* The admin infos of the user's registrations are read one by one, in the order the
\* database gave them, until one holds the permission "regdesk".
CheckRegdesk(w) ==
    LET r == req[w] IN
    /\ At(w, "desk")
    /\ \E oa \in r.desk :
         IF oa \in regdesk THEN Continue(w, [r EXCEPT !.pc = "check"])
         ELSE IF r.desk = {oa} THEN Respond(w)
         ELSE Continue(w, [r EXCEPT !.desk = @ \ {oa}])
    /\ UNCHANGED <<status, packages, regdesk, account, settled, basis>>

\* Mutant: "paid" does not ask to go to approved first.
Possible_PaidAtOnce(old, new, acc) ==
    old # new /\ new \in {"paid", "approved", "new"} /\ checkPaidInFullWithGraceAmount(acc)

\* Mutant: a check-in does not ask to go to approved first.
Possible_CheckInAtOnce(old, new, acc) ==
    old # new /\ new \in {"checked in", "approved"} /\ checkPaidInFull(acc)

\* A debitor unknown to the payment service counts as one without transactions.
Possible(old, new, acc) ==
    /\ old # new
    /\ new \in {"partially paid", "paid", "checked in"} => old \notin NotApproved
    /\ new \in {"new", "approved"} => checkZeroOrNegativePaymentBalance(acc)
    /\ new = "partially paid" => checkPositivePaymentBalanceButNotFullPayment(acc)
    /\ new = "paid" => checkPaidInFullWithGraceAmount(acc)
    /\ new = "checked in" => checkPaidInFull(acc)
    /\ new = "deleted" => checkNoPaymentsExist(acc)

StatusChangePossible(w) ==
    LET r == req[w]
        acc == account[r.att] IN
    /\ At(w, "check")
    /\ IF Possible(r.old, r.new, acc)
       THEN Continue(w, [r EXCEPT !.seen = acc.paid, !.pc = "dues"])
       ELSE Respond(w)
    /\ UNCHANGED <<status, packages, regdesk, account, settled, basis>>

-----------------------------------------------------------------------------
\* Mutant: only an approval is followed by a look at the balance.
Adjusting_OnlyApproved(r) ==
    [r EXCEPT !.pc = IF r.diff # NoDues THEN "book"
                     ELSE IF r.new = "approved" THEN "balance" ELSE "record"]

\* Mutant: the status is adjusted back once checked in.
Adjusting_CheckedInToo(r) ==
    [r EXCEPT !.pc = IF r.diff # NoDues THEN "book"
                     ELSE IF r.new \notin NotApproved THEN "balance" ELSE "record"]

\* Go on booking adjustments, or with what follows when there are none left.
Adjusting(r) ==
    [r EXCEPT !.pc = IF r.diff # NoDues THEN "book"
                     ELSE IF r.new \in ByBalance THEN "balance" ELSE "record"]

\* Mutant: the walk stops when the money is used up.
Voiding_StopsWithoutMoney(r) ==
    [r EXCEPT !.pc = IF r.void # << >> /\ r.pool > 0 THEN "void" ELSE "record"]

Voiding(r) == [r EXCEPT !.pc = IF r.void # << >> THEN "void" ELSE "record"]

\* Mutant: the dues of a deleted attendee stay.
DesiredDues_DeletedKeepsDues(new, selection) ==
    IF new = "new" THEN NoDues ELSE packageDuesByVAT(selection)

\* The dues an attendee is to have in a status, by tax rate.
DesiredDues(new, selection) ==
    IF new \in {"new", "deleted"} THEN NoDues ELSE packageDuesByVAT(selection)

\* Mutant: without a change of status there is nothing to book.
UpdateDues_OnChangeOnly(w) ==
    LET r == req[w]
        acc == account[r.att]
        desired == DesiredDues(r.new, r.pkg) IN
    /\ At(w, "dues")
    /\ Continue(w, IF r.new = r.old
                   THEN Adjusting(r)
                   ELSE IF r.new = "cancelled"
                   THEN Voiding([r EXCEPT !.void = acc.positive, !.seen = acc.paid,
                                          !.pool = acc.paid + acc.negative])
                   ELSE Adjusting([r EXCEPT !.diff = [v \in VATs |-> desired[v] - acc.dues[v]]]))
    /\ UNCHANGED <<status, packages, regdesk, account, settled, basis>>

(***************************************************************************)
(* UpdateDues reads the transactions and decides what to book: on          *)
(* cancellation the positive dues are walked, else each tax rate is        *)
(* brought from what it has to what it should have.                        *)
(***************************************************************************)
UpdateDues(w) ==
    LET r == req[w]
        acc == account[r.att]
        desired == DesiredDues(r.new, r.pkg) IN
    /\ At(w, "dues")
    /\ Continue(w, IF r.new = "cancelled"
                   THEN Voiding([r EXCEPT !.void = acc.positive, !.seen = acc.paid,
                                          !.pool = acc.paid + acc.negative])
                   ELSE Adjusting([r EXCEPT !.diff = [v \in VATs |-> desired[v] - acc.dues[v]]]))
    /\ UNCHANGED <<status, packages, regdesk, account, settled, basis>>

\* adjustDuesAccordingToSelectedPackages and compensateAllDues range over a Go
\* map, so the order of the tax rates is arbitrary.
BookAdjustment(w) ==
    LET r == req[w] IN
    /\ At(w, "book")
    /\ \E v \in VATs :
         /\ r.diff[v] # 0
         /\ account' = [account EXCEPT ![r.att] = WithDue(@, v, r.diff[v])]
         /\ Continue(w, Adjusting([r EXCEPT !.diff[v] = 0]))
    /\ settled' = [settled EXCEPT ![r.att] = FALSE]
    /\ UNCHANGED <<status, packages, regdesk, basis>>

\* compensateUnpaidDuesOnCancel, the next of the positive dues is covered ...
KeepCoveredDue(w) ==
    LET r == req[w]
        due == Head(r.void) IN
    /\ At(w, "void") /\ r.void # << >> /\ r.pool >= due.cent
    /\ Continue(w, Voiding([r EXCEPT !.void = Tail(@), !.pool = @ - due.cent]))
    /\ UNCHANGED <<status, packages, regdesk, account, settled, basis>>

\* ... or what the money left does not cover of it is booked back.
VoidUnpaidDue(w) ==
    LET r == req[w]
        due == Head(r.void)
        left == IF r.pool > 0 THEN r.pool ELSE 0 IN
    /\ At(w, "void") /\ r.void # << >> /\ r.pool < due.cent
    /\ account' = [account EXCEPT ![r.att] = WithDue(@, due.vat, left - due.cent)]
    /\ Continue(w, Voiding([r EXCEPT !.void = Tail(@), !.pool = @ - left]))
    /\ settled' = [settled EXCEPT ![r.att] = FALSE]
    /\ UNCHANGED <<status, packages, regdesk, basis>>

\* Mutant: once the status was adjusted, the dues are updated for it, and so on.
AdjustStatusToBalance_Again(w) ==
    LET r == req[w]
        acc == account[r.att] IN
    /\ At(w, "balance")
    /\ IF acc.known
       THEN Continue(w, [r EXCEPT !.new = StatusForBalance(acc.total, acc.paid),
                                  !.seen = acc.paid, !.pc = "dues"])
       ELSE Respond(w)
    /\ UNCHANGED <<status, packages, regdesk, account, settled, basis>>

\* The transactions are read again; this time an unknown debitor is an error.
AdjustStatusToBalance(w) ==
    LET r == req[w]
        acc == account[r.att] IN
    /\ At(w, "balance")
    /\ IF acc.known
       THEN Continue(w, [r EXCEPT !.new = StatusForBalance(acc.total, acc.paid),
                                  !.seen = acc.paid, !.pc = "record"])
       ELSE Respond(w)
    /\ UNCHANGED <<status, packages, regdesk, account, settled, basis>>

\* The request has done all it does to the attendee.
Settle(r) ==
    /\ settled' = [settled EXCEPT ![r.att] = TRUE]
    /\ basis' = [basis EXCEPT ![r.att] =
                    IF r.new \in ByBalance \cup {"cancelled"} THEN r.seen ELSE 0]

AddStatusChange(w) ==
    LET r == req[w] IN
    /\ At(w, "record") /\ r.new # r.old
    /\ status' = [status EXCEPT ![r.att] = r.new]
    /\ Settle(r)
    /\ Continue(w, [r EXCEPT !.pc = "mail"])
    /\ UNCHANGED <<packages, regdesk, account>>

LeaveStatus(w) ==
    LET r == req[w] IN
    /\ At(w, "record") /\ r.new = r.old
    /\ Settle(r)
    /\ Respond(w)
    /\ UNCHANGED <<status, packages, regdesk, account>>

\* The mail "new-status-<r.new>"; the mail service keeps nothing we read again.
SendEmail(w) ==
    /\ At(w, "mail")
    /\ Respond(w)
    /\ UNCHANGED <<status, packages, regdesk, account, settled, basis>>

-----------------------------------------------------------------------------
(***************************************************************************)
(* The next access fails, or the answer to the last one is lost, or the    *)
(* three seconds are over: the handler returns an error and undoes nothing.*)
(***************************************************************************)
Fail(w) ==
    /\ Busy(w)
    /\ Respond(w)
    /\ UNCHANGED <<status, packages, regdesk, account, settled, basis>>

\* The payment service books a payment or a refund; it does not tell the
\* attendee service.
BookPayment(a) ==
    \E c \in PaymentAmounts :
        /\ account[a].paid + c \in Balances
        /\ account' = [account EXCEPT ![a] = WithPayment(@, c)]
        /\ UNCHANGED <<status, packages, regdesk, req, settled, basis>>

Arrive(w, a) ==
    \/ \E by \in Callers, to \in Requested : ReceiveStatusChange(w, a, by, to)
    \/ \E by \in Callers, kind \in Kinds : ReceiveUpdate(w, kind, a, by)

Handle(w) ==
    \/ UpdateAttendee(w) \/ WriteAdminInfo(w)
    \/ ObtainLatestStatus(w)
    \/ StatusChangeAllowed(w) \/ CheckRegdesk(w) \/ StatusChangePossible(w)
    \/ UpdateDues(w) \/ BookAdjustment(w) \/ KeepCoveredDue(w) \/ VoidUnpaidDue(w)
    \/ AdjustStatusToBalance(w) \/ AddStatusChange(w) \/ LeaveStatus(w) \/ SendEmail(w)

Progress(w) == Handle(w) \/ Fail(w)

\* Requests on one attendee come one after the other.
SerialNext ==
    \/ \E w \in Workers, a \in Attendees : Quiet(a) /\ Arrive(w, a)
    \/ \E w \in Workers : Progress(w)
    \/ \E a \in Attendees : BookPayment(a)

\* Nothing keeps requests on one attendee apart.
Next ==
    \/ \E w \in Workers, a \in Attendees : Arrive(w, a)
    \/ \E w \in Workers : Progress(w)
    \/ \E a \in Attendees : BookPayment(a)

\* As Next, when no access fails and no request runs out of time.
ReliableNext ==
    \/ \E w \in Workers, a \in Attendees : Arrive(w, a)
    \/ \E w \in Workers : Handle(w)
    \/ \E a \in Attendees : BookPayment(a)

\* A goroutine that can run is run, and no access outlasts the timeout.
Fairness == \A w \in Workers : WF_vars(Progress(w))

Spec == Init /\ [][Next]_vars /\ Fairness
SerialSpec == Init /\ [][SerialNext]_vars /\ Fairness
ReliableSpec == Init /\ [][ReliableNext]_vars

-----------------------------------------------------------------------------
(***************************************************************************)
(* Properties.  While settled[a] holds, the last request that changed      *)
(* packages or dues of a got as far as leaving a's status recorded.        *)
(***************************************************************************)
\* The dues booked at the payment service are those the status calls for: none
\* while new or deleted, the selected packages' once approved (UpdateDues),
\* however many requests on the attendee failed halfway before.
DuesMatchStatus ==
    \A a \in Attendees : settled[a] =>
        /\ status[a] \in {"new", "deleted"} => account[a].dues = NoDues
        /\ status[a] \notin {"new", "deleted", "cancelled"}
              => account[a].dues = packageDuesByVAT(packages[a])

\* A cancelled attendee owes no more than was paid when the cancellation, or the
\* last update after it, was booked (compensateUnpaidDuesOnCancel).
CancelledOwesAtMostPaid ==
    \A a \in Attendees :
        settled[a] /\ status[a] = "cancelled"
            => account[a].total <= IF basis[a] > 0 THEN basis[a] ELSE 0

\* Approved is who owes something and has not paid, partially paid who has paid but
\* lacks more than the grace amount, and paid everybody else, by the dues now booked
\* and the payments last read (UpdateDues, lines 36-61).
StatusMatchesBalance ==
    \A a \in Attendees : settled[a] /\ status[a] \in ByBalance =>
        LET missing == account[a].total - basis[a] IN
        /\ status[a] = "approved" <=> account[a].total > 0 /\ basis[a] <= 0
        /\ status[a] = "partially paid" <=> basis[a] > 0 /\ missing > graceAmountCents

\* a's status changes from a status in old to one in new.
Change(a, old, new) == status[a] \in old /\ status'[a] \in new \ {status[a]}

\* The request that records the status of a in this step.
RecordedBy(a, P(_)) ==
    \E w \in Workers :
        req[w].pc = "record" /\ req'[w].pc = "mail" /\ req[w].att = a /\ P(req[w])

\* An attendee whose dues were settled when the check-in began is checked in only
\* when the payments that check read cover the dues in full (checkPaidInFull),
\* though dues may be booked and payments arrive after the check.
CheckInPaidInFull ==
    [][\A a \in Attendees :
         Change(a, Statuses, {"checked in"}) /\ settled[a]
            => RecordedBy(a, LAMBDA r : r.seen >= account[a].total)]_vars

\* Whatever status an attendee is in, it leaves new, cancelled or deleted for one
\* with dues only by a request for "approved" of an admin (GoToApprovedFirst), and
\* never for checked in.
LeavesByApproval ==
    [][\A a \in Attendees :
         Change(a, NotApproved, Statuses \ NotApproved)
            => /\ status'[a] # "checked in"
               /\ RecordedBy(a, LAMBDA r : r.by = Admin /\ r.to = "approved")]_vars

Promised == INSTANCE LifeCycle WITH
    dues <- [a \in Attendees |-> account[a].dues],
    PackageDues <- [s \in Selections |-> packageDuesByVAT(s)]

\* Whatever requests fail in between, each attendee goes through a life cycle in which
\* no status is left to stand before its dues are booked, and nobody who has no place
\* is given one but by an approval.
FollowsLifeCycle == Promised!Spec

\* By asking for a status, users change only what StatusChangeAllowed grants them:
\* cancel themselves while new or approved, or check in others who are paid.
UsersOnlyCancelOrCheckIn ==
    [][\A a \in Attendees :
         /\ Change(a, Statuses, Statuses)
         /\ RecordedBy(a, LAMBDA r : r.kind = "status" /\ r.by # Admin)
         => \/ Change(a, {"new", "approved"}, {"cancelled"}) /\ RecordedBy(a, LAMBDA r : r.by = Owner[a])
            \/ Change(a, {"paid"}, {"checked in"}) /\ RecordedBy(a, LAMBDA r : r.by # Owner[a])]_vars

\* In any interleaving, an update moves an attendee it found approved, partially
\* paid or paid to another of these and records nothing else ("we do not adjust
\* status back once checked in"); and a request for a status records that status,
\* or another of these three where it asked for one of them.
UpdatesMoveByBalanceOnly ==
    [][\A a \in Attendees :
         Change(a, Statuses, Statuses) => RecordedBy(a, LAMBDA r :
             \/ r.kind # "status" /\ {r.old, status'[a]} \subseteq ByBalance
             \/ r.kind = "status" /\ r.to = status'[a]
             \/ r.kind = "status" /\ {r.to, status'[a]} \subseteq ByBalance)]_vars

\* Every request is answered: the loops over tax rates and dues end.
RequestsEnd == \A w \in Workers : Busy(w) ~> ~Busy(w)

-----------------------------------------------------------------------------
(***************************************************************************)
(* What the documentation says and the code does not keep.                 *)
(***************************************************************************)
\* openapi.yaml 632: "you cannot check in an attendee unless paid in full".
CheckedInOnlyIfPaidInFull ==
    [][\A a \in Attendees :
         Change(a, Statuses, {"checked in"}) => account[a].paid >= account[a].total]_vars

\* dues.go 50-52: without dues and payments the status becomes paid ("guests").
FreeAttendeesBecomePaid ==
    \A w \in Workers : req[w].pc = "balance" => account[req[w].att].known
=============================================================================
