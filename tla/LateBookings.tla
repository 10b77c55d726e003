---------------------------- MODULE LateBookings ----------------------------
(***************************************************************************)
(* StatusDues with a payment service that takes its time.  AddTransaction  *)
(* of the client gives a transaction up when the request runs into its     *)
(* timeout; nothing recalls it, and the payment service may book it while  *)
(* the next request, which did not find it in the list, books the same     *)
(* difference again.                                                       *)
(*                                                                         *)
(* Requests on one attendee come one after the other, as in SerialSpec.    *)
(***************************************************************************)
EXTENDS StatusDues, Sums, SequencesExt

CONSTANT MaxLate    \* late bookings an attendee may wait for or have had (bound)

VARIABLES
    late,       \* attendee -> the dues given up that the payment service may still book
    arrived,    \* history: late bookings the last concluded request did not know of
    since       \* history: how many of these came after dues were last read for a request

lateVars == <<late, arrived, since>>
allVars == <<vars, lateVars>>

LateTypeOK ==
    /\ TypeOK
    /\ late \in [Attendees -> Seq(Due)]
    /\ arrived \in [Attendees -> Seq(Due)]
    /\ since \in [Attendees -> Nat]
    /\ \A a \in Attendees : since[a] <= Len(arrived[a])

LateInit ==
    /\ Init
    /\ late = [a \in Attendees |-> << >>]
    /\ arrived = [a \in Attendees |-> << >>]
    /\ since = [a \in Attendees |-> 0]

-----------------------------------------------------------------------------
\* The transactions the handler of w may be asking the payment service to book.
UnderWay(w) ==
    LET r == req[w] IN
    IF At(w, "book")
    THEN {[vat |-> v, cent |-> r.diff[v]] : v \in {v \in VATs : r.diff[v] # 0}}
    ELSE IF At(w, "void") /\ r.pool < Head(r.void).cent
    THEN {[vat |-> Head(r.void).vat,
           cent |-> (IF r.pool > 0 THEN r.pool ELSE 0) - Head(r.void).cent]}
    ELSE {}

\* The request ends in an error, its last transaction is still under way.
GiveUp(w) ==
    LET a == req[w].att IN
    /\ Busy(w)
    /\ Len(late[a]) + Len(arrived[a]) < MaxLate
    /\ \E tx \in UnderWay(w) : late' = [late EXCEPT ![a] = Append(@, tx)]
    /\ Respond(w)
    /\ UNCHANGED <<status, packages, regdesk, account, settled, basis, arrived, since>>

\* The payment service books a transaction that was given up, in any order.
BookLate(a) ==
    \E i \in DOMAIN late[a] :
        LET tx == late[a][i] IN
        /\ account' = [account EXCEPT ![a] = WithDue(@, tx.vat, tx.cent)]
        /\ late' = [late EXCEPT ![a] = RemoveAt(@, i)]
        /\ arrived' = [arrived EXCEPT ![a] = Append(@, tx)]
        /\ since' = [since EXCEPT ![a] = @ + 1]
        /\ UNCHANGED <<status, packages, regdesk, req, settled, basis>>

-----------------------------------------------------------------------------
\* The steps of StatusDues: the dues are read ...
ReadDues(w) ==
    /\ UpdateDues(w)
    /\ since' = [since EXCEPT ![req[w].att] = 0]
    /\ UNCHANGED <<late, arrived>>

\* ... a request is concluded, as far as it knows ...
Conclude(w) ==
    LET a == req[w].att IN
    /\ AddStatusChange(w) \/ LeaveStatus(w)
    /\ arrived' = [arrived EXCEPT ![a] = SubSeq(@, Len(@) - since[a] + 1, Len(@))]
    /\ UNCHANGED <<late, since>>

\* ... and all others.
Proceed(w) ==
    /\ \/ UpdateAttendee(w) \/ WriteAdminInfo(w)
       \/ ObtainLatestStatus(w)
       \/ StatusChangeAllowed(w) \/ CheckRegdesk(w) \/ StatusChangePossible(w)
       \/ BookAdjustment(w) \/ KeepCoveredDue(w) \/ VoidUnpaidDue(w)
       \/ AdjustStatusToBalance(w) \/ SendEmail(w) \/ Fail(w)
    /\ UNCHANGED lateVars

LateProgress(w) == ReadDues(w) \/ Conclude(w) \/ Proceed(w) \/ GiveUp(w)

LateNext ==
    \/ \E w \in Workers, a \in Attendees : Quiet(a) /\ Arrive(w, a) /\ UNCHANGED lateVars
    \/ \E w \in Workers : LateProgress(w)
    \/ \E a \in Attendees : BookPayment(a) /\ UNCHANGED lateVars
    \/ \E a \in Attendees : BookLate(a)

\* The payment service need not book what was given up.
LateSpec == LateInit /\ [][LateNext]_allVars /\ \A w \in Workers : WF_allVars(LateProgress(w))

-----------------------------------------------------------------------------
\* What late bookings add up to at a tax rate, and those an attendee is off by.
LateIn(list, v) == Total([i \in DOMAIN list |-> IF list[i].vat = v THEN list[i].cent ELSE 0])
LateAt(a, v) == LateIn(arrived[a], v)

\* However often bookings were given up, repeated and booked late after all, dues are
\* off what status and packages call for by exactly the late bookings the last
\* concluded request did not know of: nothing given up before is forgotten or counted
\* twice by later requests (adjustDuesAccordingToSelectedPackages, compensateAllDues).
DuesOffByLateBookings ==
    \A a \in Attendees, v \in VATs : settled[a] =>
        /\ status[a] \in {"new", "deleted"} => account[a].dues[v] = LateAt(a, v)
        /\ status[a] \notin {"new", "deleted", "cancelled"}
              => account[a].dues[v] = packageDuesByVAT(packages[a])[v] + LateAt(a, v)

\* A request that knew of all late bookings made them good, whether or not it changed
\* the status: the balance decides as if there had been none (UpdateDues), and who is
\* cancelled owes no more than was paid.
LateBookingsMadeGood ==
    \A a \in Attendees : settled[a] /\ arrived[a] = << >> =>
        LET missing == account[a].total - basis[a] IN
        /\ status[a] \in ByBalance =>
              /\ status[a] = "approved" <=> account[a].total > 0 /\ basis[a] <= 0
              /\ status[a] = "partially paid" <=> basis[a] > 0 /\ missing > graceAmountCents
        /\ status[a] = "cancelled" => account[a].total <= IF basis[a] > 0 THEN basis[a] ELSE 0
=============================================================================
