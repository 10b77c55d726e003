----------------------------- MODULE MCOverlap ------------------------------
(***************************************************************************)
(* One attendee with one package that may be dropped, and two requests.    *)
(***************************************************************************)
EXTENDS Overlap, TLC

MCPrice == [att |-> 3]
MCVat == [att |-> "19"]
MCSelections == {{}, {"att"}}
MCOwner == [a1 |-> "u1"]
MCPayments == {3}
MCBalances == {0, 3}

\* Admins only; an update of the admin info does to dues what one of the row does (bound).
MCUpdatesByAdmin == \A w \in Workers : Busy(w) => req[w].by = Admin /\ req[w].kind # "admin"

\* When they arrive, a deletion is of somebody who has not paid, a check-in of somebody
\* who has; payments may still follow (bound).
MCRequestsInPlace ==
    \A w \in Workers : Busy(w) /\ req[w].pc = "latest" =>
        LET a == req[w].att IN
        /\ req[w].to = "deleted" => account[a].paid = 0
        /\ req[w].to = "checked in" => account[a].paid > 0 /\ status[a] = "paid"

\* Two bookings too many and one to make them good, or an approval before these (bound).
MCBookings ==
    \A a \in Attendees : Len(account[a].positive) + account[a].negative \div Price["att"] <= 4

WorkerSymmetry == Permutations(Workers)
=============================================================================
