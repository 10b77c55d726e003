----------------------------- MODULE MCRegdesk ------------------------------
(***************************************************************************)
(* One attendee, and a user of the regdesk with two registrations.         *)
(***************************************************************************)
EXTENDS Regdesk, TLC

MCPrice == [att |-> 3]
MCVat == [att |-> "19"]
MCSelectionFixed == {{"att"}}
MCOwner == [a1 |-> "u1", a2 |-> "u2", a3 |-> "u2"]
MCRequestedFew == {"approved", "cancelled", "checked in"}
MCPayments == {3, -3}
MCBalances == {0, 3}

\* Of the user at the regdesk, only the permissions change (bound).
MCDeskOnly ==
    /\ \A w \in Workers : Busy(w) /\ req[w].att # "a1" => req[w].kind = "admin"
    /\ \A a \in Attendees \ {"a1"} : account[a].paid = 0

WorkerSymmetry == Permutations(Workers)

\* The state without the history variables of StatusDues, which no action looks at.
WithoutHistory == <<status, packages, regdesk, account, req, held>>
=============================================================================
