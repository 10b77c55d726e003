---------------------------- MODULE MCStatusDues ----------------------------
(***************************************************************************)
(* Small instances of StatusDues for TLC.  Amounts are in units of the     *)
(* grace amount: with graceAmountCents = 1, dues of 3 are paid in part by  *)
(* 1, but for the grace amount by 2, and in full by 3.                     *)
(***************************************************************************)
EXTENDS StatusDues, TLC

\* Two packages at different tax rates, as attendance and sponsor are; both or none.
MCPrice == [att |-> 2, spo |-> 1]
MCPriceOne == [att |-> 3, spo |-> 1]
MCVat == [att |-> "19", spo |-> "7"]
MCSelections == {{}, {"att", "spo"}}

\* One package; the attendee may drop it.
MCSelectionsOne == {{}, {"att"}}

MCOneOwner == [a1 |-> "u1"]

\* A second user, who does nothing but check in the attendee of the first, once that is
\* paid and an admin has granted the permission on the user's own registration (bound).
MCOwner == [a1 |-> "u1", a2 |-> "u2"]
MCDeskOnly ==
    /\ packages["a2"] = {} /\ account["a2"].paid = 0 /\ "a1" \notin regdesk
    /\ \A w \in Workers : Busy(w) =>
         /\ req[w].att = "a2" => req[w].kind = "admin" /\ status["a1"] = "paid"
         /\ req[w].by = "u2" => req[w].to = "checked in" /\ req[w].old \in {"new", "paid"}
         /\ req[w].by = "u1" => req[w].to \in {"new", "cancelled"}

MCPayments == {2, -1}
MCPaymentsIn == {1, 3}

\* Refunds may exceed the payments, as in the year after a refund.
MCBalances == -1 .. 3
=============================================================================
