--------------------------- MODULE MCLateBookings ---------------------------
(***************************************************************************)
(* A small instance of LateBookings for TLC: one attendee who may drop its *)
(* only package, so that the difference of two requests is the same.       *)
(***************************************************************************)
EXTENDS LateBookings

MCPrice == [att |-> 3]
MCVat == [att |-> "19"]
MCSelections == {{}, {"att"}}
MCOwner == [a1 |-> "u1"]
MCPayments == {2, -2}
MCBalances == {0, 2}
=============================================================================
