------------------------------ MODULE Overlap -------------------------------
(***************************************************************************)
(* StatusDues with requests on one attendee that overlap: both read the    *)
(* same transactions and book the same difference, or record a status the  *)
(* other does not know of.  Nothing in the code prevents that.  This       *)
(* module keeps track of it, to say what the next request makes of it.     *)
(***************************************************************************)
EXTENDS StatusDues

VARIABLES
    overlapping,    \* history: workers whose request has shared its attendee with another
    muddled         \* history: attendees that had such requests, and none on its own
                    \* concluded since

overlapVars == <<vars, overlapping, muddled>>

OverlapInit == Init /\ overlapping = {} /\ muddled = {}

SharesAttendee(w) ==
    \E v \in Workers \ {w} : req[v].pc # "idle" /\ req[v].att = req[w].att

Conclude(w) == AddStatusChange(w) \/ LeaveStatus(w)

OverlapNext ==
    /\ Next
    /\ overlapping' =
         {w \in Workers : req'[w].pc # "idle" /\ (w \in overlapping \/ SharesAttendee(w)')}
    /\ LET onItsOwn == {w \in Workers \ overlapping : Busy(w) /\ Conclude(w)}
       IN  muddled' = (muddled \ {req[w].att : w \in onItsOwn})
                         \cup {req'[w].att : w \in overlapping'}

OverlapSpec == OverlapInit /\ [][OverlapNext]_overlapVars

-----------------------------------------------------------------------------
\* Whatever overlapping requests have booked twice or recorded over each other, the
\* next request that is handled on its own and concluded makes good, whether or not it
\* changes the status: dues are again those of status and packages, the balance decides
\* among approved, partially paid and paid, and who is cancelled owes no more than was
\* paid (UpdateDues looks at all transactions, not at what changed).
NextRequestMakesGood ==
    \A a \in Attendees \ muddled : settled[a] =>
        LET owed == account[a].total IN
        /\ status[a] \in {"new", "deleted"} => account[a].dues = NoDues
        /\ status[a] \notin {"new", "deleted", "cancelled"}
              => account[a].dues = packageDuesByVAT(packages[a])
        /\ status[a] \in ByBalance =>
              /\ status[a] = "approved" <=> owed > 0 /\ basis[a] <= 0
              /\ status[a] = "partially paid" <=>
                    basis[a] > 0 /\ owed - basis[a] > graceAmountCents
        /\ status[a] = "cancelled" => owed <= IF basis[a] > 0 THEN basis[a] ELSE 0
=============================================================================
