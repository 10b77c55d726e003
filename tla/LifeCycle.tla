----------------------------- MODULE LifeCycle -----------------------------
(***************************************************************************)
(* What other services may rely on as long as the requests on an attendee  *)
(* come one at a time: an attendee has a status, packages and dues.  Work  *)
(* on packages and dues may be cut off, and then the dues say nothing; but *)
(* no status is left to stand before the dues are those it calls for, and  *)
(* statuses follow one another only as far as Leads permits.               *)
(***************************************************************************)
EXTENDS Integers

CONSTANTS
    Attendees, VATs, Selections,
    PackageDues     \* selection -> its dues, by tax rate

VARIABLES
    status, packages,
    dues,           \* attendee -> its dues, by tax rate
    settled         \* attendee -> the last work on it was concluded

vars == <<status, packages, dues, settled>>

NoDues == [v \in VATs |-> 0]

\* These have no dues, or only what a cancelled attendee has to pay nevertheless.
Outside == {"new", "cancelled", "deleted"}
ByBalance == {"approved", "partially paid", "paid"}

\* Outsiders are taken in by way of an approval, which looks at their balance; from
\* inside, every status can be reached.
Leads(old, new) == old \in Outside => new \in Outside \cup ByBalance

\* The dues with which an attendee may be left in a status; those of a cancelled one
\* depend on what was paid.
Calls(new, selection, d) ==
    \/ new \in {"new", "deleted"} /\ d = NoDues
    \/ new \in ByBalance \cup {"checked in"} /\ d = PackageDues[selection]
    \/ new = "cancelled" /\ d \in [VATs -> Int]

Init ==
    /\ status = [a \in Attendees |-> "new"]
    /\ packages \in [Attendees -> Selections]
    /\ dues = [a \in Attendees |-> NoDues]
    /\ settled = [a \in Attendees |-> TRUE]

\* Packages are chosen ...
Choose(a) ==
    /\ \E s \in Selections : packages' = [packages EXCEPT ![a] = s]
    /\ settled' = [settled EXCEPT ![a] = FALSE]
    /\ UNCHANGED <<status, dues>>

\* ... or dues at one rate are booked, and the work goes on.
Book(a) ==
    /\ \E v \in VATs :
         /\ dues'[a][v] \in Int
         /\ dues' = [dues EXCEPT ![a][v] = dues'[a][v]]
    /\ settled' = [settled EXCEPT ![a] = FALSE]
    /\ UNCHANGED <<status, packages>>

\* The work is concluded with a status that goes with the dues.
Conclude(a) ==
    /\ \E new \in Outside \cup ByBalance \cup {"checked in"} :
         /\ Leads(status[a], new)
         /\ Calls(new, packages[a], dues[a])
         /\ status' = [status EXCEPT ![a] = new]
    /\ settled' = [settled EXCEPT ![a] = TRUE]
    /\ UNCHANGED <<packages, dues>>

Next == \E a \in Attendees : Choose(a) \/ Book(a) \/ Conclude(a)

Spec == Init /\ [][Next]_vars
=============================================================================
