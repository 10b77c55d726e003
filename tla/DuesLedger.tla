----------------------------- MODULE DuesLedger -----------------------------
(***************************************************************************)
(* The list of transactions the payment service keeps for one attendee,    *)
(* and the loops of the attendee service over that list.  The other        *)
(* modules work with the sums of an Account; here both are kept side by    *)
(* side, and what the loops compute is compared with a reference.          *)
(***************************************************************************)
EXTENDS Account, Sums, FiniteSets

CONSTANTS
    Cents,              \* the amounts booked (bound)
    MaxTransactions     \* length of the list (bound)

ASSUME CentsAssumption == Cents \subseteq Int

VARIABLES
    transactions,   \* the list GetTransactions returns, oldest first
    account         \* the sums of an Account, updated transaction by transaction

vars == <<transactions, account>>

\* Of the four statuses the code tells "valid" from the others.
Transaction ==
    [type : {"due", "payment"}, status : {"pending", "valid", "deleted"}, vat : VATs, cent : Cents]

TypeOK == transactions \in Seq(Transaction) /\ account \in AccountType

Init == transactions = << >> /\ account = NoDebitor

-----------------------------------------------------------------------------
Book(type, state, v, c) ==
    /\ Len(transactions) < MaxTransactions
    /\ transactions' =
         Append(transactions, [type |-> type, status |-> state, vat |-> v, cent |-> c])

\* duesTransactionForAttendee: a due is valid from the start.
BookDue(v, c) == Book("due", "valid", v, c) /\ account' = WithDue(account, v, c)

\* A payment is started (the rate on a payment is never looked at) ...
StartPayment(v, c) == Book("payment", "pending", v, c) /\ account' = [account EXCEPT !.known = TRUE]

\* ... and becomes valid or is given up.
ConfirmPayment(i) ==
    /\ transactions[i].status = "pending"
    /\ transactions' = [transactions EXCEPT ![i].status = "valid"]
    /\ account' = WithPayment(account, transactions[i].cent)

DropPayment(i) ==
    /\ transactions[i].status = "pending"
    /\ transactions' = [transactions EXCEPT ![i].status = "deleted"]
    /\ UNCHANGED account

Next ==
    \/ \E v \in VATs, c \in Cents \ {0} : BookDue(v, c)
    \/ \E v \in VATs, c \in Cents : StartPayment(v, c)
    \/ \E i \in DOMAIN transactions : ConfirmPayment(i) \/ DropPayment(i)

Spec == Init /\ [][Next]_vars

-----------------------------------------------------------------------------
\* Mutant: what is not valid yet counts, too.
IsValid_Any(tx, type) == tx.type = type

\* All that the loops look at.
IsValid(tx, type) == tx.status = "valid" /\ tx.type = type

duesAt(txs, v) ==
    [i \in DOMAIN txs |-> IF IsValid(txs[i], "due") /\ txs[i].vat = v THEN txs[i].cent ELSE 0]
oldDuesByVAT(txs) == [v \in VATs |-> Total(duesAt(txs, v))]

valid(txs, type) == [i \in DOMAIN txs |-> IF IsValid(txs[i], type) THEN txs[i].cent ELSE 0]
balances(txs) == [dues |-> Total(valid(txs, "due")), payments |-> Total(valid(txs, "payment"))]

refunds(txs) ==
    [i \in DOMAIN txs |-> IF IsValid(txs[i], "due") /\ txs[i].cent < 0 THEN -txs[i].cent ELSE 0]
pseudoPaymentsFromNegativeDues(txs) == Total(refunds(txs))

\* The dues that a cancellation goes through, in order.
positiveDues(txs) ==
    LET dues[n \in 0 .. Len(txs)] ==
            IF n = 0 THEN << >>
            ELSE IF IsValid(txs[n], "due") /\ txs[n].cent > 0
                 THEN Append(dues[n - 1], [vat |-> txs[n].vat, cent |-> txs[n].cent])
            ELSE dues[n - 1]
    IN  dues[Len(txs)]

\* Mutant: the pool stays when a due is covered in part.
Cover_PoolStays(walk, due) ==
    IF walk.paid >= due.cent
    THEN [walk EXCEPT !.paid = @ - due.cent]
    ELSE LET kept == IF walk.paid > 0 THEN walk.paid ELSE 0 IN
         [walk EXCEPT !.booked = Append(@, [due EXCEPT !.cent = kept - due.cent])]

\* Mutant: a due that is not covered in full is voided completely.
Cover_AllOrNothing(walk, due) ==
    IF walk.paid >= due.cent
    THEN [walk EXCEPT !.paid = @ - due.cent]
    ELSE [paid |-> 0, booked |-> Append(walk.booked, [due EXCEPT !.cent = -due.cent])]

\* The body of the loop over these dues: keep what is covered, void the rest.
Cover(walk, due) ==
    IF walk.paid >= due.cent
    THEN [walk EXCEPT !.paid = @ - due.cent]
    ELSE LET kept == IF walk.paid > 0 THEN walk.paid ELSE 0 IN
         [paid   |-> walk.paid - kept,
          booked |-> Append(walk.booked, [due EXCEPT !.cent = kept - due.cent])]

\* What payments and negative dues cover together.
pool(txs) == balances(txs).payments + pseudoPaymentsFromNegativeDues(txs)

\* What a cancellation books.
compensateUnpaidDuesOnCancel(txs) ==
    LET positive == positiveDues(txs)
        walk[n \in 0 .. Len(positive)] ==
            IF n = 0 THEN [paid |-> pool(txs), booked |-> << >>]
            ELSE Cover(walk[n - 1], positive[n])
    IN  walk[Len(positive)].booked

-----------------------------------------------------------------------------
(***************************************************************************)
(* Properties                                                              *)
(***************************************************************************)
\* The sums the other modules keep are those the loops over the list compute
\* (oldDuesByVAT, balances, pseudoPaymentsFromNegativeDues, checkNoPaymentsExist),
\* in whatever order dues and payments were booked and confirmed.
SumsAgreeWithList ==
    account =
        [known    |-> transactions # << >>,
         dues     |-> oldDuesByVAT(transactions),
         total    |-> balances(transactions).dues,
         paid     |-> balances(transactions).payments,
         pays     |-> \E i \in DOMAIN transactions :
                         IsValid(transactions[i], "payment") /\ transactions[i].cent # 0,
         positive |-> positiveDues(transactions),
         negative |-> pseudoPaymentsFromNegativeDues(transactions)]

\* How much of the i-th due the money covers when the earliest dues are filled first.
Filled(dues, i, money) ==
    LET left == money - Total([j \in 1 .. i - 1 |-> dues[j].cent]) IN
    IF left <= 0 THEN 0 ELSE IF left < dues[i].cent THEN left ELSE dues[i].cent

\* What is then voided of it.
Void(dues, i, money) == Filled(dues, i, money) - dues[i].cent

\* Cancelling leaves of every positive due what payments and negative dues cover,
\* "earliest dues get filled first", and books nothing on a due that is covered
\* (compensateUnpaidDuesOnCancel).
EarliestDuesFilledFirst ==
    LET positive == positiveDues(transactions)
        booked == compensateUnpaidDuesOnCancel(transactions)
        money == account.paid + account.negative
        Open == {i \in DOMAIN positive : Void(positive, i, money) # 0} IN
    /\ Len(booked) = Cardinality(Open)
    /\ \A i \in Open :
         booked[Cardinality({j \in Open : j <= i})] = [positive[i] EXCEPT !.cent = Void(positive, i, money)]

\* The list when these dues have been booked, too.
Booked(txs, dues) ==
    txs \o [i \in DOMAIN dues |-> [type |-> "due", status |-> "valid",
                                   vat |-> dues[i].vat, cent |-> dues[i].cent]]

\* An attendee who is cancelled already and updated again is not booked anything
\* anew, unless refunds exceed the payments and the dues given back.
CancelTwiceBooksNothing ==
    LET after == Booked(transactions, compensateUnpaidDuesOnCancel(transactions)) IN
    pool(transactions) >= 0 => compensateUnpaidDuesOnCancel(after) = << >>
=============================================================================
