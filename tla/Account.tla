------------------------------ MODULE Account ------------------------------
(***************************************************************************)
(* One attendee's transactions at the payment service, as far as the       *)
(* attendee service looks at them.  The code reads the whole list and adds *)
(* it up on every request; the record below holds those sums and, because  *)
(* cancellation walks the list, the positive dues in the order they were   *)
(* booked.  DuesLedger.tla keeps the list itself and checks that the two   *)
(* agree.                                                                  *)
(***************************************************************************)
EXTENDS Integers, Sequences

CONSTANTS
    VATs,               \* the tax rates (the "%.6f" strings of the code)
    graceAmountCents    \* how much may be missing for an attendee to count as paid

ASSUME GraceAssumption == graceAmountCents \in Nat

NoDues == [v \in VATs |-> 0]

Due == [vat : VATs, cent : Int]

(***************************************************************************)
(* known    - the debitor exists: without a transaction the service says   *)
(*            404 (NoSuchDebitor404Error) instead of returning a list      *)
(* dues     - valid dues per tax rate (oldDuesByVAT)                       *)
(* total    - valid dues, paid - valid payments (balances)                 *)
(* pays     - some valid payment is not zero (checkNoPaymentsExist)        *)
(* positive - the positive dues, earliest first                            *)
(* negative - the absolute sum of the negative dues                        *)
(*            (pseudoPaymentsFromNegativeDues)                             *)
(***************************************************************************)
AccountType ==
    [known : BOOLEAN, dues : [VATs -> Int], total : Int, paid : Int,
     pays : BOOLEAN, positive : Seq(Due), negative : Int]

NoDebitor ==
    [known |-> FALSE, dues |-> NoDues, total |-> 0, paid |-> 0,
     pays |-> FALSE, positive |-> << >>, negative |-> 0]

\* Mutant: a positive due is remembered without its tax rate.
WithDue_RateLost(acc, v, c) ==
    [known    |-> TRUE,
     dues     |-> [acc.dues EXCEPT ![v] = @ + c],
     total    |-> acc.total + c,
     paid     |-> acc.paid,
     pays     |-> acc.pays,
     positive |-> IF c > 0 THEN Append(acc.positive, [vat |-> "0", cent |-> c]) ELSE acc.positive,
     negative |-> IF c < 0 THEN acc.negative - c ELSE acc.negative]

\* AddTransaction of a dues transaction (type due, status valid).
WithDue(acc, v, c) ==
    [known    |-> TRUE,
     dues     |-> [acc.dues EXCEPT ![v] = @ + c],
     total    |-> acc.total + c,
     paid     |-> acc.paid,
     pays     |-> acc.pays,
     positive |-> IF c > 0 THEN Append(acc.positive, [vat |-> v, cent |-> c]) ELSE acc.positive,
     negative |-> IF c < 0 THEN acc.negative - c ELSE acc.negative]

\* The payment service books a valid payment (a refund when c < 0).
WithPayment(acc, c) ==
    [acc EXCEPT !.known = TRUE,
                !.paid  = @ + c,
                !.pays  = @ \/ c # 0]

-----------------------------------------------------------------------------
checkNoPaymentsExist(acc) == ~acc.pays
checkZeroOrNegativePaymentBalance(acc) == acc.paid <= 0
checkPositivePaymentBalanceButNotFullPayment(acc) == 0 <= acc.paid /\ acc.paid < acc.total
checkPaidInFullWithGraceAmount(acc) == acc.paid >= acc.total - graceAmountCents

\* Mutant: the check-in grants the grace amount, too.
checkPaidInFull_WithGrace(acc) == checkPaidInFullWithGraceAmount(acc)

checkPaidInFull(acc) == acc.paid >= acc.total

\* Mutant: the name of a status is misspelt.
StatusForBalance_Misspelt(total, paid) ==
    IF paid <= 0 /\ total > 0 THEN "approved"
    ELSE IF 0 < paid /\ paid < total - graceAmountCents THEN "partially-paid" ELSE "paid"

\* The status UpdateDues derives from dues and payments (dues.go, lines 45-60).
StatusForBalance(total, paid) ==
    IF paid <= 0
    THEN IF total > 0 THEN "approved" ELSE "paid"
    ELSE IF paid < total - graceAmountCents THEN "partially paid" ELSE "paid"
=============================================================================
