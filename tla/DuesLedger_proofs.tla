------------------------- MODULE DuesLedger_proofs -------------------------
(***************************************************************************)
(* What the loops over a list of transactions compute, for any tax rates,  *)
(* amounts and length of the list: the sums the other modules keep, and a  *)
(* cancellation that fills the earliest dues first and finds nothing left  *)
(* to do when it is repeated.                                              *)
(***************************************************************************)
EXTENDS DuesLedger, LoopLemmas, TLAPS

-----------------------------------------------------------------------------
(* The dues that a cancellation goes through. *)

\* A transaction of any amount: what a cancellation books is not among Cents.
Tx == [type : {"due", "payment"}, status : {"pending", "valid", "deleted"}, vat : VATs, cent : Int]

PositiveDue == {due \in Due : due.cent > 0}

IsPositive(tx) == IsValid(tx, "due") /\ tx.cent > 0
AndThis(tx, dues) ==
    IF IsPositive(tx) THEN Append(dues, [vat |-> tx.vat, cent |-> tx.cent]) ELSE dues

\* f[n] are the positive dues among the first n transactions.
Collects(f, txs, N) == f[0] = << >> /\ \A n \in 1 .. N : f[n] = AndThis(txs[n], f[n - 1])
IsCollection(f, txs, N) == f \in [0 .. N -> Seq(PositiveDue)] /\ Collects(f, txs, N)

LEMMA AndThisTyped ==
    ASSUME NEW tx \in Tx, NEW dues \in Seq(PositiveDue)
    PROVE  AndThis(tx, dues) \in Seq(PositiveDue)
<1>1. IsPositive(tx) => [vat |-> tx.vat, cent |-> tx.cent] \in PositiveDue
  BY DEF IsPositive, PositiveDue, Due, Tx
<1>2. IsPositive(tx) => Append(dues, [vat |-> tx.vat, cent |-> tx.cent]) \in Seq(PositiveDue)
  BY <1>1, AppendTyped, Zenon
<1> QED BY <1>2 DEF AndThis

LEMMA CollectionsExist ==
    ASSUME NEW N \in Nat, NEW txs \in [1 .. N -> Tx]
    PROVE  \E f : IsCollection(f, txs, N)
<1> DEFINE Step == [n \in 1 .. N |-> [dues \in Seq(PositiveDue) |-> AndThis(txs[n], dues)]]
<1>1. \A n \in 1 .. N, dues \in Seq(PositiveDue) : AndThis(txs[n], dues) \in Seq(PositiveDue)
  BY AndThisTyped
<1>2. Step \in [1 .. N -> [Seq(PositiveDue) -> Seq(PositiveDue)]]
  BY <1>1
<1>3. \A n \in 1 .. N, dues \in Seq(PositiveDue) : Step[n][dues] = AndThis(txs[n], dues)
  OBVIOUS
<1>4. << >> \in Seq(PositiveDue)
  OBVIOUS
<1> HIDE DEF Step
<1>5. PICK f : IsLoop(f, N, Seq(PositiveDue), << >>, Step)
  BY <1>2, <1>4, LoopExists, Zenon
<1>6. ASSUME NEW n \in 1 .. N PROVE f[n] = AndThis(txs[n], f[n - 1])
  <2>1. n - 1 \in 0 .. N
    OBVIOUS
  <2>2. f[n - 1] \in Seq(PositiveDue)
    BY <1>5, <2>1 DEF IsLoop
  <2> QED BY <1>3, <1>5, <2>2 DEF IsLoop
<1>7. IsCollection(f, txs, N)
  BY <1>5, <1>6 DEF IsLoop, IsCollection, Collects
<1> QED BY <1>7

LEMMA CollectionsUnique ==
    ASSUME NEW N \in Nat, NEW txs, NEW f, Collects(f, txs, N), NEW g, Collects(g, txs, N)
    PROVE  \A n \in 0 .. N : g[n] = f[n]
<1>1. InStep(g, f, N)
  BY DEF Collects, InStep
<1>2. Agree(g, f, N)
  BY <1>1, LoopUnique
<1> QED BY <1>2 DEF Agree

LEMMA PositiveDuesAre ==
    ASSUME NEW N \in Nat, NEW txs \in [1 .. N -> Tx], NEW f, IsCollection(f, txs, N)
    PROVE  positiveDues(txs) = f[N]
<1> DEFINE Body(g) == [n \in 0 .. N |->
                         IF n = 0 THEN << >>
                         ELSE IF IsValid(txs[n], "due") /\ txs[n].cent > 0
                              THEN Append(g[n - 1], [vat |-> txs[n].vat, cent |-> txs[n].cent])
                         ELSE g[n - 1]]
           chosen == CHOOSE g : g = Body(g)
<1>1. Len(txs) = N
  BY ListTyped
<1>2. positiveDues(txs) = chosen[N]
  BY <1>1 DEF positiveDues
<1>3. f = Body(f)
  <2>1. ASSUME NEW n \in 0 .. N PROVE f[n] = Body(f)[n]
    <3>1. CASE n = 0
      BY <3>1 DEF IsCollection, Collects
    <3>2. CASE n # 0
      <4>1. f[n] = AndThis(txs[n], f[n - 1])
        BY <3>2 DEF IsCollection, Collects
      <4> QED BY <3>2, <4>1 DEF AndThis, IsPositive
    <3> QED BY <3>1, <3>2
  <2>2. f = [n \in 0 .. N |-> f[n]]
    BY DEF IsCollection
  <2> HIDE DEF chosen
  <2> QED BY <2>1, <2>2
<1>4. chosen = Body(chosen)
  <2>1. \E g : g = Body(g)
    BY <1>3
  <2> HIDE DEF Body
  <2> QED BY <2>1
<1> HIDE DEF chosen
<1>5. Collects(chosen, txs, N)
  <2>1. \A n \in 0 .. N : chosen[n] = Body(chosen)[n]
    BY <1>4
  <2>2. chosen[0] = << >>
    <3>1. 0 \in 0 .. N
      OBVIOUS
    <3>2. chosen[0] = Body(chosen)[0]
      BY <2>1, <3>1
    <3> QED BY <3>1, <3>2
  <2>3. ASSUME NEW n \in 1 .. N PROVE chosen[n] = AndThis(txs[n], chosen[n - 1])
    <3>1. n \in 0 .. N /\ n # 0
      OBVIOUS
    <3>2. chosen[n] = Body(chosen)[n]
      BY <2>1, <3>1
    <3> QED BY <3>1, <3>2 DEF AndThis, IsPositive
  <2> QED BY <2>2, <2>3 DEF Collects
<1>6. Collects(f, txs, N)
  BY DEF IsCollection
<1>7. \A n \in 0 .. N : chosen[n] = f[n]
  BY <1>5, <1>6, CollectionsUnique
<1> QED BY <1>2, <1>7

LEMMA PositiveDuesLoop ==
    ASSUME NEW N \in Nat, NEW txs \in [1 .. N -> Tx]
    PROVE  \E f : IsCollection(f, txs, N) /\ positiveDues(txs) = f[N]
BY CollectionsExist, PositiveDuesAre

LEMMA PositiveDuesTyped ==
    ASSUME NEW N \in Nat, NEW txs \in [1 .. N -> Tx]
    PROVE  positiveDues(txs) \in Seq(PositiveDue)
<1>1. PICK f : IsCollection(f, txs, N) /\ positiveDues(txs) = f[N]
  BY PositiveDuesLoop
<1> QED BY <1>1 DEF IsCollection

LEMMA PositiveDuesOfOneMore ==
    ASSUME NEW N \in Nat, NEW txs \in [1 .. N -> Tx], NEW more \in [1 .. N + 1 -> Tx],
           \A i \in 1 .. N : more[i] = txs[i]
    PROVE  positiveDues(more) = AndThis(more[N + 1], positiveDues(txs))
<1>1. N + 1 \in Nat /\ N \in 0 .. N /\ N + 1 \in 1 .. N + 1 /\ (N + 1) - 1 = N
  OBVIOUS
<1>2. PICK f : IsCollection(f, more, N + 1) /\ positiveDues(more) = f[N + 1]
  BY <1>1, PositiveDuesLoop
<1>3. PICK g : IsCollection(g, txs, N) /\ positiveDues(txs) = g[N]
  BY PositiveDuesLoop
<1>4. Collects(f, txs, N) /\ Collects(g, txs, N)
  BY <1>2, <1>3 DEF IsCollection, Collects
<1>5. \A n \in 0 .. N : g[n] = f[n]
  BY <1>4, CollectionsUnique
<1>6. positiveDues(txs) = f[N]
  BY <1>1, <1>3, <1>5
<1> QED BY <1>1, <1>2, <1>6 DEF IsCollection, Collects

\* A change that neither adds nor removes a positive due.
LEMMA PositiveDuesOfChanged ==
    ASSUME NEW N \in Nat, NEW txs \in [1 .. N -> Tx], NEW more \in [1 .. N -> Tx],
           \A i \in 1 .. N : more[i] = txs[i] \/ (~IsPositive(txs[i]) /\ ~IsPositive(more[i]))
    PROVE  positiveDues(more) = positiveDues(txs)
<1>1. PICK f : IsCollection(f, txs, N) /\ positiveDues(txs) = f[N]
  BY PositiveDuesLoop
<1>2. \A i \in 1 .. N : \A dues : AndThis(more[i], dues) = AndThis(txs[i], dues)
  BY DEF AndThis
<1>3. IsCollection(f, more, N)
  BY <1>1, <1>2 DEF IsCollection, Collects
<1> QED BY <1>1, <1>3, PositiveDuesAre

\* Nor does what follows.
LEMMA PositiveDuesOfBoth ==
    ASSUME NEW N \in Nat, NEW M \in Nat, NEW txs \in [1 .. N -> Tx],
           NEW more \in [1 .. N + M -> Tx],
           \A i \in 1 .. N : more[i] = txs[i], \A i \in 1 .. M : ~IsPositive(more[N + i])
    PROVE  positiveDues(more) = positiveDues(txs)
<1>1. PICK f : IsCollection(f, txs, N) /\ positiveDues(txs) = f[N]
  BY PositiveDuesLoop
<1> DEFINE g == [n \in 0 .. N + M |-> IF n <= N THEN f[n] ELSE f[N]]
<1>2. /\ f \in [0 .. N -> Seq(PositiveDue)] /\ Collects(f, txs, N)
      /\ N + M \in Nat /\ N \in 0 .. N /\ N + M \in 0 .. N + M
  BY <1>1 DEF IsCollection
<1>3. g \in [0 .. N + M -> Seq(PositiveDue)]
  <2>1. \A n \in 0 .. N + M : (IF n <= N THEN f[n] ELSE f[N]) \in Seq(PositiveDue)
    BY <1>2
  <2> QED BY <2>1
<1>4. g[0] = << >>
  BY <1>2 DEF Collects
<1>5. ASSUME NEW n \in 1 .. N + M PROVE g[n] = AndThis(more[n], g[n - 1])
  <2>1. CASE n <= N
    <3>1. n \in 1 .. N /\ n \in 0 .. N + M /\ n - 1 \in 0 .. N + M /\ n - 1 <= N
      BY <2>1
    <3>2. g[n] = f[n] /\ g[n - 1] = f[n - 1]
      BY <2>1, <3>1
    <3> HIDE DEF g
    <3>3. f[n] = AndThis(txs[n], f[n - 1]) /\ more[n] = txs[n]
      BY <1>2, <3>1 DEF Collects
    <3> QED BY <3>2, <3>3
  <2>2. CASE n > N
    <3>1. PICK m \in 1 .. M : n = N + m
      BY <2>2
    <3>2. ~IsPositive(more[n])
      BY <3>1
    <3>3. g[n] = f[N] /\ g[n - 1] = f[N]
      BY <2>2
    <3> HIDE DEF g
    <3> QED BY <3>2, <3>3 DEF AndThis
  <2> QED BY <2>1, <2>2
<1>6. IsCollection(g, more, N + M)
  BY <1>3, <1>4, <1>5 DEF IsCollection, Collects
<1>7. g[N + M] = f[N]
  <2>1. N + M <= N => N + M = N
    OBVIOUS
  <2> QED BY <1>2, <2>1
<1> HIDE DEF g
<1>8. positiveDues(more) = g[N + M]
  BY <1>2, <1>6, PositiveDuesAre
<1> QED BY <1>1, <1>7, <1>8

-----------------------------------------------------------------------------
(* The sums over a list of transactions. *)

Pays(txs) == \E i \in DOMAIN txs : IsValid(txs[i], "payment") /\ txs[i].cent # 0

\* What SumsAgreeWithList says of the account.
Summary(txs) ==
    [known    |-> txs # << >>,
     dues     |-> oldDuesByVAT(txs),
     total    |-> balances(txs).dues,
     paid     |-> balances(txs).payments,
     pays     |-> Pays(txs),
     positive |-> positiveDues(txs),
     negative |-> pseudoPaymentsFromNegativeDues(txs)]

LEMMA ColumnsTyped ==
    ASSUME NEW N \in Nat, NEW txs \in [1 .. N -> Tx]
    PROVE  /\ \A v : duesAt(txs, v) \in [1 .. N -> Int]
           /\ \A type : valid(txs, type) \in [1 .. N -> Int]
           /\ refunds(txs) \in [1 .. N -> Int]
<1>1. \A i \in 1 .. N : txs[i].cent \in Int /\ -txs[i].cent \in Int
  BY DEF Tx
<1> QED BY <1>1 DEF duesAt, valid, refunds

LEMMA SummaryTyped ==
    ASSUME NEW N \in Nat, NEW txs \in [1 .. N -> Tx]
    PROVE  Summary(txs) \in AccountType
<1>1. /\ \A v : Total(duesAt(txs, v)) \in Int
      /\ \A type : Total(valid(txs, type)) \in Int
      /\ Total(refunds(txs)) \in Int
  BY ColumnsTyped, SumTyped
<1>2. positiveDues(txs) \in Seq(Due)
  <2>1. positiveDues(txs) \in Seq(PositiveDue) /\ PositiveDue \subseteq Due
    BY PositiveDuesTyped DEF PositiveDue
  <2> QED BY <2>1
<1>3. (txs # << >>) \in BOOLEAN /\ Pays(txs) \in BOOLEAN
  BY Zenon DEF Pays
<1>4. oldDuesByVAT(txs) \in [VATs -> Int]
  BY <1>1 DEF oldDuesByVAT
<1>5. /\ balances(txs).dues \in Int /\ balances(txs).payments \in Int
      /\ pseudoPaymentsFromNegativeDues(txs) \in Int
  BY <1>1 DEF balances, pseudoPaymentsFromNegativeDues
<1> QED BY <1>2, <1>3, <1>4, <1>5 DEF Summary, AccountType

\* One more transaction.
LEMMA SumsOfOneMore ==
    ASSUME NEW N \in Nat, NEW txs \in [1 .. N -> Tx], NEW more \in [1 .. N + 1 -> Tx],
           \A i \in 1 .. N : more[i] = txs[i],
           NEW tx, tx = more[N + 1]
    PROVE  /\ \A v : Total(duesAt(more, v)) = Total(duesAt(txs, v))
                       + IF IsValid(tx, "due") /\ tx.vat = v THEN tx.cent ELSE 0
           /\ \A type : Total(valid(more, type)) = Total(valid(txs, type))
                          + IF IsValid(tx, type) THEN tx.cent ELSE 0
           /\ Total(refunds(more)) = Total(refunds(txs))
                + IF IsValid(tx, "due") /\ tx.cent < 0 THEN -tx.cent ELSE 0
<1>1. N + 1 \in Nat /\ N + 1 \in 1 .. N + 1
  OBVIOUS
<1>2. DOMAIN more = 1 .. N + 1 /\ DOMAIN txs = 1 .. N
  OBVIOUS
<1>3. ASSUME NEW v
      PROVE  Total(duesAt(more, v)) = Total(duesAt(txs, v))
               + IF IsValid(tx, "due") /\ tx.vat = v THEN tx.cent ELSE 0
  <2>1. duesAt(txs, v) \in [1 .. N -> Int] /\ duesAt(more, v) \in [1 .. N + 1 -> Int]
    BY <1>1, ColumnsTyped
  <2>2. /\ \A i \in 1 .. N : duesAt(more, v)[i] = duesAt(txs, v)[i]
        /\ duesAt(more, v)[N + 1] = IF IsValid(tx, "due") /\ tx.vat = v THEN tx.cent ELSE 0
    BY <1>1, <1>2 DEF duesAt
  <2> QED BY <2>1, <2>2, SumOfOneMore
<1>4. ASSUME NEW type
      PROVE  Total(valid(more, type)) = Total(valid(txs, type))
               + IF IsValid(tx, type) THEN tx.cent ELSE 0
  <2>1. valid(txs, type) \in [1 .. N -> Int] /\ valid(more, type) \in [1 .. N + 1 -> Int]
    BY <1>1, ColumnsTyped
  <2>2. /\ \A i \in 1 .. N : valid(more, type)[i] = valid(txs, type)[i]
        /\ valid(more, type)[N + 1] = IF IsValid(tx, type) THEN tx.cent ELSE 0
    BY <1>1, <1>2 DEF valid
  <2> QED BY <2>1, <2>2, SumOfOneMore
<1>5. Total(refunds(more)) = Total(refunds(txs))
        + IF IsValid(tx, "due") /\ tx.cent < 0 THEN -tx.cent ELSE 0
  <2>1. refunds(txs) \in [1 .. N -> Int] /\ refunds(more) \in [1 .. N + 1 -> Int]
    BY <1>1, ColumnsTyped
  <2>2. /\ \A i \in 1 .. N : refunds(more)[i] = refunds(txs)[i]
        /\ refunds(more)[N + 1] = IF IsValid(tx, "due") /\ tx.cent < 0 THEN -tx.cent ELSE 0
    BY <1>1, <1>2 DEF refunds
  <2> QED BY <2>1, <2>2, SumOfOneMore
<1> QED BY <1>3, <1>4, <1>5

LEMMA SummaryOfDue ==
    ASSUME NEW N \in Nat, NEW txs \in [1 .. N -> Tx], NEW more \in [1 .. N + 1 -> Tx],
           \A i \in 1 .. N : more[i] = txs[i], NEW v \in VATs, NEW c \in Int,
           more[N + 1] = [type |-> "due", status |-> "valid", vat |-> v, cent |-> c]
    PROVE  Summary(more) = WithDue(Summary(txs), v, c)
<1>1. PICK tx : tx = more[N + 1] /\ IsPositive(tx) = (c > 0)
                /\ IsValid(tx, "due") /\ ~IsValid(tx, "payment") /\ tx.vat = v /\ tx.cent = c
  BY DEF IsPositive, IsValid
<1>2. /\ \A w : Total(duesAt(more, w)) = Total(duesAt(txs, w)) + IF v = w THEN c ELSE 0
      /\ Total(valid(more, "due")) = Total(valid(txs, "due")) + c
      /\ Total(valid(more, "payment")) = Total(valid(txs, "payment")) + 0
      /\ Total(refunds(more)) = Total(refunds(txs)) + IF c < 0 THEN -c ELSE 0
  BY <1>1, SumsOfOneMore
<1>3. /\ \A w : Total(duesAt(txs, w)) \in Int
      /\ \A type : Total(valid(txs, type)) \in Int
      /\ Total(refunds(txs)) \in Int
  BY ColumnsTyped, SumTyped
<1>4. oldDuesByVAT(more) = [oldDuesByVAT(txs) EXCEPT ![v] = @ + c]
  <2>1. \A w \in VATs : oldDuesByVAT(more)[w] = [oldDuesByVAT(txs) EXCEPT ![v] = @ + c][w]
    BY <1>2, <1>3 DEF oldDuesByVAT
  <2> QED BY <2>1 DEF oldDuesByVAT
<1>5. /\ balances(more).dues = balances(txs).dues + c
      /\ balances(more).payments = balances(txs).payments
      /\ pseudoPaymentsFromNegativeDues(more) =
           IF c < 0 THEN pseudoPaymentsFromNegativeDues(txs) - c
           ELSE pseudoPaymentsFromNegativeDues(txs)
  BY <1>2, <1>3 DEF balances, pseudoPaymentsFromNegativeDues
<1>6. positiveDues(more) =
        IF c > 0 THEN Append(positiveDues(txs), [vat |-> v, cent |-> c]) ELSE positiveDues(txs)
  BY <1>1, PositiveDuesOfOneMore DEF AndThis
<1>7. more # << >> /\ DOMAIN more = 1 .. N + 1 /\ DOMAIN txs = 1 .. N
  OBVIOUS
<1>8. Pays(more) = Pays(txs)
  BY <1>1, <1>7 DEF Pays
<1> QED BY <1>4, <1>5, <1>6, <1>7, <1>8 DEF Summary, WithDue

LEMMA SummaryOfPending ==
    ASSUME NEW N \in Nat, NEW txs \in [1 .. N -> Tx], NEW more \in [1 .. N + 1 -> Tx],
           \A i \in 1 .. N : more[i] = txs[i], more[N + 1].status = "pending"
    PROVE  Summary(more) = [Summary(txs) EXCEPT !.known = TRUE]
<1>1. PICK tx : tx = more[N + 1] /\ ~IsPositive(tx) /\ \A type : ~IsValid(tx, type)
  BY DEF IsPositive, IsValid
<1>2. /\ \A w : Total(duesAt(more, w)) = Total(duesAt(txs, w)) + 0
      /\ \A type : Total(valid(more, type)) = Total(valid(txs, type)) + 0
      /\ Total(refunds(more)) = Total(refunds(txs)) + 0
  BY <1>1, SumsOfOneMore
<1>3. /\ \A w : Total(duesAt(txs, w)) \in Int
      /\ \A type : Total(valid(txs, type)) \in Int
      /\ Total(refunds(txs)) \in Int
  BY ColumnsTyped, SumTyped
<1>4. oldDuesByVAT(more) = oldDuesByVAT(txs)
  BY <1>2, <1>3 DEF oldDuesByVAT
<1>5. /\ balances(more) = balances(txs)
      /\ pseudoPaymentsFromNegativeDues(more) = pseudoPaymentsFromNegativeDues(txs)
  BY <1>2, <1>3 DEF balances, pseudoPaymentsFromNegativeDues
<1>6. positiveDues(more) = positiveDues(txs)
  BY <1>1, PositiveDuesOfOneMore DEF AndThis
<1>7. more # << >> /\ DOMAIN more = 1 .. N + 1 /\ DOMAIN txs = 1 .. N
  OBVIOUS
<1>8. Pays(more) = Pays(txs)
  BY <1>1, <1>7 DEF Pays
<1>9. (more # << >>) = TRUE
  BY <1>7
<1>10. PICK known, dues, total, paid, pays, positive, negative :
          /\ known = (txs # << >>) /\ dues = oldDuesByVAT(txs)
          /\ total = balances(txs).dues /\ paid = balances(txs).payments
          /\ pays = Pays(txs) /\ positive = positiveDues(txs)
          /\ negative = pseudoPaymentsFromNegativeDues(txs)
  OBVIOUS
<1>11. PICK acc : acc = Summary(txs)
  OBVIOUS
<1>12. acc = [known |-> known, dues |-> dues, total |-> total, paid |-> paid,
              pays |-> pays, positive |-> positive, negative |-> negative]
  BY <1>10, <1>11, Zenon DEF Summary
<1>13. [acc EXCEPT !.known = TRUE] =
         [known |-> TRUE, dues |-> dues, total |-> total, paid |-> paid,
          pays |-> pays, positive |-> positive, negative |-> negative]
  <2>1. PICK yes : yes = TRUE
    OBVIOUS
  <2>2. [acc EXCEPT !.known = yes] =
          [known |-> yes, dues |-> dues, total |-> total, paid |-> paid,
           pays |-> pays, positive |-> positive, negative |-> negative]
    BY <1>12
  <2> QED BY <2>1, <2>2, Zenon
<1>14. Summary(more) =
         [known |-> TRUE, dues |-> dues, total |-> total, paid |-> paid,
          pays |-> pays, positive |-> positive, negative |-> negative]
  BY <1>4, <1>5, <1>6, <1>8, <1>9, <1>10, Zenon DEF Summary
<1> QED BY <1>11, <1>13, <1>14

\* One transaction that changes; the columns are those of duesAt, valid and refunds.
LEMMA SumsOfChanged ==
    ASSUME NEW N \in Nat, NEW txs \in [1 .. N -> Tx], NEW more \in [1 .. N -> Tx],
           NEW i \in 1 .. N, \A j \in 1 .. N : j # i => more[j] = txs[j],
           ~IsValid(txs[i], "due"), ~IsValid(more[i], "due"), ~IsValid(txs[i], "payment")
    PROVE  /\ \A v : Total(duesAt(more, v)) = Total(duesAt(txs, v))
           /\ Total(valid(more, "due")) = Total(valid(txs, "due"))
           /\ Total(valid(more, "payment")) = Total(valid(txs, "payment"))
                + IF IsValid(more[i], "payment") THEN more[i].cent ELSE 0
           /\ Total(refunds(more)) = Total(refunds(txs))
<1>1. DOMAIN more = 1 .. N /\ DOMAIN txs = 1 .. N
  OBVIOUS
<1>2. (\A v : duesAt(more, v) = duesAt(txs, v)) /\ valid(more, "due") = valid(txs, "due")
      /\ refunds(more) = refunds(txs)
  BY <1>1 DEF duesAt, valid, refunds
<1>3. valid(txs, "payment") \in [1 .. N -> Int] /\ valid(more, "payment") \in [1 .. N -> Int]
  BY ColumnsTyped
<1>4. /\ \A j \in 1 .. N : j # i => valid(more, "payment")[j] = valid(txs, "payment")[j]
      /\ valid(more, "payment")[i] = IF IsValid(more[i], "payment") THEN more[i].cent ELSE 0
      /\ valid(txs, "payment")[i] = 0
  BY <1>1 DEF valid
<1>5. Total(valid(more, "payment")) =
        Total(valid(txs, "payment")) - valid(txs, "payment")[i] + valid(more, "payment")[i]
  BY <1>3, <1>4, SumOfChanged
<1>6. Total(valid(txs, "payment")) \in Int
  BY <1>3, SumTyped
<1> QED BY <1>2, <1>4, <1>5, <1>6

LEMMA SummaryOfChanged ==
    ASSUME NEW N \in Nat, NEW txs \in [1 .. N -> Tx], NEW more \in [1 .. N -> Tx],
           NEW i \in 1 .. N, \A j \in 1 .. N : j # i => more[j] = txs[j],
           txs[i].type = "payment", more[i].type = "payment", txs[i].status = "pending"
    PROVE  Summary(more) = IF more[i].status = "valid" THEN WithPayment(Summary(txs), more[i].cent)
                           ELSE Summary(txs)
<1>1. /\ ~IsValid(txs[i], "due") /\ ~IsValid(more[i], "due") /\ ~IsValid(txs[i], "payment")
      /\ ~IsPositive(txs[i]) /\ ~IsPositive(more[i])
      /\ IsValid(more[i], "payment") <=> more[i].status = "valid"
  BY DEF IsPositive, IsValid
<1>2. /\ \A v : Total(duesAt(more, v)) = Total(duesAt(txs, v))
      /\ Total(valid(more, "due")) = Total(valid(txs, "due"))
      /\ Total(valid(more, "payment")) = Total(valid(txs, "payment"))
           + IF IsValid(more[i], "payment") THEN more[i].cent ELSE 0
      /\ Total(refunds(more)) = Total(refunds(txs))
  BY <1>1, SumsOfChanged
<1>3. oldDuesByVAT(more) = oldDuesByVAT(txs)
  BY <1>2 DEF oldDuesByVAT
<1>4. positiveDues(more) = positiveDues(txs)
  <2>1. \A j \in 1 .. N : more[j] = txs[j] \/ (~IsPositive(txs[j]) /\ ~IsPositive(more[j]))
    BY <1>1
  <2> QED BY <2>1, PositiveDuesOfChanged
<1>5. (txs # << >>) = TRUE /\ (more # << >>) = TRUE /\ DOMAIN more = 1 .. N /\ DOMAIN txs = 1 .. N
  OBVIOUS
<1>6. Total(valid(txs, "payment")) \in Int
  BY ColumnsTyped, SumTyped
<1>7. CASE more[i].status = "valid"
  <2>1. Pays(more) = (Pays(txs) \/ more[i].cent # 0)
    <3>1. more[i].cent # 0 => Pays(more)
      BY <1>1, <1>5, <1>7 DEF Pays
    <3>2. Pays(txs) => Pays(more)
      BY <1>1, <1>5 DEF Pays
    <3>3. Pays(more) => Pays(txs) \/ more[i].cent # 0
      BY <1>5 DEF Pays
    <3>4. Pays(more) \in BOOLEAN /\ Pays(txs) \in BOOLEAN
      BY Zenon DEF Pays
    <3> QED BY <3>1, <3>2, <3>3, <3>4
  <2>2. Total(valid(more, "payment")) = Total(valid(txs, "payment")) + more[i].cent
    BY <1>1, <1>2, <1>7
  <2> QED BY <1>2, <1>3, <1>4, <1>5, <1>7, <2>1, <2>2
          DEF Summary, WithPayment, balances, pseudoPaymentsFromNegativeDues
<1>8. CASE more[i].status # "valid"
  <2>1. Pays(more) = Pays(txs)
    BY <1>1, <1>5, <1>8 DEF Pays
  <2>2. Total(valid(more, "payment")) = Total(valid(txs, "payment"))
    BY <1>1, <1>2, <1>6, <1>8
  <2> QED BY <1>2, <1>3, <1>4, <1>5, <1>8, <2>1, <2>2
          DEF Summary, balances, pseudoPaymentsFromNegativeDues
<1> QED BY <1>7, <1>8

-----------------------------------------------------------------------------
(* The sums and the list go along. *)

\* Only payments wait to be confirmed: a step that confirms one must not touch the dues.
PendingArePayments ==
    \A i \in DOMAIN transactions :
        transactions[i].status = "pending" => transactions[i].type = "payment"

Agreed == TypeOK /\ PendingArePayments /\ account = Summary(transactions)

LEMMA AgreedMeans == Agreed => SumsAgreeWithList
BY DEF Agreed, SumsAgreeWithList, Summary, Pays

LEMMA ListIsTyped ==
    ASSUME NEW txs \in Seq(Transaction)
    PROVE  Len(txs) \in Nat /\ DOMAIN txs = 1 .. Len(txs) /\ txs \in [1 .. Len(txs) -> Tx]
<1>1. Transaction \subseteq Tx
  BY CentsAssumption DEF Transaction, Tx
<1> QED BY <1>1

LEMMA InitAgreed == Init => Agreed
<1> SUFFICES ASSUME Init PROVE Agreed
  OBVIOUS
<1>1. << >> \in [1 .. 0 -> Tx] /\ 0 \in Nat /\ transactions = << >> /\ account = NoDebitor
  BY DEF Init
<1>2. PICK f : IsCollection(f, << >>, 0) /\ positiveDues(<< >>) = f[0]
  BY <1>1, PositiveDuesLoop
<1>3. positiveDues(<< >>) = << >>
  BY <1>2 DEF IsCollection, Collects
<1>4. /\ \A v : duesAt(<< >>, v) = << >>
      /\ \A type : valid(<< >>, type) = << >>
      /\ refunds(<< >>) = << >>
  BY DEF duesAt, valid, refunds
<1>5. Pays(<< >>) = FALSE /\ (<< >> # << >>) = FALSE
  BY DEF Pays
<1>6. Summary(<< >>) = NoDebitor
  <2>1. oldDuesByVAT(<< >>) = NoDues
    BY <1>4, SumOfEmpty DEF oldDuesByVAT, NoDues
  <2>2. /\ balances(<< >>).dues = 0 /\ balances(<< >>).payments = 0
        /\ pseudoPaymentsFromNegativeDues(<< >>) = 0
    BY <1>4, SumOfEmpty DEF balances, pseudoPaymentsFromNegativeDues
  <2> QED BY <1>3, <1>5, <2>1, <2>2 DEF Summary, NoDebitor
<1>7. Summary(<< >>) \in AccountType
  BY <1>1, SummaryTyped
<1> QED BY <1>1, <1>6, <1>7 DEF Agreed, TypeOK, PendingArePayments

\* Whatever is booked, the list goes on as it was.
LEMMA BookedIsLast ==
    ASSUME TypeOK, NEW type \in {"due", "payment"}, NEW state \in {"pending", "valid", "deleted"},
           NEW v \in VATs, NEW c \in Cents, Book(type, state, v, c),
           NEW N, N = Len(transactions)
    PROVE  /\ N \in Nat /\ transactions \in [1 .. N -> Tx] /\ transactions' \in [1 .. N + 1 -> Tx]
           /\ \A i \in 1 .. N : transactions'[i] = transactions[i]
           /\ transactions'[N + 1] = [type |-> type, status |-> state, vat |-> v, cent |-> c]
           /\ transactions' \in Seq(Transaction)
           /\ DOMAIN transactions = 1 .. N /\ DOMAIN transactions' = 1 .. N + 1
<1>1. PICK tx \in Transaction : tx = [type |-> type, status |-> state, vat |-> v, cent |-> c]
  BY DEF Transaction
<1>2. transactions' = Append(transactions, tx) /\ transactions \in Seq(Transaction)
  BY <1>1 DEF Book, TypeOK
<1>3. /\ transactions' \in Seq(Transaction) /\ Len(transactions') = N + 1
      /\ transactions'[N + 1] = tx
      /\ \A i \in 1 .. N : transactions'[i] = transactions[i]
  BY <1>2
<1> QED BY <1>1, <1>2, <1>3, ListIsTyped

LEMMA BookDueAgreed ==
    ASSUME Agreed, NEW v \in VATs, NEW c \in Cents \ {0}, BookDue(v, c)
    PROVE  Agreed'
<1>1. PICK N : N = Len(transactions)
  OBVIOUS
<1>2. /\ N \in Nat /\ transactions \in [1 .. N -> Tx] /\ transactions' \in [1 .. N + 1 -> Tx]
      /\ \A i \in 1 .. N : transactions'[i] = transactions[i]
      /\ transactions'[N + 1] = [type |-> "due", status |-> "valid", vat |-> v, cent |-> c]
      /\ transactions' \in Seq(Transaction)
      /\ DOMAIN transactions = 1 .. N /\ DOMAIN transactions' = 1 .. N + 1
  BY <1>1, BookedIsLast DEF Agreed, BookDue
<1>3. c \in Int
  BY CentsAssumption
<1>4. Summary(transactions') = WithDue(Summary(transactions), v, c)
  BY <1>2, <1>3, SummaryOfDue
<1>5. account' = Summary(transactions')
  BY <1>4 DEF Agreed, BookDue
<1>6. Summary(transactions') \in AccountType
  <2>1. N + 1 \in Nat
    BY <1>2
  <2> QED BY <1>2, <2>1, SummaryTyped
<1>7. PendingArePayments'
  BY <1>2 DEF Agreed, PendingArePayments
<1> QED BY <1>2, <1>5, <1>6, <1>7 DEF Agreed, TypeOK

LEMMA StartPaymentAgreed ==
    ASSUME Agreed, NEW v \in VATs, NEW c \in Cents, StartPayment(v, c)
    PROVE  Agreed'
<1>1. PICK N : N = Len(transactions)
  OBVIOUS
<1>2. /\ N \in Nat /\ transactions \in [1 .. N -> Tx] /\ transactions' \in [1 .. N + 1 -> Tx]
      /\ \A i \in 1 .. N : transactions'[i] = transactions[i]
      /\ transactions'[N + 1] = [type |-> "payment", status |-> "pending", vat |-> v, cent |-> c]
      /\ transactions' \in Seq(Transaction)
      /\ DOMAIN transactions = 1 .. N /\ DOMAIN transactions' = 1 .. N + 1
  BY <1>1, BookedIsLast DEF Agreed, StartPayment
<1>3. Summary(transactions') = [Summary(transactions) EXCEPT !.known = TRUE]
  BY <1>2, SummaryOfPending
<1>4. account' = Summary(transactions')
  BY <1>3 DEF Agreed, StartPayment
<1>5. Summary(transactions') \in AccountType
  <2>1. N + 1 \in Nat
    BY <1>2
  <2> QED BY <1>2, <2>1, SummaryTyped
<1>6. PendingArePayments'
  BY <1>2 DEF Agreed, PendingArePayments
<1> QED BY <1>2, <1>4, <1>5, <1>6 DEF Agreed, TypeOK

\* A payment is confirmed or given up.
LEMMA SettlePaymentAgreed ==
    ASSUME Agreed, NEW i \in DOMAIN transactions, ConfirmPayment(i) \/ DropPayment(i)
    PROVE  Agreed'
<1>1. PICK N \in Nat : N = Len(transactions)
  BY DEF Agreed, TypeOK
<1>2. PICK s \in {"valid", "deleted"} :
        /\ transactions' = [transactions EXCEPT ![i].status = s]
        /\ account' = IF s = "valid" THEN WithPayment(account, transactions[i].cent) ELSE account
  BY DEF ConfirmPayment, DropPayment
<1>3. transactions[i].status = "pending" /\ transactions[i].type = "payment"
  BY DEF ConfirmPayment, DropPayment, Agreed, PendingArePayments
<1>4. transactions \in Seq(Transaction) /\ i \in 1 .. N
  BY <1>1 DEF Agreed, TypeOK
<1>5. /\ transactions' \in Seq(Transaction) /\ Len(transactions') = N
      /\ \A j \in 1 .. N : j # i => transactions'[j] = transactions[j]
      /\ transactions'[i].type = "payment" /\ transactions'[i].status = s
      /\ transactions'[i].cent = transactions[i].cent
  <2>1. PICK tx \in Transaction : tx = [transactions[i] EXCEPT !.status = s]
    <3>1. PICK old \in Transaction : old = transactions[i]
      BY <1>1, <1>4
    <3>2. [old EXCEPT !.status = s] \in Transaction
      BY DEF Transaction
    <3> QED BY <3>1, <3>2
  <2>2. transactions' = [transactions EXCEPT ![i] = tx]
    BY <1>2, <2>1
  <2>3. tx.type = "payment" /\ tx.status = s /\ tx.cent = transactions[i].cent
    BY <1>3, <1>4, <2>1 DEF Transaction
  <2> QED BY <1>1, <1>4, <2>2, <2>3
<1>6. transactions \in [1 .. N -> Tx] /\ transactions' \in [1 .. N -> Tx]
  BY <1>1, <1>4, <1>5, ListIsTyped
<1>7. Summary(transactions') =
        IF transactions'[i].status = "valid"
        THEN WithPayment(Summary(transactions), transactions'[i].cent)
        ELSE Summary(transactions)
  BY <1>3, <1>4, <1>5, <1>6, SummaryOfChanged
<1>8. account' = Summary(transactions')
  BY <1>2, <1>5, <1>7 DEF Agreed
<1>9. Summary(transactions') \in AccountType
  BY <1>6, SummaryTyped
<1>10. PendingArePayments'
  BY <1>4, <1>5, <1>1 DEF Agreed, PendingArePayments
<1> QED BY <1>5, <1>8, <1>9, <1>10 DEF Agreed, TypeOK

LEMMA NextAgreed == Agreed /\ [Next]_vars => Agreed'
<1> SUFFICES ASSUME Agreed, [Next]_vars PROVE Agreed'
  OBVIOUS
<1>1. CASE \E v \in VATs, c \in Cents \ {0} : BookDue(v, c)
  BY <1>1, BookDueAgreed
<1>2. CASE \E v \in VATs, c \in Cents : StartPayment(v, c)
  BY <1>2, StartPaymentAgreed
<1>3. CASE \E i \in DOMAIN transactions : ConfirmPayment(i) \/ DropPayment(i)
  BY <1>3, SettlePaymentAgreed
<1>4. CASE UNCHANGED vars
  BY <1>4 DEF vars, Agreed, TypeOK, PendingArePayments
<1> QED BY <1>1, <1>2, <1>3, <1>4 DEF Next

LEMMA AlwaysAgreed == Spec => []Agreed
BY InitAgreed, NextAgreed, PTL DEF Spec

\* The list holds transactions, the account its sums.
THEOREM LedgerTyped == Spec => []TypeOK
<1>1. Agreed => TypeOK
  BY DEF Agreed
<1> QED BY <1>1, AlwaysAgreed, PTL

\* What the loops over the list add up (oldDuesByVAT, balances, the walk of
\* compensateUnpaidDuesOnCancel) are the sums that the other modules keep, whatever
\* was booked, confirmed or given up, in any order.
THEOREM SumsHold == Spec => []SumsAgreeWithList
BY AlwaysAgreed, AgreedMeans, PTL

-----------------------------------------------------------------------------
(* The walk of a cancellation. *)

NegativeDue == {due \in Due : due.cent < 0}
Walk == [paid : Int, booked : Seq(NegativeDue)]

\* w[n] is how far the money goes, and what is voided, after n dues.
Walks(w, dues, money, M) ==
    w[0] = [paid |-> money, booked |-> << >>] /\ \A n \in 1 .. M : w[n] = Cover(w[n - 1], dues[n])
IsWalk(w, dues, money, M) == w \in [0 .. M -> Walk] /\ Walks(w, dues, money, M)

Kept(paid) == IF paid > 0 THEN paid ELSE 0

\* Cover, field by field.
LEMMA Covered ==
    ASSUME NEW walk \in Walk, NEW due \in PositiveDue
    PROVE  /\ Cover(walk, due) \in Walk
           /\ due.cent \in Int /\ due.cent > 0
           /\ walk.paid >= due.cent =>
                Cover(walk, due).paid = walk.paid - due.cent /\ Cover(walk, due).booked = walk.booked
           /\ walk.paid < due.cent =>
                /\ Cover(walk, due).paid = walk.paid - Kept(walk.paid)
                /\ [due EXCEPT !.cent = Kept(walk.paid) - due.cent] \in NegativeDue
                /\ Cover(walk, due).booked =
                     Append(walk.booked, [due EXCEPT !.cent = Kept(walk.paid) - due.cent])
<1>1. PICK vat \in VATs, cent \in Int : due = [vat |-> vat, cent |-> cent] /\ cent > 0
  BY DEF PositiveDue, Due
<1>2. PICK paid \in Int, booked \in Seq(NegativeDue) : walk = [paid |-> paid, booked |-> booked]
  BY DEF Walk
<1>3. due.cent = cent /\ walk.paid = paid /\ walk.booked = booked
  BY <1>1, <1>2
<1>4. CASE paid >= cent
  <2>1. Cover(walk, due) = [paid |-> paid - cent, booked |-> booked]
    BY <1>1, <1>2, <1>4 DEF Cover
  <2> QED BY <1>1, <1>3, <1>4, <2>1 DEF Walk
<1>5. CASE paid < cent
  <2>1. PICK kept \in Int : kept = Kept(paid) /\ kept - cent < 0
    BY <1>1, <1>5 DEF Kept
  <2>2. PICK void : void = [due EXCEPT !.cent = kept - cent]
    OBVIOUS
  <2>3. void = [vat |-> vat, cent |-> kept - cent]
    BY <1>1, <2>2
  <2>4. void \in NegativeDue
    BY <2>1, <2>3 DEF NegativeDue, Due
  <2>5. Append(booked, void) \in Seq(NegativeDue)
    BY <2>4, AppendTyped, Zenon
  <2>6. ~(walk.paid >= due.cent)
    BY <1>3, <1>5
  <2>7. Cover(walk, due) = [paid |-> paid - kept, booked |-> Append(booked, void)]
    BY <1>3, <2>1, <2>2, <2>6 DEF Cover, Kept
  <2>8. /\ Cover(walk, due).paid = paid - kept
        /\ Cover(walk, due).booked = Append(booked, void)
    BY <2>7
  <2>9. Cover(walk, due) \in Walk
    <3>1. paid - kept \in Int
      OBVIOUS
    <3> QED BY <2>5, <2>7, <3>1 DEF Walk
  <2>10. [due EXCEPT !.cent = Kept(walk.paid) - due.cent] = void
    BY <1>3, <2>1, <2>2
  <2>11. ~(walk.paid >= due.cent) /\ walk.paid - Kept(walk.paid) = paid - kept
    BY <1>3, <1>5, <2>1
  <2> QED BY <1>1, <1>3, <2>4, <2>8, <2>9, <2>10, <2>11, Zenon
<1> QED BY <1>1, <1>3, <1>4, <1>5

LEMMA CoveredInFull ==
    ASSUME NEW walk \in Walk, NEW due \in PositiveDue, walk.paid >= due.cent,
           NEW next, next = Cover(walk, due)
    PROVE  next.paid = walk.paid - due.cent /\ next.booked = walk.booked
BY Covered

LEMMA WalksExist ==
    ASSUME NEW M \in Nat, NEW dues \in [1 .. M -> PositiveDue], NEW money \in Int
    PROVE  \E w : IsWalk(w, dues, money, M)
<1> DEFINE Step == [n \in 1 .. M |-> [walk \in Walk |-> Cover(walk, dues[n])]]
<1>1. \A n \in 1 .. M, walk \in Walk : Cover(walk, dues[n]) \in Walk
  BY Covered
<1>2. Step \in [1 .. M -> [Walk -> Walk]]
  BY <1>1
<1>3. \A n \in 1 .. M, walk \in Walk : Step[n][walk] = Cover(walk, dues[n])
  OBVIOUS
<1>4. [paid |-> money, booked |-> << >>] \in Walk
  BY DEF Walk
<1> HIDE DEF Step
<1>5. PICK w : IsLoop(w, M, Walk, [paid |-> money, booked |-> << >>], Step)
  BY <1>2, <1>4, LoopExists, Zenon
<1>6. ASSUME NEW n \in 1 .. M PROVE w[n] = Cover(w[n - 1], dues[n])
  <2>1. n - 1 \in 0 .. M
    OBVIOUS
  <2>2. w[n - 1] \in Walk
    BY <1>5, <2>1 DEF IsLoop
  <2> QED BY <1>3, <1>5, <2>2 DEF IsLoop
<1>7. IsWalk(w, dues, money, M)
  BY <1>5, <1>6 DEF IsLoop, IsWalk, Walks
<1> QED BY <1>7

LEMMA WalksUnique ==
    ASSUME NEW M \in Nat, NEW dues, NEW money, NEW f, Walks(f, dues, money, M),
           NEW g, Walks(g, dues, money, M)
    PROVE  \A n \in 0 .. M : g[n] = f[n]
<1>1. InStep(g, f, M)
  BY DEF Walks, InStep
<1>2. Agree(g, f, M)
  BY <1>1, LoopUnique
<1> QED BY <1>2 DEF Agree

\* What a cancellation books is what such a walk has booked at its end.
LEMMA CancelWalks ==
    ASSUME NEW txs, NEW dues, dues = positiveDues(txs), dues \in Seq(PositiveDue),
           NEW M, M = Len(dues), pool(txs) \in Int
    PROVE  \E w : IsWalk(w, dues, pool(txs), M) /\ compensateUnpaidDuesOnCancel(txs) = w[M].booked
<1>1. M \in Nat /\ dues \in [1 .. M -> PositiveDue]
  OBVIOUS
<1> DEFINE Body(g) == [n \in 0 .. M |-> IF n = 0 THEN [paid |-> pool(txs), booked |-> << >>]
                                        ELSE Cover(g[n - 1], dues[n])]
           chosen == CHOOSE g : g = Body(g)
<1>2. compensateUnpaidDuesOnCancel(txs) = chosen[M].booked
  BY DEF compensateUnpaidDuesOnCancel
<1>3. PICK w : IsWalk(w, dues, pool(txs), M)
  BY <1>1, WalksExist
<1>4. w = Body(w)
  <2>1. \A n \in 0 .. M : w[n] = Body(w)[n]
    BY <1>3 DEF IsWalk, Walks
  <2>2. w = [n \in 0 .. M |-> w[n]]
    BY <1>3 DEF IsWalk
  <2> HIDE DEF chosen
  <2> QED BY <2>1, <2>2
<1>5. chosen = Body(chosen)
  <2>1. \E g : g = Body(g)
    BY <1>4
  <2> HIDE DEF Body
  <2> QED BY <2>1
<1> HIDE DEF chosen
<1>6. Walks(chosen, dues, pool(txs), M)
  <2>1. \A n \in 0 .. M : chosen[n] = Body(chosen)[n]
    BY <1>5
  <2>2. chosen[0] = [paid |-> pool(txs), booked |-> << >>]
    <3>1. 0 \in 0 .. M
      BY <1>1
    <3>2. chosen[0] = Body(chosen)[0]
      BY <2>1, <3>1
    <3> QED BY <3>1, <3>2
  <2>3. ASSUME NEW n \in 1 .. M PROVE chosen[n] = Cover(chosen[n - 1], dues[n])
    <3>1. n \in 0 .. M /\ n # 0
      BY <1>1
    <3>2. chosen[n] = Body(chosen)[n]
      BY <2>1, <3>1
    <3> QED BY <3>1, <3>2
  <2> QED BY <2>2, <2>3 DEF Walks
<1>7. Walks(w, dues, pool(txs), M)
  BY <1>3 DEF IsWalk
<1>8. \A n \in 0 .. M : chosen[n] = w[n]
  BY <1>1, <1>6, <1>7, WalksUnique
<1>9. chosen[M] = w[M]
  BY <1>1, <1>8
<1> QED BY <1>2, <1>3, <1>9

\* p[n] is what the first n dues come to.
IsTotal(p, dues, M) == IsSum(p, [j \in 1 .. M |-> dues[j].cent], M)

LEMMA TotalsExist ==
    ASSUME NEW M \in Nat, NEW dues \in [1 .. M -> PositiveDue]
    PROVE  \E p : IsTotal(p, dues, M)
<1>1. [j \in 1 .. M |-> dues[j].cent] \in [1 .. M -> Int]
  BY DEF PositiveDue, Due
<1> QED BY <1>1, SumsExist DEF IsTotal

\* As long as the money covers what was seen, nothing is voided and the rest is left;
\* afterwards nothing is left.
FillsFirst(walk, rest) ==
    IF rest >= 0 THEN walk.paid = rest /\ walk.booked = << >> ELSE walk.paid <= 0

LEMMA WalkFillsFirst ==
    ASSUME NEW M \in Nat, NEW dues \in [1 .. M -> PositiveDue], NEW money \in Int,
           NEW w, IsWalk(w, dues, money, M), NEW p, IsTotal(p, dues, M)
    PROVE  \A n \in 0 .. M : FillsFirst(w[n], money - p[n])
<1> DEFINE P == {n \in 0 .. M : FillsFirst(w[n], money - p[n])}
<1>1. /\ p[0] = 0 /\ \A n \in 1 .. M : p[n] = p[n - 1] + dues[n].cent
      /\ \A n \in 0 .. M : p[n] \in Int
  BY DEF IsTotal, IsSum, AddsUp
<1>2. 0 \in P
  <2>1. w[0].paid = money /\ w[0].booked = << >>
    BY DEF IsWalk, Walks
  <2>2. w[0] \in Walk
    BY DEF IsWalk
  <2> QED BY <1>1, <2>1, <2>2 DEF FillsFirst, Walk
<1>3. ASSUME NEW n \in 1 .. M, n - 1 \in P PROVE n \in P
  <2>1. n - 1 \in 0 .. M /\ n \in 0 .. M /\ FillsFirst(w[n - 1], money - p[n - 1])
    BY <1>3
  <2>2. PICK walk \in Walk, due \in PositiveDue, rest \in Int :
           walk = w[n - 1] /\ due = dues[n] /\ rest = money - p[n - 1]
    BY <1>1, <2>1 DEF IsWalk
  <2>3. w[n] = Cover(walk, due) /\ FillsFirst(walk, rest)
    BY <2>1, <2>2 DEF IsWalk, Walks
  <2>4. money - p[n] = rest - due.cent /\ due.cent \in Int /\ due.cent > 0
    <3>1. p[n] = p[n - 1] + due.cent /\ p[n - 1] \in Int /\ due.cent \in Int /\ due.cent > 0
      BY <1>1, <2>1, <2>2 DEF PositiveDue, Due
    <3> QED BY <2>2, <3>1
  <2>5. walk.paid \in Int
    BY DEF Walk
  <2>6. CASE walk.paid >= due.cent
    <3>1. w[n].paid = walk.paid - due.cent /\ w[n].booked = walk.booked
      BY <2>3, <2>6, CoveredInFull
    <3> QED BY <2>1, <2>3, <2>4, <2>5, <2>6, <3>1 DEF FillsFirst
  <2>7. CASE walk.paid < due.cent
    <3>1. w[n].paid = walk.paid - Kept(walk.paid)
      BY <2>3, <2>7, Covered
    <3>2. w[n].paid <= 0 /\ rest - due.cent < 0
      BY <2>3, <2>4, <2>5, <2>7, <3>1 DEF FillsFirst, Kept
    <3> QED BY <2>1, <2>4, <3>2 DEF FillsFirst
  <2> QED BY <2>4, <2>5, <2>6, <2>7
<1> HIDE DEF P
<1>4. \A n \in 0 .. M : n \in P
  BY <1>2, <1>3, UpToInduction
<1> QED BY <1>4 DEF P

\* What the dues given back come to.
Voids(booked) == [i \in DOMAIN booked |-> -booked[i].cent]

LEMMA VoidsTyped ==
    ASSUME NEW booked \in Seq(NegativeDue)
    PROVE  /\ Voids(booked) \in [1 .. Len(booked) -> Int] /\ Len(booked) \in Nat
           /\ Total(Voids(booked)) \in Int
<1>1. \A i \in 1 .. Len(booked) : booked[i] \in NegativeDue
  OBVIOUS
<1>2. \A i \in 1 .. Len(booked) : -booked[i].cent \in Int
  BY <1>1 DEF NegativeDue, Due
<1>3. Voids(booked) \in [1 .. Len(booked) -> Int] /\ Len(booked) \in Nat
  BY <1>2 DEF Voids
<1> QED BY <1>3, SumTyped

LEMMA VoidsOfOneMore ==
    ASSUME NEW booked \in Seq(NegativeDue), NEW void \in NegativeDue
    PROVE  Total(Voids(Append(booked, void))) = Total(Voids(booked)) - void.cent
<1>1. PICK N \in Nat : N = Len(booked)
  OBVIOUS
<1>2. PICK more \in Seq(NegativeDue) : more = Append(booked, void)
  BY AppendTyped, Zenon
<1>3. /\ Len(more) = N + 1 /\ more[N + 1] = void /\ N + 1 \in 1 .. N + 1
      /\ \A i \in 1 .. N : more[i] = booked[i]
  BY <1>1, <1>2
<1>4. Voids(booked) \in [1 .. N -> Int] /\ Voids(more) \in [1 .. N + 1 -> Int]
  BY <1>1, <1>3, VoidsTyped
<1>5. DOMAIN more = 1 .. N + 1 /\ DOMAIN booked = 1 .. N
  BY <1>1, <1>3
<1>6. /\ \A i \in 1 .. N : Voids(more)[i] = Voids(booked)[i]
      /\ Voids(more)[N + 1] = -void.cent
  BY <1>3, <1>5 DEF Voids
<1>7. Total(Voids(more)) = Total(Voids(booked)) + (-void.cent)
  BY <1>4, <1>6, SumOfOneMore
<1>8. Total(Voids(booked)) \in Int /\ void.cent \in Int
  BY VoidsTyped DEF NegativeDue, Due
<1> QED BY <1>2, <1>7, <1>8

\* Unless the money is short from the start, the dues given back pay for all that it
\* does not cover: nothing of the money is lost on the way.
Balanced(walk, rest) == walk.paid >= 0 /\ rest + Total(Voids(walk.booked)) = walk.paid

LEMMA WalkBalances ==
    ASSUME NEW M \in Nat, NEW dues \in [1 .. M -> PositiveDue], NEW money \in Nat,
           NEW w, IsWalk(w, dues, money, M), NEW p, IsTotal(p, dues, M)
    PROVE  \A n \in 0 .. M : Balanced(w[n], money - p[n])
<1> DEFINE P == {n \in 0 .. M : Balanced(w[n], money - p[n])}
<1>1. /\ p[0] = 0 /\ \A n \in 1 .. M : p[n] = p[n - 1] + dues[n].cent
      /\ \A n \in 0 .. M : p[n] \in Int
  BY DEF IsTotal, IsSum, AddsUp
<1>2. 0 \in P
  <2>1. w[0].paid = money /\ w[0].booked = << >>
    BY DEF IsWalk, Walks
  <2>2. Voids(<< >>) = << >>
    BY DEF Voids
  <2> QED BY <1>1, <2>1, <2>2, SumOfEmpty DEF Balanced
<1>3. ASSUME NEW n \in 1 .. M, n - 1 \in P PROVE n \in P
  <2>1. n - 1 \in 0 .. M /\ n \in 0 .. M /\ Balanced(w[n - 1], money - p[n - 1])
    BY <1>3
  <2>2. PICK walk \in Walk, due \in PositiveDue, rest \in Int :
           walk = w[n - 1] /\ due = dues[n] /\ rest = money - p[n - 1]
    BY <1>1, <2>1 DEF IsWalk
  <2>3. w[n] = Cover(walk, due) /\ Balanced(walk, rest)
    BY <2>1, <2>2 DEF IsWalk, Walks
  <2>4. money - p[n] = rest - due.cent /\ due.cent \in Int /\ due.cent > 0
    <3>1. p[n] = p[n - 1] + due.cent /\ p[n - 1] \in Int /\ due.cent \in Int /\ due.cent > 0
      BY <1>1, <2>1, <2>2 DEF PositiveDue, Due
    <3> QED BY <2>2, <3>1
  <2>5. PICK paid \in Int, booked \in Seq(NegativeDue) : paid = walk.paid /\ booked = walk.booked
    BY DEF Walk
  <2>6. PICK back \in Int : back = Total(Voids(booked))
    BY VoidsTyped
  <2>7. paid >= 0 /\ rest + back = paid
    BY <2>3, <2>5, <2>6 DEF Balanced
  <2>8. CASE paid >= due.cent
    <3>1. w[n].paid = paid - due.cent /\ w[n].booked = booked
      BY <2>3, <2>5, <2>8, CoveredInFull
    <3>2. w[n].paid >= 0 /\ (rest - due.cent) + back = w[n].paid
      <4>1. due.cent \in Int /\ rest \in Int /\ back \in Int /\ paid \in Int
        BY <2>4
      <4> QED BY <2>7, <2>8, <3>1, <4>1
    <3> QED BY <2>1, <2>4, <2>6, <3>1, <3>2 DEF Balanced
  <2>9. CASE paid < due.cent
    <3>1. Kept(paid) = paid
      BY <2>7 DEF Kept
    <3>2. PICK void \in NegativeDue : void = [due EXCEPT !.cent = paid - due.cent]
      BY <2>5, <2>9, <3>1, Covered
    <3>3. w[n].paid = paid - paid /\ w[n].booked = Append(booked, void)
      BY <2>3, <2>5, <2>9, <3>1, <3>2, Covered
    <3>4. void.cent = paid - due.cent
      BY <3>2 DEF PositiveDue, Due
    <3>5. Total(Voids(w[n].booked)) = back - (paid - due.cent)
      BY <2>6, <3>3, <3>4, VoidsOfOneMore
    <3>6. w[n].paid >= 0 /\ (rest - due.cent) + (back - (paid - due.cent)) = w[n].paid
      BY <2>4, <2>7, <3>3
    <3> QED BY <2>1, <2>4, <3>5, <3>6 DEF Balanced
  <2> QED BY <2>4, <2>5, <2>8, <2>9
<1> HIDE DEF P
<1>4. \A n \in 0 .. M : n \in P
  BY <1>2, <1>3, UpToInduction
<1> QED BY <1>4 DEF P

-----------------------------------------------------------------------------
(* A second cancellation. *)

LEMMA SumOfZeros ==
    ASSUME NEW N \in Nat, NEW s \in [1 .. N -> Int], \A i \in 1 .. N : s[i] = 0
    PROVE  Total(s) = 0
<1> DEFINE f == [n \in 0 .. N |-> 0]
<1>1. IsSum(f, s, N)
  BY DEF IsSum, AddsUp
<1>2. f[N] = 0
  OBVIOUS
<1> HIDE DEF f
<1> QED BY <1>1, <1>2, SumIs

LEMMA PoolTyped ==
    ASSUME NEW N \in Nat, NEW txs \in [1 .. N -> Tx]
    PROVE  /\ pool(txs) = Total(valid(txs, "payment")) + Total(refunds(txs))
           /\ Total(valid(txs, "payment")) \in Int /\ Total(refunds(txs)) \in Int
           /\ pool(txs) \in Int
<1>1. Total(valid(txs, "payment")) \in Int /\ Total(refunds(txs)) \in Int
  BY ColumnsTyped, SumTyped
<1>2. pool(txs) = Total(valid(txs, "payment")) + Total(refunds(txs))
  BY DEF pool, balances, pseudoPaymentsFromNegativeDues
<1> QED BY <1>1, <1>2

LEMMA ListIsFunction == ASSUME NEW S, NEW s \in Seq(S) PROVE s \in [1 .. Len(s) -> S]
OBVIOUS

LEMMA GoesOnWith ==
    ASSUME NEW S, NEW s \in Seq(S), NEW t \in Seq(S)
    PROVE  /\ s \o t \in [1 .. Len(s) + Len(t) -> S]
           /\ \A i \in 1 .. Len(s) : (s \o t)[i] = s[i]
           /\ \A i \in 1 .. Len(t) : (s \o t)[Len(s) + i] = t[i]
<1>1. s \o t \in [1 .. Len(s) + Len(t) -> S]
  <2>1. s \o t \in Seq(S) /\ Len(s \o t) = Len(s) + Len(t)
    OBVIOUS
  <2>2. s \o t \in [1 .. Len(s \o t) -> S]
    BY <2>1, ListIsFunction, Zenon
  <2> QED BY <2>1, <2>2, Zenon
<1>2. \A i \in 1 .. Len(s) : (s \o t)[i] = s[i]
  OBVIOUS
<1>3. \A i \in 1 .. Len(t) : (s \o t)[Len(s) + i] = t[i]
  OBVIOUS
<1> QED BY <1>1, <1>2, <1>3, Zenon

\* The list after a cancellation: the N transactions and the K voids.
IsBooked(after, txs, booked, N, K) ==
    /\ K \in Nat /\ N + K \in Nat /\ after \in [1 .. N + K -> Tx]
    /\ \A i \in 1 .. N : after[i] = txs[i]
    /\ \A i \in 1 .. K : /\ after[N + i].type = "due" /\ after[N + i].status = "valid"
                         /\ after[N + i].cent = booked[i].cent
                         /\ booked[i] \in NegativeDue

LEMMA BookedTyped ==
    ASSUME NEW N \in Nat, NEW txs \in [1 .. N -> Tx], NEW booked \in Seq(NegativeDue),
           NEW K, K = Len(booked), NEW after, after = Booked(txs, booked)
    PROVE  IsBooked(after, txs, booked, N, K)
<1> DEFINE Entry(i) == [type |-> "due", status |-> "valid",
                        vat |-> booked[i].vat, cent |-> booked[i].cent]
           rest == [i \in DOMAIN booked |-> Entry(i)]
<1>1. K \in Nat /\ DOMAIN booked = 1 .. K /\ \A i \in 1 .. K : booked[i] \in NegativeDue
  OBVIOUS
<1>2. \A i \in 1 .. K : Entry(i) \in Tx
  BY <1>1 DEF NegativeDue, Due, Tx
<1>3. rest \in [1 .. K -> Tx] /\ \A i \in 1 .. K : rest[i] = Entry(i)
  BY <1>1, <1>2
<1>4. after = txs \o rest
  BY DEF Booked
<1>5. \A i \in 1 .. K : /\ Entry(i).type = "due" /\ Entry(i).status = "valid"
                        /\ Entry(i).cent = booked[i].cent
  OBVIOUS
<1> HIDE DEF rest, Entry
<1>6. rest \in Seq(Tx) /\ Len(rest) = K /\ txs \in Seq(Tx) /\ Len(txs) = N
  BY <1>1, <1>3, ListTyped
<1>7. /\ after \in [1 .. N + K -> Tx]
      /\ \A i \in 1 .. N : after[i] = txs[i]
      /\ \A i \in 1 .. K : after[N + i] = rest[i]
  <2>1. /\ txs \o rest \in [1 .. Len(txs) + Len(rest) -> Tx]
        /\ \A i \in 1 .. Len(txs) : (txs \o rest)[i] = txs[i]
        /\ \A i \in 1 .. Len(rest) : (txs \o rest)[Len(txs) + i] = rest[i]
    <3>1. txs \in Seq(Tx) /\ rest \in Seq(Tx)
      BY <1>6
    <3> QED BY <3>1, GoesOnWith
  <2> QED BY <1>4, <1>6, <2>1, Zenon
<1>8. \A i \in 1 .. K : after[N + i] = Entry(i)
  BY <1>3, <1>7
<1>9. \A i \in 1 .. K : /\ after[N + i].type = "due" /\ after[N + i].status = "valid"
                        /\ after[N + i].cent = booked[i].cent
  BY <1>5, <1>8
<1>10. N + K \in Nat
  BY <1>1
<1> QED BY <1>1, <1>7, <1>9, <1>10 DEF IsBooked

\* What is voided joins the pool, and the dues to be covered stay the same.
LEMMA PoolAfterwards ==
    ASSUME NEW N \in Nat, NEW txs \in [1 .. N -> Tx], NEW booked \in Seq(NegativeDue),
           NEW after, after = Booked(txs, booked)
    PROVE  positiveDues(after) = positiveDues(txs) /\ pool(after) = pool(txs) + Total(Voids(booked))
<1>1. PICK K : K = Len(booked)
  OBVIOUS
<1>2. /\ K \in Nat /\ N + K \in Nat /\ after \in [1 .. N + K -> Tx]
      /\ \A i \in 1 .. N : after[i] = txs[i]
      /\ \A i \in 1 .. K : /\ after[N + i].type = "due" /\ after[N + i].status = "valid"
                           /\ after[N + i].cent = booked[i].cent
                           /\ booked[i] \in NegativeDue
  <2>1. IsBooked(after, txs, booked, N, K)
    BY <1>1, BookedTyped
  <2> QED BY <2>1 DEF IsBooked
<1>3. DOMAIN after = 1 .. N + K /\ DOMAIN txs = 1 .. N /\ DOMAIN booked = 1 .. K
  BY <1>1, <1>2
<1>4. \A i \in 1 .. K : booked[i].cent \in Int /\ booked[i].cent < 0
  BY <1>2 DEF NegativeDue, Due
<1>5. positiveDues(after) = positiveDues(txs)
  <2>1. ASSUME NEW i \in 1 .. K PROVE ~IsPositive(after[N + i])
    <3>1. after[N + i].cent = booked[i].cent /\ booked[i].cent \in Int /\ booked[i].cent < 0
      BY <1>2, <1>4
    <3> QED BY <3>1 DEF IsPositive
  <2> QED BY <1>2, <2>1, PositiveDuesOfBoth
<1>6. Total(valid(after, "payment")) = Total(valid(txs, "payment"))
  <2> DEFINE none == [i \in 1 .. K |-> 0]
  <2>1. none \in [1 .. K -> Int] /\ \A i \in 1 .. K : none[i] = 0
    OBVIOUS
  <2> HIDE DEF none
  <2>2. valid(after, "payment") \in [1 .. N + K -> Int] /\ valid(txs, "payment") \in [1 .. N -> Int]
    BY <1>2, ColumnsTyped
  <2>3. \A i \in 1 .. N : valid(after, "payment")[i] = valid(txs, "payment")[i]
    BY <1>2, <1>3 DEF valid
  <2>4. \A i \in 1 .. K : valid(after, "payment")[N + i] = none[i]
    BY <1>2, <1>3, <2>1 DEF valid, IsValid
  <2>5. Total(valid(after, "payment")) = Total(valid(txs, "payment")) + Total(none)
    BY <1>2, <2>1, <2>2, <2>3, <2>4, SumOfBoth
  <2>6. Total(none) = 0 /\ Total(valid(txs, "payment")) \in Int
    BY <1>2, <2>1, <2>2, SumOfZeros, SumTyped
  <2> QED BY <2>5, <2>6
<1>7. Total(refunds(after)) = Total(refunds(txs)) + Total(Voids(booked))
  <2>1. refunds(after) \in [1 .. N + K -> Int] /\ refunds(txs) \in [1 .. N -> Int]
    BY <1>2, ColumnsTyped
  <2>2. Voids(booked) \in [1 .. K -> Int]
    BY <1>1, VoidsTyped
  <2>3. ASSUME NEW i \in 1 .. N PROVE refunds(after)[i] = refunds(txs)[i]
    <3>1. after[i] = txs[i] /\ i \in DOMAIN after /\ i \in DOMAIN txs
      BY <1>2, <1>3
    <3> QED BY <3>1, Zenon DEF refunds
  <2>4. ASSUME NEW i \in 1 .. K PROVE refunds(after)[N + i] = Voids(booked)[i]
    BY <1>2, <1>3, <1>4 DEF refunds, Voids, IsValid
  <2> QED BY <1>2, <2>1, <2>2, <2>3, <2>4, SumOfBoth
<1>8. /\ pool(after) = Total(valid(after, "payment")) + Total(refunds(after))
      /\ pool(txs) = Total(valid(txs, "payment")) + Total(refunds(txs))
      /\ Total(valid(txs, "payment")) \in Int /\ Total(refunds(txs)) \in Int
  BY <1>2, PoolTyped
<1>9. Total(Voids(booked)) \in Int
  BY VoidsTyped
<1> QED BY <1>5, <1>6, <1>7, <1>8, <1>9

LEMMA SecondCancelBooksNothing ==
    ASSUME NEW txs \in Seq(Transaction), pool(txs) >= 0
    PROVE  compensateUnpaidDuesOnCancel(Booked(txs, compensateUnpaidDuesOnCancel(txs))) = << >>
<1>1. PICK N \in Nat : N = Len(txs) /\ txs \in [1 .. N -> Tx]
  BY ListIsTyped
<1>2. PICK money \in Nat : money = pool(txs)
  BY <1>1, PoolTyped
<1>3. PICK dues \in Seq(PositiveDue) : dues = positiveDues(txs)
  BY <1>1, PositiveDuesTyped
<1>4. PICK M \in Nat : M = Len(dues) /\ dues \in [1 .. M -> PositiveDue]
  OBVIOUS
<1>5. PICK w : IsWalk(w, dues, money, M) /\ compensateUnpaidDuesOnCancel(txs) = w[M].booked
  BY <1>2, <1>3, <1>4, CancelWalks
<1>6. PICK booked \in Seq(NegativeDue) : booked = w[M].booked
  <2>1. w[M] \in Walk
    BY <1>4, <1>5 DEF IsWalk
  <2> QED BY <2>1 DEF Walk
<1>7. PICK after : after = Booked(txs, booked)
  OBVIOUS
<1>8. PICK p : IsTotal(p, dues, M)
  BY <1>4, TotalsExist
<1>9. PICK back \in Int, total \in Int : back = Total(Voids(booked)) /\ total = p[M]
  BY <1>8, VoidsTyped DEF IsTotal, IsSum
<1>10. (money - total) + back >= 0
  <2>1. \A n \in 0 .. M : Balanced(w[n], money - p[n])
    BY <1>4, <1>5, <1>8, WalkBalances
  <2>2. Balanced(w[M], money - total)
    BY <1>4, <1>9, <2>1
  <2> QED BY <1>6, <1>9, <2>2 DEF Balanced
<1>11. positiveDues(after) = dues /\ pool(after) = money + back /\ pool(after) \in Int
  BY <1>1, <1>2, <1>3, <1>7, <1>9, PoolAfterwards
<1>12. PICK v : /\ IsWalk(v, dues, pool(after), M)
                /\ compensateUnpaidDuesOnCancel(after) = v[M].booked
  BY <1>3, <1>4, <1>11, CancelWalks
<1>13. FillsFirst(v[M], pool(after) - p[M])
  <2>1. \A n \in 0 .. M : FillsFirst(v[n], pool(after) - p[n])
    BY <1>4, <1>8, <1>11, <1>12, WalkFillsFirst
  <2> QED BY <1>4, <2>1
<1>14. pool(after) - p[M] >= 0
  BY <1>9, <1>10, <1>11
<1>15. compensateUnpaidDuesOnCancel(after) = << >>
  BY <1>12, <1>13, <1>14 DEF FillsFirst
<1> QED BY <1>5, <1>6, <1>7, <1>15

\* Whatever was booked, paid and refunded before, as long as the payments and the dues
\* given back are not outweighed by refunds: what a cancellation books leaves nothing
\* for another one to book (compensateUnpaidDuesOnCancel runs again on every update
\* of an attendee who is cancelled).
THEOREM CancelTwiceHolds == Spec => []CancelTwiceBooksNothing
<1>1. Agreed => CancelTwiceBooksNothing
  BY SecondCancelBooksNothing DEF Agreed, TypeOK, CancelTwiceBooksNothing
<1> QED BY <1>1, AlwaysAgreed, PTL

-----------------------------------------------------------------------------
(* The earliest dues are filled first. *)

\* A loop that appends e[n] when n is among those chosen.
Keeps(g, chosen, e, M) ==
    /\ g[0] = << >>
    /\ \A n \in 1 .. M : g[n] = IF n \in chosen THEN Append(g[n - 1], e[n]) ELSE g[n - 1]

Upto(chosen, n) == {j \in chosen : j <= n}

\* The list holds the entries of those chosen, in order.
Holds(list, chosen, e, n) ==
    /\ Len(list) = Cardinality(Upto(chosen, n))
    /\ \A i \in chosen : i <= n => list[Cardinality(Upto(chosen, i))] = e[i]

CountsOn(chosen, n) ==
    /\ Cardinality(Upto(chosen, n - 1)) \in Nat
    /\ n \in chosen => Cardinality(Upto(chosen, n)) = Cardinality(Upto(chosen, n - 1)) + 1
    /\ n \notin chosen => Cardinality(Upto(chosen, n)) = Cardinality(Upto(chosen, n - 1))

LEMMA UptoOneMore ==
    ASSUME NEW M \in Nat, NEW chosen \in SUBSET (1 .. M), NEW n \in 1 .. M
    PROVE  CountsOn(chosen, n)
<1>0. \A j \in chosen : j \in Int
  OBVIOUS
<1>1. IsFiniteSet(1 .. M)
  BY FS_Interval
<1>2. Upto(chosen, n - 1) \in SUBSET (1 .. M)
  BY DEF Upto
<1>3. IsFiniteSet(Upto(chosen, n - 1)) /\ Cardinality(Upto(chosen, n - 1)) \in Nat
  BY <1>1, <1>2, FS_Subset, FS_CardinalityType
<1>4. CASE n \in chosen
  <2>1. \A j \in chosen : j <= n <=> j <= n - 1 \/ j = n
    BY <1>0
  <2>2. ~(n <= n - 1)
    OBVIOUS
  <2>3. Upto(chosen, n) = Upto(chosen, n - 1) \cup {n} /\ n \notin Upto(chosen, n - 1)
    BY <1>4, <2>1, <2>2 DEF Upto
  <2> QED BY <1>3, <1>4, <2>3, FS_AddElement DEF CountsOn
<1>5. CASE n \notin chosen
  <2>1. \A j \in chosen : j <= n <=> j <= n - 1
    BY <1>0, <1>5
  <2>2. Upto(chosen, n) = Upto(chosen, n - 1)
    BY <2>1 DEF Upto
  <2> QED BY <1>3, <1>5, <2>2 DEF CountsOn
<1> QED BY <1>4, <1>5

LEMMA UptoGrows ==
    ASSUME NEW M \in Nat, NEW chosen \in SUBSET (1 .. M), NEW n \in 0 .. M, NEW i \in chosen, i <= n
    PROVE  Cardinality(Upto(chosen, i)) \in 1 .. Cardinality(Upto(chosen, n))
<1>1. IsFiniteSet(1 .. M)
  BY FS_Interval
<1>2. /\ Upto(chosen, n) \in SUBSET (1 .. M) /\ Upto(chosen, i) \in SUBSET Upto(chosen, n)
      /\ i \in Upto(chosen, i)
  <2>1. i \in Int /\ i <= i /\ \A j \in chosen : j \in Int /\ (j <= i => j <= n)
    OBVIOUS
  <2> QED BY <2>1 DEF Upto
<1>3. IsFiniteSet(Upto(chosen, n))
  BY <1>1, <1>2, FS_Subset
<1>4. /\ IsFiniteSet(Upto(chosen, i))
      /\ Cardinality(Upto(chosen, i)) <= Cardinality(Upto(chosen, n))
  BY <1>2, <1>3, FS_Subset
<1>5. Cardinality(Upto(chosen, i)) # 0
  BY <1>2, <1>4, FS_EmptySet
<1>6. Cardinality(Upto(chosen, i)) \in Nat /\ Cardinality(Upto(chosen, n)) \in Nat
  BY <1>3, <1>4, FS_CardinalityType
<1> QED BY <1>4, <1>5, <1>6

LEMMA KeptInOrder ==
    ASSUME NEW M \in Nat, NEW chosen \in SUBSET (1 .. M), NEW S, NEW e,
           NEW g \in [0 .. M -> Seq(S)], Keeps(g, chosen, e, M),
           \A n \in chosen : e[n] \in S
    PROVE  \A n \in 0 .. M : Holds(g[n], chosen, e, n)
<1> DEFINE P == {n \in 0 .. M : Holds(g[n], chosen, e, n)}
<1>1. 0 \in P
  <2>1. \A i \in chosen : ~(i <= 0)
    OBVIOUS
  <2>2. Cardinality(Upto(chosen, 0)) = 0
    <3>1. Upto(chosen, 0) = {}
      BY <2>1 DEF Upto
    <3> QED BY <3>1, FS_EmptySet
  <2> QED BY <2>1, <2>2 DEF Holds, Keeps
<1>2. ASSUME NEW n \in 1 .. M, n - 1 \in P PROVE n \in P
  <2>0. CountsOn(chosen, n)
    BY UptoOneMore
  <2>1. n - 1 \in 0 .. M /\ n \in 0 .. M /\ Holds(g[n - 1], chosen, e, n - 1)
    BY <1>2
  <2>2. PICK list \in Seq(S) : list = g[n - 1]
    BY <2>1
  <2>3. PICK k \in Nat : k = Cardinality(Upto(chosen, n - 1)) /\ Len(list) = k
    BY <2>0, <2>1, <2>2 DEF CountsOn, Holds
  <2>4. \A i \in chosen : i <= n - 1 =>
          /\ Cardinality(Upto(chosen, i)) \in 1 .. k
          /\ list[Cardinality(Upto(chosen, i))] = e[i]
    BY <2>1, <2>2, <2>3, UptoGrows DEF Holds
  <2>5. CASE n \in chosen
    <3>1. PICK x \in S : x = e[n]
      BY <2>5
    <3>2. g[n] = Append(list, x)
      BY <2>2, <2>5, <3>1 DEF Keeps
    <3>3. Cardinality(Upto(chosen, n)) = k + 1
      BY <2>0, <2>3, <2>5 DEF CountsOn
    <3>4. /\ Len(g[n]) = k + 1 /\ g[n][k + 1] = x
          /\ \A j \in 1 .. k : g[n][j] = list[j]
      BY <2>3, <3>2
    <3>5. ASSUME NEW i \in chosen, i <= n PROVE g[n][Cardinality(Upto(chosen, i))] = e[i]
      <4>1. CASE i = n
        BY <3>1, <3>3, <3>4, <4>1
      <4>2. CASE i # n
        <5>1. i <= n - 1
          BY <3>5, <4>2
        <5> QED BY <2>4, <3>4, <5>1
      <4> QED BY <4>1, <4>2
    <3> QED BY <2>1, <3>3, <3>4, <3>5 DEF Holds
  <2>6. CASE n \notin chosen
    <3>1. g[n] = list
      BY <2>2, <2>6 DEF Keeps
    <3>2. Cardinality(Upto(chosen, n)) = k
      BY <2>0, <2>3, <2>6 DEF CountsOn
    <3>3. \A i \in chosen : i <= n => i <= n - 1
      BY <2>6
    <3> QED BY <2>1, <2>3, <2>4, <3>1, <3>2, <3>3 DEF Holds
  <2> QED BY <2>5, <2>6
<1> HIDE DEF P
<1>3. \A n \in 0 .. M : n \in P
  BY <1>1, <1>2, UpToInduction
<1> QED BY <1>3 DEF P

\* A due is voided, up to what is kept, when the rest of the money is less.
VoidFits(dues, i, money, rest) ==
    /\ rest \in Int /\ dues[i].cent \in Int /\ dues[i].cent > 0
    /\ Void(dues, i, money) # 0 <=> rest < dues[i].cent
    /\ rest < dues[i].cent => Void(dues, i, money) = Kept(rest) - dues[i].cent

LEMMA VoidIs ==
    ASSUME NEW M \in Nat, NEW dues \in Seq(PositiveDue), M = Len(dues), NEW money \in Int,
           NEW p, IsTotal(p, dues, M), NEW i \in 1 .. M
    PROVE  VoidFits(dues, i, money, money - p[i - 1])
<1>1. /\ dues \in [1 .. M -> PositiveDue]
      /\ \A j \in 1 .. M : dues[j] \in PositiveDue
  OBVIOUS
<1>2. \A j \in 1 .. M : dues[j].cent \in Int /\ dues[j].cent > 0
  BY <1>1 DEF PositiveDue, Due
<1>3. PICK cents : cents = [j \in 1 .. M |-> dues[j].cent]
  OBVIOUS
<1>4. IsSum(p, cents, M) /\ cents \in [1 .. M -> Int]
  BY <1>2, <1>3 DEF IsTotal
<1>5. PICK before : before = [j \in 1 .. i - 1 |-> dues[j].cent]
  OBVIOUS
<1>6. /\ i - 1 \in 0 .. M /\ before \in [1 .. i - 1 -> Int]
      /\ \A j \in 1 .. i - 1 : before[j] = cents[j]
  BY <1>2, <1>3, <1>5
<1>7. Total(before) = p[i - 1]
  BY <1>4, <1>6, SumOfFirst
<1>8. p[i - 1] \in Int
  BY <1>4, <1>6 DEF IsSum
<1>9. PICK rest \in Int, cent \in Int : rest = money - p[i - 1] /\ cent = dues[i].cent /\ cent > 0
  BY <1>2, <1>8
<1>10. Filled(dues, i, money) = IF rest <= 0 THEN 0 ELSE IF rest < cent THEN rest ELSE cent
  BY <1>5, <1>7, <1>9 DEF Filled
<1>11. /\ Void(dues, i, money) # 0 <=> rest < cent
       /\ rest < cent => Void(dues, i, money) = Kept(rest) - cent
  <2>1. Void(dues, i, money) = (IF rest <= 0 THEN 0 ELSE IF rest < cent THEN rest ELSE cent) - cent
    BY <1>9, <1>10 DEF Void
  <2> QED BY <1>9, <2>1 DEF Kept
<1> QED BY <1>9, <1>11 DEF VoidFits

\* The walk voids what is open, and of that what is not filled.
LEMMA WalkVoids ==
    ASSUME NEW M \in Nat, NEW dues \in Seq(PositiveDue), M = Len(dues), NEW money \in Int,
           NEW w, IsWalk(w, dues, money, M), NEW n \in 1 .. M
    PROVE  w[n].booked =
             IF Void(dues, n, money) # 0
             THEN Append(w[n - 1].booked, [dues[n] EXCEPT !.cent = Void(dues, n, money)])
             ELSE w[n - 1].booked
<1>1. dues \in [1 .. M -> PositiveDue]
  OBVIOUS
<1>2. PICK p : IsTotal(p, dues, M)
  BY <1>1, TotalsExist
<1>3. PICK due \in PositiveDue, walk \in Walk : due = dues[n] /\ walk = w[n - 1]
  BY <1>1 DEF IsWalk
<1>4. PICK rest \in Int : rest = money - p[n - 1] /\ VoidFits(dues, n, money, rest)
  <2>1. VoidFits(dues, n, money, money - p[n - 1])
    BY <1>2, VoidIs
  <2> QED BY <2>1 DEF VoidFits
<1>5. PICK void : void = Void(dues, n, money)
  OBVIOUS
<1>6. /\ due.cent \in Int /\ due.cent > 0
      /\ void # 0 <=> rest < due.cent
      /\ rest < due.cent => void = Kept(rest) - due.cent
  BY <1>3, <1>4, <1>5 DEF VoidFits
<1>7. FillsFirst(walk, rest)
  <2>1. \A k \in 0 .. M : FillsFirst(w[k], money - p[k])
    BY <1>1, <1>2, WalkFillsFirst
  <2> QED BY <1>3, <1>4, <2>1
<1>8. w[n] = Cover(walk, due)
  BY <1>3 DEF IsWalk, Walks
<1>9. walk.paid \in Int
  BY DEF Walk
<1>10. CASE walk.paid >= due.cent
  <2>1. w[n].booked = walk.booked
    BY <1>8, <1>10, CoveredInFull
  <2>2. ~(rest < due.cent)
    BY <1>6, <1>7, <1>9, <1>10 DEF FillsFirst
  <2> QED BY <1>3, <1>5, <1>6, <2>1, <2>2
<1>11. CASE walk.paid < due.cent
  <2>1. w[n].booked = Append(walk.booked, [due EXCEPT !.cent = Kept(walk.paid) - due.cent])
    BY <1>8, <1>11, Covered
  <2>2. rest < due.cent /\ Kept(walk.paid) = Kept(rest)
    BY <1>6, <1>7, <1>9, <1>11 DEF FillsFirst, Kept
  <2> QED BY <1>3, <1>5, <1>6, <2>1, <2>2
<1> QED BY <1>6, <1>9, <1>10, <1>11

LEMMA VoidIsNegative ==
    ASSUME NEW M \in Nat, NEW dues \in Seq(PositiveDue), M = Len(dues), NEW money \in Int,
           NEW i \in 1 .. M, Void(dues, i, money) # 0
    PROVE  [dues[i] EXCEPT !.cent = Void(dues, i, money)] \in NegativeDue
<1>1. dues \in [1 .. M -> PositiveDue]
  OBVIOUS
<1>2. PICK p : IsTotal(p, dues, M)
  BY <1>1, TotalsExist
<1>3. PICK rest \in Int : VoidFits(dues, i, money, rest)
  <2>1. VoidFits(dues, i, money, money - p[i - 1])
    BY <1>2, VoidIs
  <2> QED BY <2>1 DEF VoidFits
<1>4. PICK due \in PositiveDue : due = dues[i]
  BY <1>1
<1>5. Void(dues, i, money) = Kept(rest) - due.cent /\ rest < due.cent
  BY <1>3, <1>4 DEF VoidFits
<1>6. due.cent \in Int /\ due.cent > 0 /\ due.vat \in VATs
  BY DEF PositiveDue, Due
<1>7. PICK void \in Int : void = Void(dues, i, money) /\ void < 0
  BY <1>5, <1>6 DEF Kept
<1>8. [due EXCEPT !.cent = void] \in NegativeDue
  BY <1>7 DEF PositiveDue, NegativeDue, Due
<1> QED BY <1>4, <1>7, <1>8

\* What is booked are the voids of the dues that are open, in order.
VoidsOpen(booked, dues, open, money) ==
    /\ Len(booked) = Cardinality(open)
    /\ \A i \in open :
         booked[Cardinality({j \in open : j <= i})] = [dues[i] EXCEPT !.cent = Void(dues, i, money)]

LEMMA WalkEnds ==
    ASSUME NEW M \in Nat, NEW dues \in Seq(PositiveDue), M = Len(dues), NEW money \in Int,
           NEW w, IsWalk(w, dues, money, M), NEW booked, booked = w[M].booked,
           NEW open, open = {i \in 1 .. M : Void(dues, i, money) # 0}
    PROVE  VoidsOpen(booked, dues, open, money)
<1>1. open \in SUBSET (1 .. M)
  OBVIOUS
<1>2. PICK g : g = [n \in 0 .. M |-> w[n].booked]
  OBVIOUS
<1>3. g \in [0 .. M -> Seq(NegativeDue)]
  <2>1. \A n \in 0 .. M : w[n].booked \in Seq(NegativeDue)
    BY DEF IsWalk, Walk
  <2> QED BY <1>2, <2>1
<1>4. PICK e : e = [i \in 1 .. M |-> [dues[i] EXCEPT !.cent = Void(dues, i, money)]]
  OBVIOUS
<1>5. ASSUME NEW n \in open PROVE e[n] \in NegativeDue
  <2>1. n \in 1 .. M /\ Void(dues, n, money) # 0
    OBVIOUS
  <2> QED BY <1>4, <2>1, VoidIsNegative
<1>6. Keeps(g, open, e, M)
  <2>1. g[0] = << >>
    BY <1>2 DEF IsWalk, Walks
  <2>2. ASSUME NEW n \in 1 .. M
        PROVE  g[n] = IF n \in open THEN Append(g[n - 1], e[n]) ELSE g[n - 1]
    <3>1. n - 1 \in 0 .. M /\ n \in 0 .. M /\ (n \in open <=> Void(dues, n, money) # 0)
      OBVIOUS
    <3>2. w[n].booked =
            IF Void(dues, n, money) # 0
            THEN Append(w[n - 1].booked, [dues[n] EXCEPT !.cent = Void(dues, n, money)])
            ELSE w[n - 1].booked
      BY WalkVoids
    <3> QED BY <1>2, <1>4, <3>1, <3>2
  <2> QED BY <2>1, <2>2 DEF Keeps
<1>7. Holds(g[M], open, e, M)
  <2>1. \A n \in 0 .. M : Holds(g[n], open, e, n)
    BY <1>1, <1>3, <1>5, <1>6, KeptInOrder
  <2>2. M \in 0 .. M
    OBVIOUS
  <2> QED BY <2>1, <2>2, Zenon
<1>8. g[M] = booked
  BY <1>2
<1>9. Upto(open, M) = open
  <2>1. \A j \in open : j <= M
    BY <1>1
  <2> QED BY <2>1 DEF Upto
<1>10. Len(booked) = Cardinality(open)
  BY <1>7, <1>8, <1>9 DEF Holds
<1>11. ASSUME NEW i \in open
       PROVE  booked[Cardinality({j \in open : j <= i})] =
                [dues[i] EXCEPT !.cent = Void(dues, i, money)]
  <2>1. i \in 1 .. M /\ i <= M
    BY <1>1
  <2>2. booked[Cardinality(Upto(open, i))] = e[i]
    BY <1>7, <1>8, <2>1 DEF Holds
  <2> QED BY <1>4, <2>1, <2>2 DEF Upto
<1> QED BY <1>10, <1>11 DEF VoidsOpen

OpenAt(dues, money) == {i \in DOMAIN dues : Void(dues, i, money) # 0}

LEMMA CancelFillsFirst ==
    ASSUME NEW txs \in Seq(Transaction), NEW money, money = pool(txs),
           NEW dues, dues = positiveDues(txs)
    PROVE  VoidsOpen(compensateUnpaidDuesOnCancel(txs), dues, OpenAt(dues, money), money)
<1>1. PICK N \in Nat : N = Len(txs) /\ txs \in [1 .. N -> Tx]
  BY ListIsTyped
<1>2. dues \in Seq(PositiveDue)
  BY <1>1, PositiveDuesTyped
<1>3. money \in Int
  BY <1>1, PoolTyped
<1>4. PICK M \in Nat : M = Len(dues) /\ DOMAIN dues = 1 .. M
  OBVIOUS
<1>5. PICK w : IsWalk(w, dues, money, M) /\ compensateUnpaidDuesOnCancel(txs) = w[M].booked
  BY <1>2, <1>3, <1>4, CancelWalks
<1>6. PICK booked : booked = w[M].booked
  OBVIOUS
<1>7. PICK open : open = OpenAt(dues, money) /\ open = {i \in 1 .. M : Void(dues, i, money) # 0}
  BY <1>4 DEF OpenAt
<1>8. VoidsOpen(booked, dues, open, money)
  BY <1>2, <1>3, <1>4, <1>5, <1>6, <1>7, WalkEnds
<1> QED BY <1>5, <1>6, <1>7, <1>8

\* Of every positive due a cancellation leaves what the money still covers after the
\* earlier ones, and it voids the rest, due by due in the order they were booked.
THEOREM EarliestDuesHold == Spec => []EarliestDuesFilledFirst
<1>1. ASSUME Agreed PROVE EarliestDuesFilledFirst
  <2>1. transactions \in Seq(Transaction)
    BY <1>1 DEF Agreed, TypeOK
  <2>2. pool(transactions) = account.paid + account.negative
    BY <1>1 DEF Agreed, Summary, pool
  <2>3. VoidsOpen(compensateUnpaidDuesOnCancel(transactions), positiveDues(transactions),
                  OpenAt(positiveDues(transactions), account.paid + account.negative),
                  account.paid + account.negative)
    BY <2>1, <2>2, CancelFillsFirst
  <2> QED BY <2>3, Zenon DEF EarliestDuesFilledFirst, VoidsOpen, OpenAt
<1> QED BY <1>1, AlwaysAgreed, PTL
=============================================================================
