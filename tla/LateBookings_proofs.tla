------------------------ MODULE LateBookings_proofs ------------------------
(***************************************************************************)
(* Proofs about LateBookings, for any attendees, packages, tax rates and   *)
(* amounts, and any number of bookings given up and booked late.           *)
(***************************************************************************)
EXTENDS LateBookings, StatusDues_proofs, LoopLemmas

-----------------------------------------------------------------------------
(***************************************************************************)
(* What a request in progress knows of its attendee, when these bookings   *)
(* came late since it read the dues: as in SerialInv, but for the dues,    *)
(* which are off by them; and as to the sum of the dues, nothing unless    *)
(* there were none.                                                        *)
(***************************************************************************)
OffBy(acc, desired, list) == \A v \in VATs : acc.dues[v] = desired[v] + LateIn(list, v)

\* The walk of a cancellation, as in Walk.
WalkKnown(r, acc) ==
    \E rest \in Int :
        /\ SumsTo(r.void, rest)
        /\ acc.total - rest = r.seen - r.pool
        /\ r.pool >= 0 \/ r.pool >= r.seen

WalkFits(r, acc, unknown) == unknown = << >> => WalkKnown(r, acc)

SumKnown(r, acc) ==
    /\ r.pc = "record" /\ r.new \in ByBalance => r.new = StatusForBalance(acc.total, r.seen)
    /\ r.pc = "record" /\ r.new = "cancelled" => acc.total <= Max0(r.seen)
    /\ r.pc = "void" => WalkKnown(r, acc)

Known(r, st, pkg, acc, unknown) ==
    /\ r.pkg = pkg
    /\ r.pc \in {"allow", "desk", "check", "dues", "book", "void", "balance", "record"} => r.old = st
    /\ r.pc = "void" => r.new = "cancelled" /\ r.void # << >>
    /\ r.pc = "balance" => r.new \in ByBalance
    /\ r.pc = "book" =>
          /\ r.new # "cancelled"
          /\ \A v \in VATs :
               acc.dues[v] + r.diff[v] = DesiredDues(r.new, pkg)[v] + LateIn(unknown, v)
    /\ r.pc \in {"balance", "record"} /\ r.new # "cancelled" =>
          OffBy(acc, DesiredDues(r.new, pkg), unknown)
    /\ unknown = << >> => SumKnown(r, acc)

\* What holds of an attendee once a request has been concluded that did not know of
\* these late bookings.
Stands(st, pkg, acc, bas, list) ==
    /\ st # "cancelled" => OffBy(acc, DesiredDues(st, pkg), list)
    /\ list = << >> /\ st \in ByBalance => st = StatusForBalance(acc.total, bas)
    /\ list = << >> /\ st = "cancelled" => acc.total <= Max0(bas)

\* The bookings that came late since dues were last read for a request on a.
UnknownOf(list, n) == SubSeq(list, Len(list) - n + 1, Len(list))
Unknown(a) == UnknownOf(arrived[a], since[a])

Handles(w, a) == Busy(w) /\ req[w].att = a

KnownAt(w, a) == Known(req[w], status[a], packages[a], account[a], Unknown(a))
StandsAt(a) == settled[a] => Stands(status[a], packages[a], account[a], basis[a], arrived[a])

HoldsAt(a) ==
    /\ \A w \in Workers : Handles(w, a) => KnownAt(w, a)
    /\ StandsAt(a)
    /\ Adds(account[a])

LateInv ==
    /\ LateTypeOK
    /\ OneRequestEach
    /\ \A a \in Attendees : HoldsAt(a)

-----------------------------------------------------------------------------
(* What late bookings add up to. *)

Amounts(list, v) == [i \in DOMAIN list |-> IF list[i].vat = v THEN list[i].cent ELSE 0]

LEMMA AmountsTyped ==
    ASSUME NEW list \in Seq(Due), NEW v
    PROVE  Len(list) \in Nat /\ Amounts(list, v) \in [1 .. Len(list) -> Int]
<1>1. DOMAIN list = 1 .. Len(list) /\ Len(list) \in Nat
  OBVIOUS
<1>2. \A i \in DOMAIN list : list[i] \in Due
  OBVIOUS
<1>3. \A i \in DOMAIN list : list[i].cent \in Int
  BY <1>2 DEF Due
<1> QED BY <1>1, <1>3 DEF Amounts

LEMMA LateInIs == \A list, v : LateIn(list, v) = Total(Amounts(list, v))
BY DEF LateIn, Amounts

LEMMA LateInTyped ==
    ASSUME NEW list \in Seq(Due), NEW v
    PROVE  LateIn(list, v) \in Int
BY AmountsTyped, SumTyped, LateInIs

\* Nothing came late, so dues are off by nothing.
LEMMA LateInNone ==
    ASSUME NEW v
    PROVE  LateIn(<< >>, v) = 0
<1>1. Amounts(<< >>, v) = << >>
  BY DEF Amounts
<1> QED BY <1>1, SumOfEmpty, LateInIs

\* One more late booking counts at its rate.
LEMMA LateInMore ==
    ASSUME NEW list \in Seq(Due), NEW tx \in Due, NEW v
    PROVE  LateIn(Append(list, tx), v) = LateIn(list, v) + (IF tx.vat = v THEN tx.cent ELSE 0)
<1> DEFINE N == Len(list)
           more == Append(list, tx)
<1>1. /\ N \in Nat /\ more \in Seq(Due) /\ Len(more) = N + 1 /\ more[N + 1] = tx
      /\ \A i \in 1 .. N : more[i] = list[i]
      /\ DOMAIN list = 1 .. N /\ DOMAIN more = 1 .. N + 1 /\ N + 1 \in 1 .. N + 1
  OBVIOUS
<1> HIDE DEF N, more
<1>2. Amounts(list, v) \in [1 .. N -> Int] /\ Amounts(more, v) \in [1 .. N + 1 -> Int]
  BY <1>1, AmountsTyped DEF N
<1>3. \A i \in 1 .. N : Amounts(more, v)[i] = Amounts(list, v)[i]
  <2> TAKE i \in 1 .. N
  <2>1. i \in 1 .. N + 1
    BY <1>1
  <2> QED BY <1>1, <2>1 DEF Amounts
<1>4. Amounts(more, v)[N + 1] = IF tx.vat = v THEN tx.cent ELSE 0
  BY <1>1 DEF Amounts
<1>5. Total(Amounts(more, v)) = Total(Amounts(list, v)) + Amounts(more, v)[N + 1]
  BY <1>1, <1>2, <1>3, SumOfOneMore
<1> QED BY <1>4, <1>5, LateInIs DEF more

\* The bookings since the dues were read: none when they are read, and one more with
\* each that comes; to the request that is concluded they are all.
LEMMA UnknownIs ==
    ASSUME NEW list \in Seq(Due), NEW n \in 0 .. Len(list)
    PROVE  /\ UnknownOf(list, n) \in Seq(Due) /\ Len(UnknownOf(list, n)) = n
           /\ n = 0 => UnknownOf(list, n) = << >>
           /\ list = << >> => UnknownOf(list, n) = << >>
           /\ UnknownOf(UnknownOf(list, n), n) = UnknownOf(list, n)
BY DEF UnknownOf

LEMMA UnknownMore ==
    ASSUME NEW list \in Seq(Due), NEW n \in 0 .. Len(list), NEW tx \in Due
    PROVE  UnknownOf(Append(list, tx), n + 1) = Append(UnknownOf(list, n), tx)
BY DEF UnknownOf

-----------------------------------------------------------------------------
(* What a request knows after each access, given what it knew before. *)

\* Before the dues are read, and after the status is recorded.
LEMMA KnownEarly ==
    ASSUME NEW r, NEW st, NEW pkg, NEW acc, NEW unknown, r.pkg = pkg,
           \/ r.pc \in {"write", "latest", "mail", "idle"}
           \/ r.pc \in {"allow", "desk", "check", "dues"} /\ r.old = st
    PROVE  Known(r, st, pkg, acc, unknown)
BY DEF Known, SumKnown

\* The adjustments computed, or one of them booked.
LEMMA KnownAdjusting ==
    ASSUME NEW r \in Request, NEW acc \in AccountType, NEW unknown \in Seq(Due),
           r.pc \in {"dues", "book"}, r.new # "cancelled",
           \A v \in VATs :
               acc.dues[v] + r.diff[v] = DesiredDues(r.new, r.pkg)[v] + LateIn(unknown, v)
    PROVE  /\ Adjusting(r).att = r.att
           /\ Known(Adjusting(r), r.old, r.pkg, acc, unknown)
<1> DEFINE n == Adjusting(r)
<1>1. /\ n.att = r.att /\ n.pkg = r.pkg /\ n.old = r.old /\ n.new = r.new /\ n.diff = r.diff
      /\ n.pc \in {"book", "balance", "record"}
      /\ n.pc = "balance" => r.new \in ByBalance
      /\ n.pc = "record" => r.new \notin ByBalance
      /\ n.pc # "book" => r.diff = NoDues
  BY DEF Adjusting, Request
<1> HIDE DEF n
<1>2. ASSUME n.pc # "book"
      PROVE  OffBy(acc, DesiredDues(r.new, r.pkg), unknown)
  <2> SUFFICES ASSUME NEW v \in VATs
               PROVE  acc.dues[v] = DesiredDues(r.new, r.pkg)[v] + LateIn(unknown, v)
    BY DEF OffBy
  <2>1. r.diff[v] = 0
    BY <1>1, <1>2 DEF NoDues
  <2>2. acc.dues[v] \in Int
    BY DEF AccountType
  <2>3. acc.dues[v] + r.diff[v] = acc.dues[v]
    BY <2>1, <2>2
  <2> QED BY <2>3
<1>3. SumKnown(n, acc)
  BY <1>1 DEF SumKnown
<1>4. Known(n, r.old, r.pkg, acc, unknown)
  BY <1>1, <1>2, <1>3 DEF Known
<1> QED BY <1>1, <1>4 DEF n

\* The walk begun, or gone on.
LEMMA KnownVoiding ==
    ASSUME NEW r \in Request, NEW acc \in AccountType, NEW unknown,
           r.pc \in {"dues", "void"}, r.new = "cancelled",
           WalkFits(r, acc, unknown)
    PROVE  /\ Voiding(r).att = r.att
           /\ Known(Voiding(r), r.old, r.pkg, acc, unknown)
<1> DEFINE n == Voiding(r)
<1>1. /\ n.pc = IF r.void # << >> THEN "void" ELSE "record"
      /\ n.att = r.att /\ n.pkg = r.pkg /\ n.old = r.old /\ n.new = r.new
      /\ n.void = r.void /\ n.pool = r.pool /\ n.seen = r.seen
  BY DEF Voiding, Request
<1> HIDE DEF n
<1>2. ASSUME unknown = << >>
      PROVE  SumKnown(n, acc)
  <2>1. PICK rest \in Int :
            /\ SumsTo(r.void, rest) /\ acc.total - rest = r.seen - r.pool
            /\ r.pool >= 0 \/ r.pool >= r.seen
    BY <1>2 DEF WalkFits, WalkKnown
  <2>2. acc.total \in Int /\ r.seen \in Int /\ r.pool \in Int
    BY DEF AccountType, Request
  <2>3. n.pc = "record" => acc.total <= Max0(n.seen)
    BY <1>1, <2>1, <2>2, WalkEnds
  <2>4. n.pc = "void" => WalkKnown(n, acc)
    BY <1>1, <2>1 DEF WalkKnown
  <2>5. n.new \notin ByBalance
    BY <1>1 DEF ByBalance
  <2> QED BY <2>3, <2>4, <2>5 DEF SumKnown
<1>3. Known(n, r.old, r.pkg, acc, unknown)
  BY <1>1, <1>2 DEF Known
<1> QED BY <1>1, <1>3 DEF n

\* One tax rate is booked, the others are still to be.
LEMMA KnownBooked ==
    ASSUME NEW r \in Request, NEW st, NEW pkg, NEW acc \in AccountType, NEW unknown \in Seq(Due),
           NEW v \in VATs, r.pc = "book", Known(r, st, pkg, acc, unknown)
    PROVE  LET n == Adjusting([r EXCEPT !.diff[v] = 0]) IN
           /\ n \in Request /\ n.att = r.att
           /\ Known(n, st, pkg, WithDue(acc, v, r.diff[v]), unknown)
<1> DEFINE rest == [r EXCEPT !.diff[v] = 0]
           more == WithDue(acc, v, r.diff[v])
<1>1. r.diff \in [VATs -> Int] /\ [r.diff EXCEPT ![v] = 0] \in [VATs -> Int]
  BY DEF Request
<1>2. /\ rest \in Request /\ rest.att = r.att /\ rest.pkg = r.pkg /\ rest.new = r.new
      /\ rest.old = r.old /\ rest.pc = "book" /\ rest.diff = [r.diff EXCEPT ![v] = 0]
  BY <1>1 DEF Request
<1>3. more \in AccountType
  BY <1>1, WithDueType
<1>4. acc.dues \in [VATs -> Int] /\ more.dues = [acc.dues EXCEPT ![v] = @ + r.diff[v]]
  BY DEF AccountType, WithDue
<1>5. /\ r.pkg = pkg /\ r.old = st /\ r.new # "cancelled"
      /\ \A x \in VATs :
           acc.dues[x] + r.diff[x] = DesiredDues(r.new, pkg)[x] + LateIn(unknown, x)
  BY DEF Known
<1> HIDE DEF rest, more
<1>6. ASSUME NEW x \in VATs
      PROVE  more.dues[x] + rest.diff[x] = DesiredDues(rest.new, rest.pkg)[x] + LateIn(unknown, x)
  <2>1. more.dues[x] + rest.diff[x] = acc.dues[x] + r.diff[x]
    BY <1>1, <1>2, <1>4
  <2> QED BY <1>2, <1>5, <2>1
<1>7. /\ Adjusting(rest).att = rest.att
      /\ Known(Adjusting(rest), rest.old, rest.pkg, more, unknown)
  BY <1>2, <1>3, <1>5, <1>6, KnownAdjusting
<1>8. Adjusting(rest) \in Request
  BY <1>2, AdjustingType
<1> QED BY <1>2, <1>5, <1>7, <1>8 DEF rest, more

\* A due that is covered is spent ...
LEMMA KnownKept ==
    ASSUME NEW r \in Request, NEW st, NEW pkg, NEW acc \in AccountType, NEW unknown,
           r.pc = "void", r.void # << >>, r.pool >= Head(r.void).cent,
           Known(r, st, pkg, acc, unknown)
    PROVE  LET n == Voiding([r EXCEPT !.void = Tail(@), !.pool = @ - Head(r.void).cent]) IN
           /\ n \in Request /\ n.att = r.att
           /\ Known(n, st, pkg, acc, unknown)
<1> DEFINE cent == Head(r.void).cent
           u == [r EXCEPT !.void = Tail(@), !.pool = @ - cent]
<1>1. r.void \in Seq(Due) /\ r.pool \in Int /\ r.seen \in Int /\ acc.total \in Int
  BY DEF Request, AccountType
<1>2. Head(r.void) \in Due /\ Tail(r.void) \in Seq(Due)
  BY <1>1
<1>3. cent \in Int /\ r.pool - cent \in Int
  BY <1>1, <1>2 DEF Due
<1> HIDE DEF cent
<1>4. /\ u \in Request /\ u.pc = "void" /\ u.att = r.att /\ u.new = r.new /\ u.old = r.old
      /\ u.pkg = r.pkg /\ u.void = Tail(r.void) /\ u.pool = r.pool - cent /\ u.seen = r.seen
  BY <1>2, <1>3 DEF Request
<1> HIDE DEF u
<1>5. ASSUME unknown = << >>
      PROVE  WalkKnown(u, acc)
  <2>1. PICK rest \in Int : SumsTo(r.void, rest) /\ acc.total - rest = r.seen - r.pool
    BY <1>5 DEF Known, SumKnown, WalkKnown
  <2>2. SumsTo(u.void, rest - cent)
    BY <1>1, <1>4, <2>1, SumTail DEF cent
  <2>3. r.pool >= cent
    BY DEF cent
  <2> DEFINE seen == r.seen
             pool == r.pool
             total == acc.total
  <2>4. seen \in Int /\ pool \in Int /\ total \in Int /\ total - rest = seen - pool /\ pool >= cent
    BY <1>1, <2>1, <2>3
  <2> HIDE DEF seen, pool, total
  <2>5. /\ rest - cent \in Int /\ total - (rest - cent) = seen - (pool - cent)
        /\ pool - cent >= 0
    BY <1>3, <2>4, Spends
  <2> QED BY <1>4, <2>2, <2>5 DEF WalkKnown, seen, pool, total
<1>6. r.new = "cancelled" /\ r.old = st /\ r.pkg = pkg
  BY DEF Known
<1>7. Voiding(u).att = u.att /\ Known(Voiding(u), u.old, u.pkg, acc, unknown)
  <2>1. /\ u \in Request /\ u.pc \in {"dues", "void"} /\ u.new = "cancelled"
    BY <1>4, <1>6
  <2>2. WalkFits(u, acc, unknown)
    BY <1>5 DEF WalkFits
  <2> QED BY <2>1, <2>2,  KnownVoiding
<1>8. Voiding(u) \in Request
  BY <1>4, VoidingType
<1> QED BY <1>4, <1>6, <1>7, <1>8 DEF u, cent

\* ... and what the money left does not cover of a due is given back.
LEMMA KnownVoided ==
    ASSUME NEW r \in Request, NEW st, NEW pkg, NEW acc \in AccountType, NEW unknown,
           r.pc = "void", r.void # << >>, r.pool < Head(r.void).cent,
           Known(r, st, pkg, acc, unknown)
    PROVE  LET due == Head(r.void)
               left == IF r.pool > 0 THEN r.pool ELSE 0
               n == Voiding([r EXCEPT !.void = Tail(@), !.pool = @ - left]) IN
           /\ n \in Request /\ n.att = r.att
           /\ Known(n, st, pkg, WithDue(acc, due.vat, left - due.cent), unknown)
<1> DEFINE cent == Head(r.void).cent
           left == IF r.pool > 0 THEN r.pool ELSE 0
           u == [r EXCEPT !.void = Tail(@), !.pool = @ - left]
           more == WithDue(acc, Head(r.void).vat, left - cent)
<1>1. r.void \in Seq(Due) /\ r.pool \in Int /\ r.seen \in Int /\ acc.total \in Int
  BY DEF Request, AccountType
<1>2. Head(r.void) \in Due /\ Tail(r.void) \in Seq(Due)
  BY <1>1
<1>3. /\ cent \in Int /\ left \in Int /\ r.pool - left \in Int /\ left - cent \in Int
      /\ Head(r.void).vat \in VATs
  BY <1>1, <1>2 DEF Due
<1>4. left = 0 \/ left = r.pool
  OBVIOUS
<1>5. r.pool - left >= 0 \/ left = 0
  BY <1>1
<1> HIDE DEF cent, left
<1>6. /\ u \in Request /\ u.pc = "void" /\ u.att = r.att /\ u.new = r.new /\ u.old = r.old
      /\ u.pkg = r.pkg /\ u.void = Tail(r.void) /\ u.pool = r.pool - left /\ u.seen = r.seen
  BY <1>2, <1>3 DEF Request
<1>7. more \in AccountType /\ more.total = acc.total + (left - cent)
  BY <1>3, WithDueType DEF WithDue
<1> HIDE DEF u, more
<1>8. ASSUME unknown = << >>
      PROVE  WalkKnown(u, more)
  <2>1. PICK rest \in Int : /\ SumsTo(r.void, rest) /\ acc.total - rest = r.seen - r.pool
                            /\ r.pool >= 0 \/ r.pool >= r.seen
    BY <1>8 DEF Known, SumKnown, WalkKnown
  <2>2. SumsTo(u.void, rest - cent)
    BY <1>1, <1>6, <2>1, SumTail DEF cent
  <2> DEFINE seen == r.seen
             pool == r.pool
             total == acc.total
  <2>3. seen \in Int /\ pool \in Int /\ total \in Int /\ total - rest = seen - pool
    BY <1>1, <2>1
  <2>4. pool - left >= 0 \/ pool - left >= seen
    BY <1>1, <1>3, <1>5, <2>1
  <2> HIDE DEF seen, pool, total
  <2>5. /\ rest - cent \in Int /\ total + (left - cent) \in Int
        /\ (total + (left - cent)) - (rest - cent) = seen - (pool - left)
    BY <1>3, <2>3, GivesBack
  <2> QED BY <1>6, <1>7, <2>2, <2>4, <2>5 DEF WalkKnown, seen, pool, total
<1>9. r.new = "cancelled" /\ r.old = st /\ r.pkg = pkg
  BY DEF Known
<1>10. Voiding(u).att = u.att /\ Known(Voiding(u), u.old, u.pkg, more, unknown)
  <2>1. /\ u \in Request /\ u.pc \in {"dues", "void"} /\ u.new = "cancelled"
    BY <1>6, <1>9
  <2>2. WalkFits(u, more, unknown)
    BY <1>8 DEF WalkFits
  <2> QED BY <2>1, <2>2, <1>7, KnownVoiding
<1>11. Voiding(u) \in Request
  BY <1>6, VoidingType
<1> QED BY <1>6, <1>9, <1>10, <1>11 DEF u, more, left, cent

\* The status is adjusted to the balance.
LEMMA KnownBalanced ==
    ASSUME NEW r \in Request, NEW st, NEW pkg, NEW acc \in AccountType, NEW unknown,
           r.pc = "balance", Known(r, st, pkg, acc, unknown)
    PROVE  LET n == [r EXCEPT !.new = StatusForBalance(acc.total, acc.paid),
                              !.seen = acc.paid, !.pc = "record"] IN
           /\ n \in Request /\ n.att = r.att
           /\ Known(n, st, pkg, acc, unknown)
<1> DEFINE new == StatusForBalance(acc.total, acc.paid)
           n == [r EXCEPT !.new = new, !.seen = acc.paid, !.pc = "record"]
<1>1. new \in ByBalance /\ new \in Statuses
  BY DEF StatusForBalance, ByBalance, Statuses
<1>2. new = StatusForBalance(acc.total, acc.paid)
  OBVIOUS
<1> HIDE DEF new
<1>3. acc.paid \in Int
  BY DEF AccountType
<1>4. /\ n \in Request /\ n.att = r.att /\ n.pkg = r.pkg /\ n.old = r.old /\ n.new = new
      /\ n.seen = acc.paid /\ n.pc = "record"
  BY <1>1, <1>3 DEF Request, Steps
<1> HIDE DEF n
<1>5. /\ r.pkg = pkg /\ r.old = st /\ r.new \in ByBalance /\ r.new # "cancelled"
      /\ OffBy(acc, DesiredDues(r.new, pkg), unknown)
  BY DEF Known, ByBalance
<1>6. DesiredDues(new, pkg) = DesiredDues(r.new, pkg)
  BY <1>1, <1>5 DEF DesiredDues, ByBalance
<1>7. SumKnown(n, acc)
  BY <1>1, <1>2, <1>4 DEF SumKnown, ByBalance
<1>8. Known(n, st, pkg, acc, unknown)
  BY <1>4, <1>5, <1>6, <1>7 DEF Known
<1> QED BY <1>4, <1>8 DEF n, new

\* What a request knows when it is concluded holds of its attendee from then on.
LEMMA StandsConcluded ==
    ASSUME NEW r, NEW st, NEW pkg, NEW acc, NEW unknown, r.pc = "record",
           Known(r, st, pkg, acc, unknown),
           NEW bas, r.new \in ByBalance \cup {"cancelled"} => bas = r.seen
    PROVE  Stands(r.new, pkg, acc, bas, unknown)
BY DEF Known, SumKnown, Stands

LEMMA NotEmptyAnyMore ==
    ASSUME NEW list \in Seq(Due), NEW tx \in Due
    PROVE  Append(list, tx) # << >>
<1>1. Len(Append(list, tx)) = Len(list) + 1 /\ Len(list) \in Nat
  OBVIOUS
<1>2. Len(<< >>) = 0
  OBVIOUS
<1>3. Len(Append(list, tx)) # Len(<< >>)
  BY <1>1, <1>2
<1> QED BY <1>3

\* A late booking is one more that nobody knows of.
LEMMA OffByLate ==
    ASSUME NEW acc \in AccountType, NEW list \in Seq(Due), NEW tx \in Due,
           NEW v \in VATs, NEW x \in Int, NEW y \in Int,
           acc.dues[v] + x = y + LateIn(list, v)
    PROVE  WithDue(acc, tx.vat, tx.cent).dues[v] + x = y + LateIn(Append(list, tx), v)
<1>1. tx.vat \in VATs /\ tx.cent \in Int
  BY DEF Due
<1>2. acc.dues \in [VATs -> Int] /\ acc.dues[v] \in Int /\ LateIn(list, v) \in Int
  BY LateInTyped DEF AccountType
<1>3. WithDue(acc, tx.vat, tx.cent).dues = [acc.dues EXCEPT ![tx.vat] = @ + tx.cent]
  BY DEF WithDue
<1>4. WithDue(acc, tx.vat, tx.cent).dues[v] = acc.dues[v] + (IF tx.vat = v THEN tx.cent ELSE 0)
  BY <1>1, <1>2, <1>3
<1>5. LateIn(Append(list, tx), v) = LateIn(list, v) + (IF tx.vat = v THEN tx.cent ELSE 0)
  BY LateInMore
<1> DEFINE more == IF tx.vat = v THEN tx.cent ELSE 0
<1>6. more \in Int
  BY <1>1
<1> HIDE DEF more
<1>7. (acc.dues[v] + more) + x = y + (LateIn(list, v) + more)
  <2>1. PICK due \in Int, off \in Int : due = acc.dues[v] /\ off = LateIn(list, v)
    BY <1>2
  <2>2. due + x = y + off
    BY <2>1
  <2>3. (due + more) + x = y + (off + more)
    BY <1>6, <2>2
  <2> QED BY <2>1, <2>3
<1> QED BY <1>4, <1>5, <1>7 DEF more

LEMMA OffByOneMore ==
    ASSUME NEW acc \in AccountType, NEW list \in Seq(Due), NEW tx \in Due,
           NEW desired \in [VATs -> Int], OffBy(acc, desired, list)
    PROVE  OffBy(WithDue(acc, tx.vat, tx.cent), desired, Append(list, tx))
<1> SUFFICES ASSUME NEW v \in VATs
             PROVE  WithDue(acc, tx.vat, tx.cent).dues[v] = desired[v] + LateIn(Append(list, tx), v)
  BY DEF OffBy
<1>1. tx.vat \in VATs /\ tx.cent \in Int
  BY DEF Due
<1>2. WithDue(acc, tx.vat, tx.cent) \in AccountType
  BY <1>1, WithDueType
<1>3. /\ acc.dues[v] \in Int /\ desired[v] \in Int
      /\ WithDue(acc, tx.vat, tx.cent).dues[v] \in Int
  BY <1>2 DEF AccountType
<1>4. acc.dues[v] + 0 = desired[v] + LateIn(list, v)
  BY <1>3 DEF OffBy
<1>5. WithDue(acc, tx.vat, tx.cent).dues[v] + 0 = desired[v] + LateIn(Append(list, tx), v)
  BY <1>3, <1>4, OffByLate
<1> QED BY <1>3, <1>5

LEMMA KnownLate ==
    ASSUME NEW r \in Request, NEW st, NEW pkg \in Selections, NEW acc \in AccountType,
           NEW unknown \in Seq(Due), NEW tx \in Due, Known(r, st, pkg, acc, unknown)
    PROVE  Known(r, st, pkg, WithDue(acc, tx.vat, tx.cent), Append(unknown, tx))
<1> DEFINE more == WithDue(acc, tx.vat, tx.cent)
           list == Append(unknown, tx)
<1>1. DesiredDues(r.new, pkg) \in [VATs -> Int] /\ r.diff \in [VATs -> Int]
  BY DesiredDuesType DEF Request
<1>2. list # << >>
  BY NotEmptyAnyMore
<1>3. ASSUME OffBy(acc, DesiredDues(r.new, pkg), unknown)
      PROVE  OffBy(more, DesiredDues(r.new, pkg), list)
  BY <1>1, <1>3, OffByOneMore
<1>4. ASSUME r.pc = "book", NEW v \in VATs
      PROVE  more.dues[v] + r.diff[v] = DesiredDues(r.new, pkg)[v] + LateIn(list, v)
  <2>1. acc.dues[v] + r.diff[v] = DesiredDues(r.new, pkg)[v] + LateIn(unknown, v)
    BY <1>4 DEF Known
  <2>2. r.diff[v] \in Int /\ DesiredDues(r.new, pkg)[v] \in Int
    BY <1>1
  <2> QED BY <2>1, <2>2, OffByLate
<1> HIDE DEF more, list
<1>5. Known(r, st, pkg, more, list)
  BY <1>2, <1>3, <1>4 DEF Known
<1> QED BY <1>5 DEF more, list

LEMMA StandsLate ==
    ASSUME NEW st \in Statuses, NEW pkg \in Selections, NEW acc \in AccountType, NEW bas,
           NEW list \in Seq(Due), NEW tx \in Due, Stands(st, pkg, acc, bas, list)
    PROVE  Stands(st, pkg, WithDue(acc, tx.vat, tx.cent), bas, Append(list, tx))
<1>1. DesiredDues(st, pkg) \in [VATs -> Int] /\ Append(list, tx) # << >>
  BY DesiredDuesType, NotEmptyAnyMore
<1> QED BY <1>1, OffByOneMore DEF Stands

\* Payments are no dues, and seen only when they are read.
LEMMA PaidLater ==
    ASSUME NEW acc \in AccountType, NEW c, NEW st, NEW pkg, NEW list
    PROVE  LET more == WithPayment(acc, c) IN
           /\ \A r : Known(r, st, pkg, acc, list) => Known(r, st, pkg, more, list)
           /\ \A bas : Stands(st, pkg, acc, bas, list) => Stands(st, pkg, more, bas, list)
<1> DEFINE more == WithPayment(acc, c)
<1>1. more.dues = acc.dues /\ more.total = acc.total
  BY DEF WithPayment, AccountType
<1> HIDE DEF more
<1>2. \A r : Known(r, st, pkg, acc, list) => Known(r, st, pkg, more, list)
  BY <1>1 DEF Known, SumKnown, WalkKnown, OffBy
<1>3. \A bas : Stands(st, pkg, acc, bas, list) => Stands(st, pkg, more, bas, list)
  BY <1>1 DEF Stands, OffBy
<1> QED BY <1>2, <1>3 DEF more

-----------------------------------------------------------------------------
(* Steps on one attendee. *)

\* Nothing of b changes.
SameAt(b) ==
    /\ status'[b] = status[b] /\ packages'[b] = packages[b] /\ account'[b] = account[b]
    /\ settled'[b] = settled[b] /\ basis'[b] = basis[b]
    /\ arrived'[b] = arrived[b] /\ since'[b] = since[b]

LEMMA UnknownTyped ==
    ASSUME LateInv, NEW a \in Attendees
    PROVE  /\ arrived[a] \in Seq(Due) /\ since[a] \in 0 .. Len(arrived[a])
           /\ Unknown(a) \in Seq(Due) /\ Len(Unknown(a)) = since[a]
<1>1. arrived[a] \in Seq(Due) /\ since[a] \in 0 .. Len(arrived[a])
  BY DEF LateInv, LateTypeOK
<1> QED BY <1>1, UnknownIs DEF Unknown

\* What the handler of w may rely on.
LEMMA AloneLate ==
    ASSUME LateInv, NEW w \in Workers, Busy(w)
    PROVE  \E a \in Attendees :
               /\ a = req[w].att /\ req[w] \in Request
               /\ status[a] \in Statuses /\ packages[a] \in Selections
               /\ account[a] \in AccountType
               /\ KnownAt(w, a) /\ Adds(account[a])
               /\ \A x \in Workers \ {w} : ~Handles(x, a)
<1>1. TypeOK
  BY DEF LateInv, LateTypeOK
<1>2. req[w] \in Request
  BY <1>1, BusyType
<1>3. PICK a \in Attendees : a = req[w].att
  BY <1>2 DEF Request
<1>4. KnownAt(w, a) /\ Adds(account[a])
  BY <1>3 DEF LateInv, HoldsAt, Handles
<1>5. \A x \in Workers \ {w} : ~Handles(x, a)
  BY <1>3 DEF LateInv, OneRequestEach, Handles
<1>6. status[a] \in Statuses /\ packages[a] \in Selections /\ account[a] \in AccountType
  BY <1>1 DEF TypeOK
<1> QED BY <1>2, <1>3, <1>4, <1>5, <1>6

\* A step by w on a, and on no other, keeps the invariant if it does for a.
LEMMA LocalLate ==
    ASSUME LateInv, LateTypeOK', NEW w \in Workers, NEW a \in Attendees,
           \A x \in Workers \ {w} : req'[x] = req[x],
           \A x \in Workers \ {w} : ~Handles(x, a),
           Busy(w)' => req'[w].att = a,
           Busy(w)' => KnownAt(w, a)',
           \A b \in Attendees \ {a} : SameAt(b),
           StandsAt(a)', Adds(account'[a])
    PROVE  LateInv'
<1>1. OneRequestEach'
  BY DEF LateInv, OneRequestEach, Busy, Handles
<1>2. \A x \in Workers \ {w}, b \in Attendees : Handles(x, b)' <=> Handles(x, b)
  BY DEF Handles, Busy
<1>3. HoldsAt(a)'
  <2>1. \A x \in Workers : Handles(x, a)' => KnownAt(x, a)'
    BY <1>2 DEF Handles
  <2> QED BY <2>1 DEF HoldsAt
<1>4. ASSUME NEW b \in Attendees, b # a
      PROVE  HoldsAt(b)'
  <2>1. SameAt(b) /\ HoldsAt(b)
    BY <1>4 DEF LateInv
  <2>2. Unknown(b)' = Unknown(b) /\ (StandsAt(b)' <=> StandsAt(b)) /\ Adds(account'[b])
    BY <2>1 DEF SameAt, Unknown, StandsAt, HoldsAt
  <2>3. ASSUME NEW x \in Workers, Handles(x, b)'
        PROVE  KnownAt(x, b)'
    <3>1. x # w
      BY <1>4, <2>3 DEF Handles
    <3>2. Handles(x, b) /\ req'[x] = req[x]
      BY <1>2, <2>3, <3>1
    <3>3. KnownAt(x, b)
      BY <2>1, <3>2 DEF HoldsAt
    <3> QED BY <2>1, <2>2, <3>2, <3>3 DEF KnownAt, SameAt
  <2> QED BY <2>1, <2>2, <2>3 DEF HoldsAt
<1> QED BY <1>1, <1>3, <1>4 DEF LateInv

\* A step that only moves a request on, or ends it.
LEMMA MoveLate ==
    ASSUME LateInv, LateTypeOK', NEW w \in Workers, Busy(w),
           NEW a \in Attendees, a = req[w].att,
           NEW r \in Request, Continue(w, r), r.att = a,
           Known(r, status[a], packages[a], account[a], Unknown(a)),
           UNCHANGED <<status, packages, account, settled, basis, arrived, since>>
    PROVE  LateInv'
<1>1. req'[w] = r /\ \A x \in Workers \ {w} : req'[x] = req[x]
  BY DEF Continue, LateInv, LateTypeOK, TypeOK
<1>2. Unknown(a)' = Unknown(a)
  BY DEF Unknown
<1>3. KnownAt(w, a)'
  BY <1>1, <1>2 DEF KnownAt
<1>4. StandsAt(a)' /\ Adds(account'[a])
  BY DEF LateInv, HoldsAt, StandsAt
<1>5. \A b \in Attendees \ {a} : SameAt(b)
  BY DEF SameAt
<1>6. \A x \in Workers \ {w} : ~Handles(x, a)
  BY AloneLate
<1>7. req'[w].att = a
  BY <1>1
<1> QED BY <1>1, <1>3, <1>4, <1>5, <1>6, <1>7, LocalLate

LEMMA RespondLate ==
    ASSUME LateInv, LateTypeOK', NEW w \in Workers, Busy(w), Respond(w),
           UNCHANGED <<status, packages, account, settled, basis, arrived, since>>
    PROVE  LateInv'
<1>1. PICK a \in Attendees : a = req[w].att /\ \A x \in Workers \ {w} : ~Handles(x, a)
  BY AloneLate
<1>2. req'[w] = Idle /\ \A x \in Workers \ {w} : req'[x] = req[x]
  BY DEF Respond, LateInv, LateTypeOK, TypeOK
<1>3. ~Busy(w)'
  BY <1>2 DEF Busy, Idle
<1>4. StandsAt(a)' /\ Adds(account'[a])
  BY DEF LateInv, HoldsAt, StandsAt
<1>5. \A b \in Attendees \ {a} : SameAt(b)
  BY DEF SameAt
<1> QED BY <1>1, <1>2, <1>3, <1>4, <1>5, LocalLate

\* A step that changes the attendee, and leaves it unsettled.
LEMMA ChangeLate ==
    ASSUME LateInv, LateTypeOK', NEW w \in Workers, Busy(w),
           NEW a \in Attendees, a = req[w].att,
           NEW r \in Request, Continue(w, r), r.att = a,
           NEW pkg, packages' = [packages EXCEPT ![a] = pkg],
           NEW acc, account' = [account EXCEPT ![a] = acc], Adds(acc),
           Known(r, status[a], pkg, acc, Unknown(a)),
           settled' = [settled EXCEPT ![a] = FALSE],
           UNCHANGED <<status, basis, arrived, since>>
    PROVE  LateInv'
<1>1. req'[w] = r /\ \A x \in Workers \ {w} : req'[x] = req[x]
  BY DEF Continue, LateInv, LateTypeOK, TypeOK
<1>2. packages'[a] = pkg /\ account'[a] = acc /\ ~settled'[a]
  BY DEF LateInv, LateTypeOK, TypeOK
<1>3. Unknown(a)' = Unknown(a)
  BY DEF Unknown
<1>4. KnownAt(w, a)'
  BY <1>1, <1>2, <1>3 DEF KnownAt
<1>5. StandsAt(a)' /\ Adds(account'[a])
  BY <1>2 DEF StandsAt
<1>6. \A b \in Attendees \ {a} : SameAt(b)
  BY DEF SameAt, LateInv, LateTypeOK, TypeOK
<1>7. \A x \in Workers \ {w} : ~Handles(x, a)
  BY AloneLate
<1>8. req'[w].att = a
  BY <1>1
<1> QED BY <1>1, <1>4, <1>5, <1>6, <1>7, <1>8, LocalLate

\* Late bookings keep their types in a step that leaves them alone.
LEMMA LateTypesStay ==
    ASSUME LateTypeOK, TypeOK', UNCHANGED lateVars
    PROVE  LateTypeOK'
BY DEF LateTypeOK, lateVars

-----------------------------------------------------------------------------
(* The steps before the dues are read, and those after the request is concluded. *)

LEMMA ArriveLate ==
    ASSUME LateInv, NEW w \in Workers, NEW a \in Attendees, Quiet(a), Arrive(w, a),
           UNCHANGED lateVars
    PROVE  LateInv'
<1>1. PICK kind \in Kinds, by \in Callers, to \in Statuses : Receive(w, kind, a, by, to)
  BY RequestedAssumption DEF Arrive, ReceiveStatusChange, ReceiveUpdate, Kinds, Statuses
<1>2. LateTypeOK'
  BY ArriveType, LateTypesStay DEF LateInv, LateTypeOK
<1>3. /\ req'[w].att = a /\ req'[w].pc \in {"latest", "write"}
      /\ req'[w].pkg = packages[a]
      /\ \A x \in Workers \ {w} : req'[x] = req[x]
  BY <1>1 DEF Receive, Continue, LateInv, LateTypeOK, TypeOK
<1>4. UNCHANGED <<status, packages, account, settled, basis, arrived, since>>
  BY <1>1 DEF Receive, lateVars
<1>5. \A x \in Workers \ {w} : ~Handles(x, a)
  BY DEF Quiet, Handles
<1>6. Known(req'[w], status[a], packages[a], account[a], Unknown(a))
  BY <1>3, KnownEarly
<1>7. Unknown(a)' = Unknown(a)
  BY <1>4 DEF Unknown
<1>8. KnownAt(w, a)'
  BY <1>4, <1>6, <1>7 DEF KnownAt
<1>9. StandsAt(a)' /\ Adds(account'[a])
  BY <1>4 DEF LateInv, HoldsAt, StandsAt
<1>10. \A b \in Attendees \ {a} : SameAt(b)
  BY <1>4 DEF SameAt
<1> QED BY <1>2, <1>3, <1>5, <1>8, <1>9, <1>10, LocalLate

LEMMA ProceedTypes ==
    ASSUME LateInv, NEW w \in Workers, Proceed(w)
    PROVE  LateTypeOK'
<1>1. Progress(w) /\ UNCHANGED lateVars
  BY DEF Proceed, Progress, Handle
<1> QED BY <1>1, ProgressType, LateTypesStay DEF LateInv, LateTypeOK

LEMMA UpdateAttendeeLate ==
    ASSUME LateInv, LateTypeOK', NEW w \in Workers, UpdateAttendee(w), UNCHANGED lateVars
    PROVE  LateInv'
<1>1. Busy(w) /\ req[w].pc = "write"
  BY DEF UpdateAttendee, At
<1>2. PICK a \in Attendees : a = req[w].att /\ req[w] \in Request /\ Adds(account[a])
  BY <1>1, AloneLate
<1>3. PICK s \in Selections :
        /\ packages' = [packages EXCEPT ![a] = s]
        /\ Continue(w, [req[w] EXCEPT !.pkg = s, !.pc = "latest"])
  BY <1>2 DEF UpdateAttendee
<1> DEFINE r == [req[w] EXCEPT !.pkg = s, !.pc = "latest"]
<1>4. r \in Request /\ r.att = a /\ r.pkg = s /\ r.pc = "latest"
  BY <1>2 DEF Request, Steps
<1>5. Known(r, status[a], s, account[a], Unknown(a))
  <2> HIDE DEF r
  <2> QED BY <1>4, KnownEarly
<1>6. account' = [account EXCEPT ![a] = account[a]]
  BY DEF UpdateAttendee, LateInv, LateTypeOK, TypeOK
<1>7. settled' = [settled EXCEPT ![a] = FALSE] /\ UNCHANGED <<status, basis, arrived, since>>
  BY <1>2 DEF UpdateAttendee, lateVars
<1> HIDE DEF r
<1>8. Continue(w, r)
  BY <1>3 DEF r
<1> QED BY <1>1, <1>2, <1>3, <1>4, <1>5, <1>6, <1>7, <1>8, ChangeLate

LEMMA EarlyLate ==
    ASSUME LateInv, LateTypeOK', NEW w \in Workers, UNCHANGED lateVars,
           \/ WriteAdminInfo(w) \/ ObtainLatestStatus(w)
           \/ StatusChangeAllowed(w) \/ CheckRegdesk(w) \/ StatusChangePossible(w)
    PROVE  LateInv'
<1>1. Busy(w)
  BY DEF WriteAdminInfo, ObtainLatestStatus, StatusChangeAllowed, CheckRegdesk,
     StatusChangePossible, At
<1>2. PICK a \in Attendees :
          /\ a = req[w].att /\ req[w] \in Request /\ KnownAt(w, a)
          /\ status[a] \in Statuses /\ account[a] \in AccountType
  BY <1>1, AloneLate
<1>3. UNCHANGED <<status, packages, account, settled, basis, arrived, since>>
  BY DEF WriteAdminInfo, ObtainLatestStatus, StatusChangeAllowed, CheckRegdesk,
     StatusChangePossible, lateVars
<1>4. /\ req[w].pkg = packages[a]
      /\ req[w].pc \in {"allow", "desk", "check"} => req[w].old = status[a]
  BY <1>2 DEF KnownAt, Known
<1>5. ASSUME NEW r \in Request, Continue(w, r), r.att = a, r.pkg = packages[a],
             r.pc = "latest" \/ (r.pc \in {"allow", "desk", "check", "dues"} /\ r.old = status[a])
      PROVE  LateInv'
  <2>1. Known(r, status[a], packages[a], account[a], Unknown(a))
    BY <1>5, KnownEarly
  <2> QED BY <1>1, <1>2, <1>3, <1>5, <2>1, MoveLate
<1>6. CASE WriteAdminInfo(w)
  <2> DEFINE r == [req[w] EXCEPT !.pc = "latest"]
  <2>1. r \in Request /\ r.att = a /\ r.pkg = packages[a] /\ r.pc = "latest"
    BY <1>2, <1>4 DEF Request, Steps
  <2>2. Continue(w, r)
    BY <1>6 DEF WriteAdminInfo
  <2> HIDE DEF r
  <2> QED BY <1>5, <2>1, <2>2
<1>7. CASE ObtainLatestStatus(w)
  <2> DEFINE asked == [req[w] EXCEPT !.old = status[a], !.pc = "allow"]
             update == [req[w] EXCEPT !.old = status[a], !.new = status[a], !.to = status[a],
                                      !.pc = "dues"]
  <2>1. /\ asked \in Request /\ asked.att = a /\ asked.pkg = packages[a] /\ asked.pc = "allow"
        /\ asked.old = status[a]
    BY <1>2, <1>4 DEF Request, Steps
  <2>2. /\ update \in Request /\ update.att = a /\ update.pkg = packages[a] /\ update.pc = "dues"
        /\ update.old = status[a]
    BY <1>2, <1>4 DEF Request, Steps
  <2>3. Continue(w, asked) \/ Continue(w, update)
    BY <1>2, <1>7 DEF ObtainLatestStatus
  <2> HIDE DEF asked, update
  <2> QED BY <1>5, <2>1, <2>2, <2>3
<1>8. CASE StatusChangeAllowed(w) \/ CheckRegdesk(w)
  <2>1. TypeOK
    BY DEF LateInv, LateTypeOK
  <2>2. /\ req[w].pc \in {"allow", "desk"}
        /\ Respond(w) \/ \E n : Granting(req[w], n) /\ Continue(w, n)
    BY <1>8, <2>1, PermissionMoves
  <2>3. ASSUME NEW n, Granting(req[w], n), Continue(w, n)
        PROVE  LateInv'
    <3>1. n \in Request /\ n.att = a /\ n.pkg = packages[a]
          /\ n.pc \in {"desk", "check"} /\ n.old = status[a]
      BY <1>2, <1>4, <2>2, <2>3 DEF Granting
    <3> QED BY <1>5, <2>3, <3>1
  <2> QED BY <1>1, <1>3, <2>2, <2>3, RespondLate
<1>9. CASE StatusChangePossible(w)
  <2> DEFINE r == [req[w] EXCEPT !.seen = account[a].paid, !.pc = "dues"]
  <2>1. account[a].paid \in Int
    BY <1>2 DEF AccountType
  <2>2. /\ r \in Request /\ r.att = a /\ r.pkg = packages[a] /\ r.pc = "dues"
        /\ r.old = status[a]
    BY <1>2, <1>4, <1>9, <2>1 DEF Request, Steps, StatusChangePossible, At
  <2>3. Continue(w, r) \/ Respond(w)
    BY <1>2, <1>9 DEF StatusChangePossible
  <2> HIDE DEF r
  <2> QED BY <1>1, <1>3, <1>5, <2>2, <2>3, RespondLate
<1> QED BY <1>6, <1>7, <1>8, <1>9

-----------------------------------------------------------------------------
(* The dues are read and booked. *)

\* What a request may leave behind are dues.
LEMMA UnderWayAreDues ==
    ASSUME LateInv, NEW w \in Workers, Busy(w)
    PROVE  UnderWay(w) \subseteq Due
<1>1. PICK a \in Attendees : a = req[w].att /\ req[w] \in Request /\ KnownAt(w, a)
  BY AloneLate
<1> DEFINE r == req[w]
<1>2. r.diff \in [VATs -> Int] /\ r.void \in Seq(Due) /\ r.pool \in Int
  BY <1>1 DEF Request
<1>3. CASE At(w, "book")
  <2>1. UnderWay(w) = {[vat |-> v, cent |-> r.diff[v]] : v \in {v \in VATs : r.diff[v] # 0}}
    BY <1>3 DEF UnderWay
  <2>2. \A v \in VATs : [vat |-> v, cent |-> r.diff[v]] \in Due
    BY <1>2 DEF Due
  <2> QED BY <2>1, <2>2
<1>4. CASE ~At(w, "book") /\ At(w, "void") /\ r.pool < Head(r.void).cent
  <2> DEFINE left == IF r.pool > 0 THEN r.pool ELSE 0
             tx == [vat |-> Head(r.void).vat, cent |-> left - Head(r.void).cent]
  <2>1. UnderWay(w) = {tx}
    BY <1>4 DEF UnderWay
  <2>2. r.void # << >>
    BY <1>1, <1>4 DEF KnownAt, Known, At
  <2>3. Head(r.void) \in Due
    BY <1>2, <2>2
  <2>4. left \in Int
    BY <1>2
  <2>5. Head(r.void).vat \in VATs /\ left - Head(r.void).cent \in Int
    BY <2>3, <2>4 DEF Due
  <2>6. tx \in Due
    BY <2>5 DEF Due
  <2> QED BY <2>1, <2>6
<1>5. CASE ~At(w, "book") /\ ~(At(w, "void") /\ r.pool < Head(r.void).cent)
  BY <1>5 DEF UnderWay
<1> QED BY <1>3, <1>4, <1>5

LEMMA GiveUpLate ==
    ASSUME LateInv, NEW w \in Workers, GiveUp(w)
    PROVE  LateInv'
<1>1. /\ Busy(w) /\ Respond(w)
      /\ UNCHANGED <<status, packages, regdesk, account, settled, basis, arrived, since>>
  BY DEF GiveUp
<1>2. PICK a \in Attendees : a = req[w].att
  BY <1>1, AloneLate
<1>3. PICK tx \in UnderWay(w) : late' = [late EXCEPT ![a] = Append(@, tx)]
  BY <1>2 DEF GiveUp
<1>4. tx \in Due /\ late \in [Attendees -> Seq(Due)]
  BY <1>1, UnderWayAreDues DEF LateInv, LateTypeOK
<1>5. Append(late[a], tx) \in Seq(Due)
  <2>1. late[a] \in Seq(Due)
    BY <1>4
  <2> QED BY <1>4, <2>1
<1>6. late' \in [Attendees -> Seq(Due)]
  BY <1>3, <1>4, <1>5
<1>7. TypeOK'
  BY <1>1, RespondMoveType DEF LateInv, LateTypeOK
<1>8. LateTypeOK'
  BY <1>1, <1>6, <1>7 DEF LateInv, LateTypeOK
<1> QED BY <1>1, <1>8, RespondLate

\* Nothing is unknown once the dues are read.
LEMMA ReadDuesLate ==
    ASSUME LateInv, NEW w \in Workers, ReadDues(w)
    PROVE  LateInv'
<1>1. Busy(w) /\ req[w].pc = "dues" /\ UpdateDues(w) /\ Progress(w)
  BY DEF ReadDues, UpdateDues, At, Progress, Handle
<1>2. PICK a \in Attendees :
          /\ a = req[w].att /\ req[w] \in Request
          /\ status[a] \in Statuses /\ packages[a] \in Selections
          /\ account[a] \in AccountType
          /\ KnownAt(w, a) /\ Adds(account[a])
          /\ \A x \in Workers \ {w} : ~Handles(x, a)
  BY <1>1, AloneLate
<1>3. PICK acc \in AccountType : acc = account[a] /\ Adds(acc)
  BY <1>2
<1>4. PICK r \in Request : r = req[w]
  BY <1>2
<1>5. r.pc = "dues" /\ r.att = a /\ r.pkg = packages[a] /\ r.old = status[a]
  BY <1>1, <1>2, <1>4 DEF KnownAt, Known
<1> DEFINE desired == DesiredDues(r.new, r.pkg)
           diff == [v \in VATs |-> desired[v] - acc.dues[v]]
           u == [r EXCEPT !.void = acc.positive, !.seen = acc.paid,
                          !.pool = acc.paid + acc.negative]
           d == [r EXCEPT !.diff = diff]
           none == << >>
<1>6. /\ Continue(w, IF r.new = "cancelled" THEN Voiding(u) ELSE Adjusting(d))
      /\ UNCHANGED <<status, packages, regdesk, account, settled, basis>>
  BY <1>1, <1>2, <1>3, <1>4 DEF UpdateDues
<1>7. ASSUME r.new = "cancelled"
      PROVE  /\ Voiding(u).att = a
             /\ Known(Voiding(u), status[a], packages[a], acc, none)
  <2>1. /\ acc.positive \in Seq(Due) /\ acc.paid \in Int /\ acc.total \in Int /\ acc.negative \in Int
        /\ acc.paid + acc.negative \in Int /\ acc.total + acc.negative \in Int
    BY DEF AccountType
  <2>2. /\ u \in Request /\ u.pc = "dues" /\ u.att = a /\ u.pkg = r.pkg /\ u.old = r.old
        /\ u.new = "cancelled" /\ u.void = acc.positive /\ u.seen = acc.paid
        /\ u.pool = acc.paid + acc.negative
    BY <1>5, <1>7, <2>1 DEF Request
  <2> HIDE DEF u
  <2>3. WalkKnown(u, acc)
    <3>1. SumsTo(u.void, acc.total + acc.negative) /\ acc.negative >= 0
      BY <1>3, <2>2 DEF Adds
    <3>2. /\ acc.total - (acc.total + acc.negative) = u.seen - u.pool
          /\ u.pool >= u.seen
      BY <2>1, <2>2, <3>1
    <3> QED BY <2>1, <3>1, <3>2 DEF WalkKnown
  <2>4. WalkFits(u, acc, none)
    BY <2>3 DEF WalkFits
  <2>5. Voiding(u).att = u.att /\ Known(Voiding(u), u.old, u.pkg, acc, none)
    BY <2>2, <2>4, KnownVoiding
  <2> QED BY <1>5, <2>2, <2>5
<1>8. ASSUME r.new # "cancelled"
      PROVE  /\ Adjusting(d).att = a
             /\ Known(Adjusting(d), status[a], packages[a], acc, none)
  <2>1. desired \in [VATs -> Int] /\ acc.dues \in [VATs -> Int]
    BY DesiredDuesType DEF Request, AccountType
  <2> HIDE DEF desired
  <2>2. diff \in [VATs -> Int]
    BY <2>1
  <2>3. \A v \in VATs : acc.dues[v] + diff[v] = desired[v] + LateIn(none, v)
    <3> TAKE v \in VATs
    <3>1. diff[v] = desired[v] - acc.dues[v] /\ LateIn(none, v) = 0
      BY LateInNone
    <3>2. PICK x \in Int, y \in Int : x = acc.dues[v] /\ y = desired[v]
      BY <2>1
    <3>3. x + (y - x) = y + 0
      BY <3>2
    <3> QED BY <3>1, <3>2, <3>3
  <2> HIDE DEF diff
  <2>4. /\ d \in Request /\ d.pc = "dues" /\ d.att = a /\ d.pkg = r.pkg /\ d.old = r.old
        /\ d.new = r.new /\ d.diff = diff
    BY <1>5, <2>2 DEF Request
  <2> HIDE DEF d
  <2>5. none \in Seq(Due)
    OBVIOUS
  <2>6. \A v \in VATs : acc.dues[v] + d.diff[v] = DesiredDues(d.new, d.pkg)[v] + LateIn(none, v)
    BY <2>3, <2>4 DEF desired
  <2>7. d.pc \in {"dues", "book"} /\ d.new # "cancelled"
    BY <1>8, <2>4
  <2> HIDE DEF none
  <2>8. Adjusting(d).att = d.att /\ Known(Adjusting(d), d.old, d.pkg, acc, none)
    BY <2>4, <2>5, <2>6, <2>7, KnownAdjusting
  <2> QED BY <1>5, <2>4, <2>8
<1> HIDE DEF u, d
<1>9. PICK n : /\ Continue(w, n) /\ n.att = a
               /\ Known(n, status[a], packages[a], acc, none)
  BY <1>6, <1>7, <1>8
<1>10. req'[w] = n /\ \A x \in Workers \ {w} : req'[x] = req[x]
  BY <1>9 DEF Continue, LateInv, LateTypeOK, TypeOK
<1>11. since' = [since EXCEPT ![a] = 0] /\ UNCHANGED <<late, arrived>>
  BY <1>2 DEF ReadDues
<1>12. /\ arrived[a] \in Seq(Due) /\ DOMAIN since = Attendees
  BY DEF LateInv, LateTypeOK
<1>13. since'[a] = 0 /\ \A b \in Attendees \ {a} : since'[b] = since[b]
  BY <1>11, <1>12
<1>14. LateTypeOK'
  <2>1. TypeOK'
    BY <1>1, ProgressType DEF LateInv, LateTypeOK
  <2>2. since' \in [Attendees -> Nat] /\ \A b \in Attendees : since'[b] <= Len(arrived'[b])
    BY <1>11, <1>12, <1>13 DEF LateInv, LateTypeOK
  <2> QED BY <1>11, <2>1, <2>2 DEF LateInv, LateTypeOK
<1>15. Unknown(a)' = none
  <2>1. Unknown(a)' = UnknownOf(arrived[a], 0)
    BY <1>11, <1>13 DEF Unknown
  <2> QED BY <1>12, <2>1, UnknownIs
<1> HIDE DEF none
<1>16. KnownAt(w, a)'
  BY <1>3, <1>6, <1>9, <1>10, <1>15 DEF KnownAt
<1>17. StandsAt(a)' /\ Adds(account'[a])
  BY <1>2, <1>6, <1>11 DEF LateInv, HoldsAt, StandsAt
<1>18. \A b \in Attendees \ {a} : SameAt(b)
  BY <1>6, <1>11, <1>13 DEF SameAt
<1>19. req'[w].att = a
  BY <1>9, <1>10
<1> QED BY <1>2, <1>10, <1>14, <1>16, <1>17, <1>18, <1>19, LocalLate

LEMMA BookAdjustmentLate ==
    ASSUME LateInv, LateTypeOK', NEW w \in Workers, BookAdjustment(w), UNCHANGED lateVars
    PROVE  LateInv'
<1>1. Busy(w) /\ req[w].pc = "book"
  BY DEF BookAdjustment, At
<1>2. PICK a \in Attendees :
          /\ a = req[w].att /\ req[w] \in Request
          /\ account[a] \in AccountType /\ KnownAt(w, a) /\ Adds(account[a])
  BY <1>1, AloneLate
<1>3. PICK r \in Request : r = req[w]
  BY <1>2
<1>4. PICK v \in VATs :
          /\ account' = [account EXCEPT ![a] = WithDue(@, v, r.diff[v])]
          /\ Continue(w, Adjusting([r EXCEPT !.diff[v] = 0]))
  BY <1>2, <1>3 DEF BookAdjustment
<1> DEFINE n == Adjusting([r EXCEPT !.diff[v] = 0])
           acc == WithDue(account[a], v, r.diff[v])
<1>5. Unknown(a) \in Seq(Due)
  BY UnknownTyped
<1>6. r.pc = "book" /\ Known(r, status[a], packages[a], account[a], Unknown(a)) /\ r.att = a
  BY <1>1, <1>2, <1>3 DEF KnownAt
<1>7. n \in Request /\ n.att = a /\ Known(n, status[a], packages[a], acc, Unknown(a))
  <2>1. PICK unknown \in Seq(Due) : unknown = Unknown(a)
    BY <1>5
  <2>2. account[a] \in AccountType /\ Known(r, status[a], packages[a], account[a], unknown)
    BY <1>2, <1>6, <2>1
  <2>3. n \in Request /\ n.att = r.att /\ Known(n, status[a], packages[a], acc, unknown)
    BY <1>6, <2>2, KnownBooked
  <2> HIDE DEF n, acc
  <2> QED BY <1>6, <2>1, <2>3
<1>8. r.diff[v] \in Int
  BY DEF Request
<1>9. Adds(acc)
  BY <1>2, <1>8, WithDueAdds
<1>10. account' = [account EXCEPT ![a] = acc] /\ Continue(w, n)
  BY <1>4
<1>11. packages' = [packages EXCEPT ![a] = packages[a]]
  BY DEF BookAdjustment, LateInv, LateTypeOK, TypeOK
<1>12. settled' = [settled EXCEPT ![a] = FALSE] /\ UNCHANGED <<status, basis, arrived, since>>
  BY <1>2 DEF BookAdjustment, lateVars
<1> HIDE DEF n, acc
<1> QED BY <1>1, <1>2, <1>7, <1>9, <1>10, <1>11, <1>12, ChangeLate

LEMMA KeepCoveredDueLate ==
    ASSUME LateInv, LateTypeOK', NEW w \in Workers, KeepCoveredDue(w), UNCHANGED lateVars
    PROVE  LateInv'
<1>1. Busy(w) /\ req[w].pc = "void"
  BY DEF KeepCoveredDue, At
<1>2. PICK a \in Attendees :
          a = req[w].att /\ req[w] \in Request /\ account[a] \in AccountType /\ KnownAt(w, a)
  BY <1>1, AloneLate
<1>3. PICK r \in Request : r = req[w]
  BY <1>2
<1> DEFINE n == Voiding([r EXCEPT !.void = Tail(@), !.pool = @ - Head(r.void).cent])
<1>4. /\ r.void # << >> /\ r.pool >= Head(r.void).cent /\ Continue(w, n)
      /\ UNCHANGED <<status, packages, regdesk, account, settled, basis>>
  BY <1>3 DEF KeepCoveredDue
<1>5. r.pc = "void" /\ Known(r, status[a], packages[a], account[a], Unknown(a)) /\ r.att = a
  BY <1>1, <1>2, <1>3 DEF KnownAt
<1>6. n \in Request /\ n.att = a /\ Known(n, status[a], packages[a], account[a], Unknown(a))
  BY <1>2, <1>4, <1>5, KnownKept
<1> HIDE DEF n
<1> QED BY <1>1, <1>2, <1>4, <1>6, MoveLate DEF lateVars

LEMMA VoidUnpaidDueLate ==
    ASSUME LateInv, LateTypeOK', NEW w \in Workers, VoidUnpaidDue(w), UNCHANGED lateVars
    PROVE  LateInv'
<1>1. Busy(w) /\ req[w].pc = "void"
  BY DEF VoidUnpaidDue, At
<1>2. PICK a \in Attendees :
          /\ a = req[w].att /\ req[w] \in Request
          /\ account[a] \in AccountType /\ KnownAt(w, a) /\ Adds(account[a])
  BY <1>1, AloneLate
<1>3. PICK r \in Request : r = req[w]
  BY <1>2
<1> DEFINE due == Head(r.void)
           left == IF r.pool > 0 THEN r.pool ELSE 0
           n == Voiding([r EXCEPT !.void = Tail(@), !.pool = @ - left])
           acc == WithDue(account[a], due.vat, left - due.cent)
<1>4. /\ r.void # << >> /\ r.pool < due.cent /\ Continue(w, n)
      /\ account' = [account EXCEPT ![a] = acc]
  BY <1>2, <1>3 DEF VoidUnpaidDue
<1>5. r.pc = "void" /\ Known(r, status[a], packages[a], account[a], Unknown(a)) /\ r.att = a
  BY <1>1, <1>2, <1>3 DEF KnownAt
<1>6. n \in Request /\ n.att = a /\ Known(n, status[a], packages[a], acc, Unknown(a))
  BY <1>2, <1>4, <1>5, KnownVoided
<1>7. due.vat \in VATs /\ left - due.cent \in Int
  <2>1. r.void \in Seq(Due) /\ r.pool \in Int
    BY DEF Request
  <2>2. due \in Due /\ left \in Int
    BY <1>4, <2>1
  <2> HIDE DEF due, left
  <2> QED BY <2>2 DEF Due
<1>8. Adds(acc)
  <2> HIDE DEF due, left
  <2> QED BY <1>2, <1>7, WithDueAdds
<1>9. packages' = [packages EXCEPT ![a] = packages[a]]
  BY DEF VoidUnpaidDue, LateInv, LateTypeOK, TypeOK
<1>10. settled' = [settled EXCEPT ![a] = FALSE] /\ UNCHANGED <<status, basis, arrived, since>>
  BY <1>2 DEF VoidUnpaidDue, lateVars
<1> HIDE DEF n, acc
<1> QED BY <1>1, <1>2, <1>4, <1>6, <1>8, <1>9, <1>10, ChangeLate

LEMMA AdjustStatusToBalanceLate ==
    ASSUME LateInv, LateTypeOK', NEW w \in Workers, AdjustStatusToBalance(w), UNCHANGED lateVars
    PROVE  LateInv'
<1>1. Busy(w) /\ req[w].pc = "balance"
  BY DEF AdjustStatusToBalance, At
<1>2. PICK a \in Attendees :
          a = req[w].att /\ req[w] \in Request /\ account[a] \in AccountType /\ KnownAt(w, a)
  BY <1>1, AloneLate
<1>3. PICK r \in Request : r = req[w]
  BY <1>2
<1> DEFINE acc == account[a]
           n == [r EXCEPT !.new = StatusForBalance(acc.total, acc.paid),
                          !.seen = acc.paid, !.pc = "record"]
<1>4. /\ Continue(w, n) \/ Respond(w)
      /\ UNCHANGED <<status, packages, regdesk, account, settled, basis>>
  BY <1>2, <1>3 DEF AdjustStatusToBalance
<1>5. r.pc = "balance" /\ Known(r, status[a], packages[a], account[a], Unknown(a)) /\ r.att = a
  BY <1>1, <1>2, <1>3 DEF KnownAt
<1>6. Unknown(a) \in Seq(Due)
  BY UnknownTyped
<1>7. n \in Request /\ n.att = a /\ Known(n, status[a], packages[a], account[a], Unknown(a))
  <2>1. PICK unknown \in Seq(Due) : unknown = Unknown(a)
    BY <1>6
  <2>2. account[a] \in AccountType /\ Known(r, status[a], packages[a], account[a], unknown)
    BY <1>2, <1>5, <2>1
  <2>3. n \in Request /\ n.att = r.att /\ Known(n, status[a], packages[a], account[a], unknown)
    BY <1>5, <2>2, KnownBalanced
  <2> HIDE DEF n
  <2> QED BY <1>5, <2>1, <2>3
<1> HIDE DEF n
<1> QED BY <1>1, <1>2, <1>4, <1>7, MoveLate, RespondLate DEF lateVars

LEMMA ProceedLate ==
    ASSUME LateInv, NEW w \in Workers, Proceed(w)
    PROVE  LateInv'
<1>1. LateTypeOK' /\ UNCHANGED lateVars
  BY ProceedTypes DEF Proceed
<1>2. CASE Fail(w) \/ SendEmail(w)
  BY <1>1, <1>2, RespondLate DEF Fail, SendEmail, At, lateVars
<1> QED BY <1>1, <1>2, UpdateAttendeeLate, EarlyLate, BookAdjustmentLate, KeepCoveredDueLate,
           VoidUnpaidDueLate, AdjustStatusToBalanceLate DEF Proceed

-----------------------------------------------------------------------------
(* The request is concluded. *)

LEMMA ConcludeLate ==
    ASSUME LateInv, NEW w \in Workers, Conclude(w)
    PROVE  LateInv'
<1>1. /\ AddStatusChange(w) \/ LeaveStatus(w)
      /\ Busy(w) /\ req[w].pc = "record" /\ Progress(w)
  BY DEF Conclude, AddStatusChange, LeaveStatus, At, Progress, Handle
<1>2. PICK a \in Attendees :
          /\ a = req[w].att /\ req[w] \in Request /\ KnownAt(w, a)
          /\ status[a] \in Statuses /\ account[a] \in AccountType
          /\ \A x \in Workers \ {w} : ~Handles(x, a)
  BY <1>1, AloneLate
<1>3. PICK r \in Request : r = req[w]
  BY <1>2
<1>4. /\ r.pc = "record" /\ r.att = a /\ r.pkg = packages[a] /\ r.old = status[a]
      /\ Known(r, status[a], packages[a], account[a], Unknown(a))
  BY <1>1, <1>2, <1>3 DEF KnownAt, Known
<1>5. Settle(r) /\ UNCHANGED <<packages, account>>
  BY <1>1, <1>3 DEF AddStatusChange, LeaveStatus
<1>6. status'[a] = r.new /\ \A b \in Attendees \ {a} : status'[b] = status[b]
  <2>1. CASE AddStatusChange(w)
    BY <1>3, <1>4, <2>1 DEF AddStatusChange, LateInv, LateTypeOK, TypeOK
  <2>2. CASE LeaveStatus(w)
    BY <1>3, <1>4, <2>2 DEF LeaveStatus
  <2> QED BY <1>1, <2>1, <2>2
<1>7. /\ \A x \in Workers \ {w} : req'[x] = req[x]
      /\ Busy(w)' => req'[w].att = a /\ req'[w].pkg = packages[a] /\ req'[w].pc = "mail"
  <2>1. CASE AddStatusChange(w)
    <3> DEFINE n == [r EXCEPT !.pc = "mail"]
    <3>1. req' = [req EXCEPT ![w] = n]
      BY <1>3, <2>1 DEF AddStatusChange, Continue
    <3>2. n.att = a /\ n.pkg = packages[a] /\ n.pc = "mail"
      BY <1>4 DEF Request
    <3> HIDE DEF n
    <3> QED BY <3>1, <3>2 DEF LateInv, LateTypeOK, TypeOK
  <2>2. CASE LeaveStatus(w)
    <3>1. req' = [req EXCEPT ![w] = Idle]
      BY <2>2 DEF LeaveStatus, Respond
    <3> QED BY <3>1 DEF LateInv, LateTypeOK, TypeOK, Busy, Idle
  <2> QED BY <1>1, <2>1, <2>2
<1>8. /\ \A b \in Attendees \ {a} : settled'[b] = settled[b] /\ basis'[b] = basis[b]
      /\ r.new \in ByBalance \cup {"cancelled"} => basis'[a] = r.seen
  BY <1>4, <1>5 DEF Settle, LateInv, LateTypeOK, TypeOK
<1>9. arrived' = [arrived EXCEPT ![a] = Unknown(a)] /\ UNCHANGED <<late, since>>
  BY <1>2 DEF Conclude, Unknown, UnknownOf
<1>10. /\ Unknown(a) \in Seq(Due) /\ Len(Unknown(a)) = since[a]
       /\ arrived[a] \in Seq(Due) /\ since[a] \in 0 .. Len(arrived[a])
  BY UnknownTyped
<1>11. /\ arrived'[a] = Unknown(a) /\ since'[a] = since[a]
       /\ \A b \in Attendees \ {a} : arrived'[b] = arrived[b]
  BY <1>9 DEF LateInv, LateTypeOK
<1>12. Unknown(a)' = Unknown(a)
  <2>1. Unknown(a)' = UnknownOf(Unknown(a), since[a])
    BY <1>11 DEF Unknown
  <2>2. UnknownOf(Unknown(a), since[a]) = Unknown(a)
    BY <1>10, UnknownIs DEF Unknown
  <2> QED BY <2>1, <2>2
<1>13. LateTypeOK'
  <2>1. TypeOK'
    BY <1>1, ProgressType DEF LateInv, LateTypeOK
  <2>2. arrived' \in [Attendees -> Seq(Due)]
    BY <1>9, <1>10 DEF LateInv, LateTypeOK
  <2>3. \A b \in Attendees : since'[b] <= Len(arrived'[b])
    <3> TAKE b \in Attendees
    <3>1. CASE b = a
      <4>1. since'[a] = Len(arrived'[a]) /\ since[a] \in Nat
        BY <1>10, <1>11
      <4> QED BY <1>11, <3>1, <4>1
    <3>2. CASE b # a
      BY <1>9, <1>11, <3>2 DEF LateInv, LateTypeOK
    <3> QED BY <3>1, <3>2
  <2> QED BY <1>9, <2>1, <2>2, <2>3 DEF LateInv, LateTypeOK
<1>14. Busy(w)' => KnownAt(w, a)'
  <2>1. SUFFICES ASSUME Busy(w)'
                 PROVE  KnownAt(w, a)'
    OBVIOUS
  <2>2. Known(req'[w], status'[a], packages'[a], account'[a], Unknown(a)')
    BY <1>5, <1>7, <2>1, KnownEarly
  <2> QED BY <2>2 DEF KnownAt
<1>15. StandsAt(a)'
  <2>1. Stands(r.new, packages[a], account[a], basis'[a], Unknown(a))
    BY <1>4, <1>8, StandsConcluded
  <2>2. Stands(status'[a], packages'[a], account'[a], basis'[a], arrived'[a])
    BY <1>5, <1>6, <1>11, <2>1
  <2> QED BY <2>2 DEF StandsAt
<1>16. Adds(account'[a])
  BY <1>5 DEF LateInv, HoldsAt
<1>17. \A b \in Attendees \ {a} : SameAt(b)
  BY <1>5, <1>6, <1>8, <1>9, <1>11 DEF SameAt
<1> QED BY <1>2, <1>7, <1>13, <1>14, <1>15, <1>16, <1>17, LocalLate

-----------------------------------------------------------------------------
(* Payments, and bookings that come late. *)

\* A step of the payment service on a keeps the invariant if it does for a.
LEMMA BookedLate ==
    ASSUME LateInv, LateTypeOK', NEW a \in Attendees,
           UNCHANGED <<status, packages, req, settled, basis>>,
           \A b \in Attendees \ {a} : SameAt(b),
           \A w \in Workers : Handles(w, a) => KnownAt(w, a)',
           StandsAt(a)', Adds(account'[a])
    PROVE  LateInv'
<1>1. \A w \in Workers, b \in Attendees : Handles(w, b)' <=> Handles(w, b)
  BY DEF Handles, Busy
<1>2. OneRequestEach'
  BY DEF LateInv, OneRequestEach, Busy
<1>3. HoldsAt(a)'
  BY <1>1 DEF HoldsAt
<1>4. ASSUME NEW b \in Attendees, b # a
      PROVE  HoldsAt(b)'
  <2>1. SameAt(b) /\ HoldsAt(b)
    BY <1>4 DEF LateInv
  <2>2. Unknown(b)' = Unknown(b) /\ (StandsAt(b)' <=> StandsAt(b)) /\ Adds(account'[b])
    BY <2>1 DEF SameAt, Unknown, StandsAt, HoldsAt
  <2>3. ASSUME NEW x \in Workers, Handles(x, b)'
        PROVE  KnownAt(x, b)'
    <3>1. Handles(x, b)
      BY <1>1, <2>3
    <3>2. KnownAt(x, b)
      BY <2>1, <3>1 DEF HoldsAt
    <3> QED BY <2>1, <2>2, <3>2 DEF KnownAt, SameAt
  <2> QED BY <2>1, <2>2, <2>3 DEF HoldsAt
<1> QED BY <1>2, <1>3, <1>4 DEF LateInv

LEMMA BookPaymentLate ==
    ASSUME LateInv, NEW a \in Attendees, BookPayment(a), UNCHANGED lateVars
    PROVE  LateInv'
<1>1. PICK c \in PaymentAmounts : account' = [account EXCEPT ![a] = WithPayment(@, c)]
  BY DEF BookPayment
<1>2. LateTypeOK'
  BY BookPaymentType, LateTypesStay DEF LateInv, LateTypeOK
<1>3. UNCHANGED <<status, packages, req, settled, basis, arrived, since>>
  BY DEF BookPayment, lateVars
<1>4. /\ account'[a] = WithPayment(account[a], c)
      /\ \A b \in Attendees \ {a} : account'[b] = account[b]
      /\ account[a] \in AccountType
  BY <1>1 DEF LateInv, LateTypeOK, TypeOK
<1>5. HoldsAt(a) /\ c \in Int
  BY PaymentAssumption DEF LateInv
<1>6. Adds(account'[a])
  BY <1>4, <1>5, WithPaymentAdds DEF HoldsAt
<1>7. Unknown(a)' = Unknown(a)
  BY <1>3 DEF Unknown
<1>8. \A w \in Workers : Handles(w, a) => KnownAt(w, a)'
  <2>1. SUFFICES ASSUME NEW w \in Workers, Handles(w, a)
                 PROVE  KnownAt(w, a)'
    OBVIOUS
  <2>2. Known(req[w], status[a], packages[a], account[a], Unknown(a))
    BY <1>5, <2>1 DEF HoldsAt, KnownAt
  <2>3. Known(req[w], status[a], packages[a], WithPayment(account[a], c), Unknown(a))
    BY <1>4, <2>2, PaidLater
  <2> QED BY <1>3, <1>4, <1>7, <2>3 DEF KnownAt
<1>9. StandsAt(a)'
  <2>1. settled[a] => Stands(status[a], packages[a], account[a], basis[a], arrived[a])
    BY <1>5 DEF HoldsAt, StandsAt
  <2>2. settled[a] => Stands(status[a], packages[a], WithPayment(account[a], c), basis[a], arrived[a])
    BY <1>4, <2>1, PaidLater
  <2> QED BY <1>3, <1>4, <2>2 DEF StandsAt
<1>10. \A b \in Attendees \ {a} : SameAt(b)
  BY <1>3, <1>4 DEF SameAt
<1> QED BY <1>2, <1>3, <1>6, <1>8, <1>9, <1>10, BookedLate

LEMMA RemoveAtTyped ==
    ASSUME NEW list \in Seq(Due), NEW i \in DOMAIN list
    PROVE  RemoveAt(list, i) \in Seq(Due)
<1>1. i \in 1 .. Len(list) /\ Len(list) \in Nat
  OBVIOUS
<1>2. SubSeq(list, 1, i - 1) \in Seq(Due) /\ SubSeq(list, i + 1, Len(list)) \in Seq(Due)
  BY <1>1
<1> QED BY <1>2 DEF RemoveAt

LEMMA BookLateLate ==
    ASSUME LateInv, NEW a \in Attendees, BookLate(a)
    PROVE  LateInv'
<1>1. PICK i \in DOMAIN late[a] :
        /\ account' = [account EXCEPT ![a] = WithDue(@, late[a][i].vat, late[a][i].cent)]
        /\ late' = [late EXCEPT ![a] = RemoveAt(@, i)]
        /\ arrived' = [arrived EXCEPT ![a] = Append(@, late[a][i])]
        /\ since' = [since EXCEPT ![a] = @ + 1]
  BY DEF BookLate
<1>2. UNCHANGED <<status, packages, regdesk, req, settled, basis>>
  BY DEF BookLate
<1>3. /\ late \in [Attendees -> Seq(Due)] /\ late[a] \in Seq(Due)
      /\ arrived \in [Attendees -> Seq(Due)] /\ arrived[a] \in Seq(Due)
      /\ since \in [Attendees -> Nat] /\ since[a] \in 0 .. Len(arrived[a])
      /\ account \in [Attendees -> AccountType]
      /\ TypeOK
  BY UnknownTyped DEF LateInv, LateTypeOK, TypeOK
<1>4. PICK tx \in Due : tx = late[a][i]
  BY <1>3
<1>5. tx.vat \in VATs /\ tx.cent \in Int
  BY <1>4 DEF Due
<1> DEFINE acc == WithDue(account[a], tx.vat, tx.cent)
           list == Append(arrived[a], tx)
<1>6. acc \in AccountType /\ Adds(acc)
  BY <1>3, <1>5, WithDueType, WithDueAdds DEF LateInv, HoldsAt
<1>7. list \in Seq(Due) /\ Len(list) = Len(arrived[a]) + 1
  BY <1>3, <1>4
<1>8. /\ account'[a] = acc /\ arrived'[a] = list /\ since'[a] = since[a] + 1
      /\ \A b \in Attendees \ {a} : SameAt(b)
  BY <1>1, <1>2, <1>3, <1>4 DEF SameAt
<1>9. LateTypeOK'
  <2>1. account' \in [Attendees -> AccountType]
    BY <1>1, <1>3, <1>4, <1>6
  <2>2. TypeOK'
    BY <1>2, <1>3, <2>1 DEF TypeOK
  <2>3. late' \in [Attendees -> Seq(Due)]
    BY <1>1, <1>3, RemoveAtTyped
  <2>4. arrived' \in [Attendees -> Seq(Due)] /\ since' \in [Attendees -> Nat]
    <3> HIDE DEF list
    <3>1. arrived' = [arrived EXCEPT ![a] = list]
      BY <1>1, <1>4 DEF list
    <3>2. since[a] + 1 \in Nat
      BY <1>3
    <3> QED BY <1>1, <1>3, <1>7, <3>1, <3>2
  <2>5. \A b \in Attendees : since'[b] <= Len(arrived'[b])
    <3> TAKE b \in Attendees
    <3>1. CASE b = a
      BY <1>3, <1>7, <1>8, <3>1
    <3>2. CASE b # a
      BY <1>8, <3>2 DEF SameAt, LateInv, LateTypeOK
    <3> QED BY <3>1, <3>2
  <2> QED BY <2>2, <2>3, <2>4, <2>5 DEF LateTypeOK
<1>10. Unknown(a)' = Append(Unknown(a), tx)
  <2>1. Unknown(a)' = UnknownOf(list, since[a] + 1)
    BY <1>8 DEF Unknown
  <2>2. UnknownOf(list, since[a] + 1) = Append(UnknownOf(arrived[a], since[a]), tx)
    BY <1>3, UnknownMore
  <2> QED BY <2>1, <2>2 DEF Unknown
<1>11. \A w \in Workers : Handles(w, a) => KnownAt(w, a)'
  <2>1. SUFFICES ASSUME NEW w \in Workers, Handles(w, a)
                 PROVE  KnownAt(w, a)'
    OBVIOUS
  <2>2. req[w] \in Request /\ packages[a] \in Selections /\ account[a] \in AccountType
    BY <2>1, <1>3, AloneLate DEF Handles, TypeOK
  <2>3. Known(req[w], status[a], packages[a], account[a], Unknown(a))
    BY <2>1 DEF LateInv, HoldsAt, KnownAt
  <2>4. PICK unknown \in Seq(Due) : unknown = Unknown(a)
    BY UnknownTyped
  <2>5. Known(req[w], status[a], packages[a], acc, Append(unknown, tx))
    BY <2>2, <2>3, <2>4, KnownLate
  <2> HIDE DEF acc
  <2> QED BY <1>2, <1>8, <1>10, <2>4, <2>5 DEF KnownAt
<1>12. StandsAt(a)'
  <2>1. settled[a] => Stands(status[a], packages[a], account[a], basis[a], arrived[a])
    BY DEF LateInv, HoldsAt, StandsAt
  <2>2. status[a] \in Statuses /\ packages[a] \in Selections /\ account[a] \in AccountType
    BY <1>3 DEF TypeOK
  <2>3. settled[a] => Stands(status[a], packages[a], acc, basis[a], list)
    BY <1>3, <2>1, <2>2, StandsLate
  <2> HIDE DEF acc, list
  <2> QED BY <1>2, <1>8, <2>3 DEF StandsAt
<1> HIDE DEF acc, list
<1> QED BY <1>2, <1>6, <1>8, <1>9, <1>11, <1>12, BookedLate

-----------------------------------------------------------------------------
LEMMA InitLate == LateInit => LateInv
<1> SUFFICES ASSUME LateInit PROVE LateInv
  OBVIOUS
<1>1. TypeOK
  BY InitType DEF LateInit
<1>2. << >> \in Seq(Due) /\ Len(<< >>) = 0
  OBVIOUS
<1>3. LateTypeOK
  BY <1>1, <1>2 DEF LateInit, LateTypeOK
<1>4. \A w \in Workers : ~Busy(w)
  BY DEF LateInit, Init, Busy, Idle
<1>5. Adds(NoDebitor)
  BY SumOfNone DEF Adds, NoDebitor
<1>6. ASSUME NEW a \in Attendees
      PROVE  HoldsAt(a)
  <2>1. /\ status[a] = "new" /\ account[a] = NoDebitor /\ arrived[a] = << >>
        /\ DesiredDues("new", packages[a]) = NoDues
    BY DEF LateInit, Init, DesiredDues
  <2>2. OffBy(NoDebitor, NoDues, << >>)
    <3> SUFFICES ASSUME NEW v \in VATs
                 PROVE  NoDebitor.dues[v] = NoDues[v] + LateIn(<< >>, v)
      BY DEF OffBy
    <3>1. NoDebitor.dues = NoDues /\ NoDues[v] = 0
      BY DEF NoDebitor, NoDues
    <3>2. PICK none \in Int : none = LateIn(<< >>, v) /\ none = 0
      BY LateInNone
    <3>3. NoDues[v] = NoDues[v] + none
      BY <3>1, <3>2
    <3> QED BY <3>1, <3>2, <3>3
  <2>3. Stands("new", packages[a], NoDebitor, basis[a], << >>)
    BY <2>1, <2>2 DEF Stands, ByBalance
  <2> QED BY <1>4, <1>5, <2>1, <2>3 DEF HoldsAt, StandsAt, Handles
<1> QED BY <1>3, <1>4, <1>6 DEF LateInv, OneRequestEach

LEMMA NextLate == LateInv /\ [LateNext]_allVars => LateInv'
<1> SUFFICES ASSUME LateInv, [LateNext]_allVars PROVE LateInv'
  OBVIOUS
<1>1. ASSUME NEW w \in Workers, NEW a \in Attendees,
             Quiet(a), Arrive(w, a), UNCHANGED lateVars
      PROVE  LateInv'
  BY <1>1, ArriveLate
<1>2. ASSUME NEW w \in Workers, LateProgress(w) PROVE LateInv'
  BY <1>2, ReadDuesLate, ConcludeLate, ProceedLate, GiveUpLate DEF LateProgress
<1>3. ASSUME NEW a \in Attendees, BookPayment(a), UNCHANGED lateVars PROVE LateInv'
  BY <1>3, BookPaymentLate
<1>4. ASSUME NEW a \in Attendees, BookLate(a) PROVE LateInv'
  BY <1>4, BookLateLate
<1>5. CASE UNCHANGED allVars
  <2>1. UNCHANGED <<status, packages, regdesk, account, req, settled, basis, late, arrived, since>>
    BY <1>5 DEF allVars, vars, lateVars
  <2> QED BY <2>1 DEF LateInv, LateTypeOK, TypeOK, OneRequestEach, HoldsAt, Handles, KnownAt,
                      StandsAt, Unknown, Busy
<1> QED BY <1>1, <1>2, <1>3, <1>4, <1>5 DEF LateNext

-----------------------------------------------------------------------------
\* No transaction is booked, given up or booked late but dues at a tax rate, and no
\* request gets stuck between its steps, however late the payment service is.
THEOREM LateTypesHold == LateSpec => []LateTypeOK
<1>1. LateInv => LateTypeOK
  BY DEF LateInv
<1> QED BY <1>1, InitLate, NextLate, PTL DEF LateSpec

\* Dues are off what status and packages call for by exactly the late bookings the last
\* concluded request did not know of, however many were given up and booked late before
\* (adjustDuesAccordingToSelectedPackages, compensateAllDues).
THEOREM OffByLateBookings == LateSpec => []DuesOffByLateBookings
<1>1. LateInv => DuesOffByLateBookings
  <2> SUFFICES ASSUME LateInv, NEW a \in Attendees, NEW v \in VATs, settled[a]
               PROVE  /\ status[a] \in {"new", "deleted"} => account[a].dues[v] = LateAt(a, v)
                      /\ status[a] \notin {"new", "deleted", "cancelled"}
                            => account[a].dues[v] = packageDuesByVAT(packages[a])[v] + LateAt(a, v)
    BY DEF DuesOffByLateBookings
  <2>1. status[a] # "cancelled" =>
          account[a].dues[v] = DesiredDues(status[a], packages[a])[v] + LateIn(arrived[a], v)
    BY DEF LateInv, HoldsAt, StandsAt, Stands, OffBy
  <2>2. LateIn(arrived[a], v) \in Int
    BY UnknownTyped, LateInTyped
  <2>3. ASSUME status[a] \in {"new", "deleted"}
        PROVE  account[a].dues[v] = LateIn(arrived[a], v)
    <3>1. DesiredDues(status[a], packages[a])[v] = 0
      BY <2>3 DEF DesiredDues, NoDues
    <3> QED BY <2>1, <2>2, <2>3, <3>1
  <2>4. ASSUME status[a] \notin {"new", "deleted", "cancelled"}
        PROVE  account[a].dues[v] = packageDuesByVAT(packages[a])[v] + LateIn(arrived[a], v)
    BY <2>1, <2>4 DEF DesiredDues
  <2> QED BY <2>3, <2>4 DEF LateAt
<1> QED BY <1>1, InitLate, NextLate, PTL DEF LateSpec

\* Once a request has been concluded that knew of all late bookings, the balance decides
\* among approved, partially paid and paid as if there had been none, and who is
\* cancelled owes no more than was paid (UpdateDues, compensateUnpaidDuesOnCancel).
THEOREM LateBookingsAreMadeGood == LateSpec => []LateBookingsMadeGood
<1>1. LateInv => LateBookingsMadeGood
  <2> SUFFICES ASSUME LateInv, NEW a \in Attendees, settled[a], arrived[a] = << >>
               PROVE  /\ status[a] \in ByBalance =>
                            /\ status[a] = "approved" <=> account[a].total > 0 /\ basis[a] <= 0
                            /\ status[a] = "partially paid"
                                  <=> basis[a] > 0 /\ account[a].total - basis[a] > graceAmountCents
                      /\ status[a] = "cancelled" => account[a].total <= Max0(basis[a])
    BY DEF LateBookingsMadeGood, Max0
  <2>1. account[a].total \in Int /\ basis[a] \in Int
    BY DEF LateInv, LateTypeOK, TypeOK, AccountType
  <2>2. /\ status[a] \in ByBalance => status[a] = StatusForBalance(account[a].total, basis[a])
        /\ status[a] = "cancelled" => account[a].total <= Max0(basis[a])
    BY DEF LateInv, HoldsAt, StandsAt, Stands
  <2> QED BY <2>1, <2>2, StatusTells
<1> QED BY <1>1, InitLate, NextLate, PTL DEF LateSpec
=============================================================================
