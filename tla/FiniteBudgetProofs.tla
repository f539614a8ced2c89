------------------------- MODULE FiniteBudgetProofs -------------------------
(***************************************************************************)
(* Type correctness, the money invariants and the refinement of            *)
(* FiniteBudget, for every number of attempts, limit, quote and report.    *)
(*                                                                         *)
(* The invariant is split along its subjects: Books speaks of the record   *)
(* alone and is shown, as lemmas without primes, to survive each record    *)
(* the journal can write; the other parts tie the record to the provider,  *)
(* to the owning process and to the thread that read a snapshot.           *)
(***************************************************************************)
EXTENDS FiniteBudget, TotalsProofs

\* Per attempt, the most it may still be found to have cost by record d.
ExposureOf(d) == [a \in Attempts |-> IF a \in d.pending THEN d.quote[a] ELSE d.cost[a]]

\* The record is consistent by itself: a hold has no settled cost yet, numbers
\* not handed out are blank, and the floor counts every known cost once.
Books(d) ==
  /\ d.open \subseteq d.observed
  /\ d.usage <= d.floor
  /\ \A a \in d.pending : d.cost[a] = 0
  /\ \A a \in Attempts : a >= d.next => a \notin d.pending /\ d.cost[a] = 0
  /\ d.floor = PriorCost + Total(MaxAttempt, d.cost) + Total(MaxAttempt, OpenCredit(d))

\* A POST not answered still has its hold; nothing is sent without one.
Sends ==
  \A a \in Attempts :
    /\ posts[a] <= 1 /\ answered[a] <= posts[a]
    /\ answered[a] = 0 => charge[a] = 0
    /\ posts[a] > answered[a] => a \in disk.pending
    /\ a >= disk.next => posts[a] = 0

\* A receipt belongs to an answered attempt and credits at most its charge.
Receipts ==
  /\ \A a \in disk.observed : answered[a] > 0
  /\ \A a \in disk.open : disk.credit[a] <= charge[a]

\* The exposure of the whole run stays within what the operator granted.
Bounded ==
  /\ disk.limit <= granted
  /\ PriorCost + Total(MaxAttempt, ExposureOf(disk)) <= Larger(granted, PriorCost)

\* A live owner knows every hold, and which of them it already sent.
Ownership ==
  /\ files = "legacy" => disk.pending = {} /\ granted = 0
  /\ owner # "none" => files = "active"
  /\ owner = "live" =>
       /\ disk.pending \subseteq held
       /\ \A a \in disk.pending : posts[a] > 0 => a \in dispatched

\* A snapshot whose revision is current carries the current usage.
Snapshots ==
  /\ snap.revision <= disk.revision
  /\ snap.revision = disk.revision => snap.usage = disk.usage

IInv ==
  /\ TypeOK /\ Books(disk) /\ Sends /\ Receipts /\ ChargesAreCovered
  /\ Bounded /\ Ownership /\ Snapshots /\ LedgerKeepsReports

-----------------------------------------------------------------------------
\* Two columns that differ only at attempt a differ in total by that entry.
LEMMA TotalOfAttempts ==
  ASSUME NEW f \in [1..MaxAttempt -> Nat], NEW g \in [1..MaxAttempt -> Nat],
         NEW a \in Attempts, \A i \in 1..MaxAttempt : i # a => g[i] = f[i]
  PROVE  Total(MaxAttempt, g) + f[a] = Total(MaxAttempt, f) + g[a]
<1>1. MaxAttempt \in Nat
  BY BoundsAssumption DEF BoundsAssumption
<1>2. a \in 1..MaxAttempt
  BY DEF Attempts
<1>3. QED
  BY <1>1, <1>2, TotalUpdate, Zenon

(***************************************************************************)
(* The records the journal writes, one lemma each.                         *)
(***************************************************************************)

\* The fields of a record have their types.
LEMMA Fields ==
  ASSUME NEW d \in Records
  PROVE  /\ d.limit \in Nat /\ d.floor \in Nat /\ d.usage \in Nat
         /\ d.next \in 1..(MaxAttempt + 1) /\ d.revision \in 0..MaxRevision
         /\ d.pending \subseteq Attempts /\ d.observed \subseteq Attempts
         /\ d.open \subseteq Attempts
         /\ d.quote \in [Attempts -> Nat] /\ d.cost \in [Attempts -> Nat]
         /\ d.credit \in [Attempts -> Nat]
BY DEF Records

\* What the record derives from its fields are functions of naturals.
LEMMA Derived ==
  ASSUME NEW d \in Records
  PROVE  /\ Holds(d) \in [1..MaxAttempt -> Nat]
         /\ OpenCredit(d) \in [1..MaxAttempt -> Nat]
         /\ ExposureOf(d) \in [1..MaxAttempt -> Nat]
         /\ d.cost \in [1..MaxAttempt -> Nat]
BY Fields DEF Holds, OpenCredit, ExposureOf, Attempts

\* A reservation keeps the books and exposes exactly its quote more.
LEMMA ReservedKeeps ==
  ASSUME NEW d \in Records, NEW q \in Nat, Books(d),
         d.next <= MaxAttempt, d.revision < MaxRevision
  PROVE  LET e == Reserved(d, q) IN
         /\ e \in Records /\ Books(e)
         /\ e.revision = d.revision + 1 /\ e.next = d.next + 1
         /\ e.limit = d.limit /\ e.usage = d.usage /\ e.floor = d.floor
         /\ e.pending = d.pending \union {d.next}
         /\ e.observed = d.observed /\ e.open = d.open /\ e.credit = d.credit
         /\ ExposureOf(e) = [ExposureOf(d) EXCEPT ![d.next] = q]
         /\ ExposureOf(d)[d.next] = 0
<1> DEFINE e == Reserved(d, q)
<1>1. d.next \in Attempts /\ d.next + 1 \in 1..(MaxAttempt + 1) /\ d.revision + 1 \in 0..MaxRevision
  BY Fields, BoundsAssumption DEF Attempts
<1>2. /\ e.revision = d.revision + 1 /\ e.next = d.next + 1
      /\ e.limit = d.limit /\ e.usage = d.usage /\ e.floor = d.floor
      /\ e.pending = d.pending \union {d.next} /\ e.cost = d.cost
      /\ e.observed = d.observed /\ e.open = d.open /\ e.credit = d.credit
      /\ e.quote = [d.quote EXCEPT ![d.next] = q]
  BY DEF Records, Reserved
<1>3. e \in Records
  BY <1>1, Fields DEF Records, Reserved
<1>4. Books(e)
  <2>1. OpenCredit(e) = OpenCredit(d)
    BY <1>2 DEF OpenCredit
  <2>2. d.cost[d.next] = 0
    BY <1>1, Fields DEF Books
  <2>3. \A a \in Attempts : a >= e.next => a \notin e.pending /\ e.cost[a] = 0
    BY <1>2, Fields DEF Books, Attempts
  <2>4. QED
    BY <1>2, <2>1, <2>2, <2>3 DEF Books
<1>5. ExposureOf(d)[d.next] = 0
  BY <1>1, Fields DEF ExposureOf, Books
<1>6. ExposureOf(e) = [ExposureOf(d) EXCEPT ![d.next] = q]
  BY <1>1, <1>2, Fields DEF ExposureOf
<1>7. QED
  BY <1>2, <1>3, <1>4, <1>5, <1>6

\* A settlement at a cost within the quote keeps the books: the floor rises by
\* what the receipt had not credited, and only a's exposure changes.
LEMMA SettledKeeps ==
  ASSUME NEW d \in Records, NEW a \in d.pending, NEW actual \in Nat, NEW usage \in Nat,
         Books(d), d.revision < MaxRevision,
         a \in d.observed => a \in d.open /\ d.credit[a] <= actual,
         usage <= d.usage + (IF a \in d.observed THEN 0 ELSE actual)
  PROVE  LET e == Settled(d, a, actual, usage) IN
         /\ e \in Records /\ Books(e)
         /\ e.revision = d.revision + 1 /\ e.next = d.next /\ e.limit = d.limit
         /\ e.usage = usage /\ e.pending = d.pending \ {a}
         /\ e.observed = d.observed /\ e.open = d.open \ {a} /\ e.credit = d.credit
         /\ ExposureOf(e) = [ExposureOf(d) EXCEPT ![a] = actual]
<1> DEFINE e == Settled(d, a, actual, usage)
           credit == IF a \in d.observed THEN d.credit[a] ELSE 0
           raised == d.floor + Larger(0, actual - credit)
<1>1. a \in Attempts /\ d.floor \in Nat /\ d.usage \in Nat /\ d.revision + 1 \in 0..MaxRevision
  BY Fields, BoundsAssumption
<1>2. credit \in Nat /\ credit <= actual
  BY <1>1, Fields
<1>3. raised = d.floor + (actual - credit) /\ raised \in Nat /\ usage <= raised
  <2>1. Larger(0, actual - credit) = actual - credit
    BY <1>2 DEF Larger
  <2>2. CASE a \in d.observed
    <3>1. usage <= d.usage /\ d.usage <= d.floor
      BY <2>2, <1>1 DEF Books
    <3>2. QED
      BY <1>1, <1>2, <2>1, <3>1
  <2>3. CASE a \notin d.observed
    <3>1. usage <= d.usage + actual /\ d.usage <= d.floor /\ credit = 0
      BY <2>3, <1>1 DEF Books
    <3>2. QED
      BY <1>1, <1>2, <2>1, <3>1
  <2>4. QED
    BY <2>2, <2>3
<1>4. Larger(raised, usage) = raised
  BY <1>3 DEF Larger
<1>5. /\ e.revision = d.revision + 1 /\ e.next = d.next /\ e.limit = d.limit
      /\ e.usage = usage /\ e.pending = d.pending \ {a} /\ e.quote = d.quote
      /\ e.observed = d.observed /\ e.open = d.open \ {a} /\ e.credit = d.credit
      /\ e.cost = [d.cost EXCEPT ![a] = actual] /\ e.floor = raised
  <2> HIDE DEF raised
  <2>1. e = [d EXCEPT !.pending = @ \ {a}, !.open = @ \ {a}, !.cost[a] = actual, !.usage = usage,
                      !.floor = raised, !.revision = @ + 1]
    BY <1>4, Zenon DEF Settled, raised
  <2>2. QED
    <3> HIDE DEF e
    <3>1. QED
      BY <2>1 DEF Records
<1>6. e \in Records
  BY <1>1, <1>3, <1>4, Fields DEF Records, Settled
<1> HIDE DEF e, raised
<1>7. Books(e)
  <2>1. Total(MaxAttempt, e.cost) = Total(MaxAttempt, d.cost) + actual
    <3>1. e.cost[a] = actual /\ d.cost[a] = 0
      BY <1>1, <1>5, Fields DEF Books
    <3>2. \A i \in 1..MaxAttempt : i # a => e.cost[i] = d.cost[i]
      BY <1>5, Fields DEF Attempts
    <3>3. d.cost \in [1..MaxAttempt -> Nat] /\ e.cost \in [1..MaxAttempt -> Nat]
      BY <1>6, Derived
    <3>4. Total(MaxAttempt, e.cost) + d.cost[a] = Total(MaxAttempt, d.cost) + e.cost[a]
      BY <1>1, <3>2, <3>3, TotalOfAttempts, Zenon
    <3>5. Total(MaxAttempt, e.cost) \in Nat /\ Total(MaxAttempt, d.cost) \in Nat
      BY <3>3, TotalNat, BoundsAssumption
    <3>6. QED
      BY <3>1, <3>4, <3>5
  <2>2. Total(MaxAttempt, OpenCredit(e)) + credit = Total(MaxAttempt, OpenCredit(d))
    <3>1. OpenCredit(e)[a] = 0 /\ OpenCredit(d)[a] = credit
      BY <1>1, <1>5, Fields DEF OpenCredit, Books
    <3>2. \A i \in 1..MaxAttempt : i # a => OpenCredit(e)[i] = OpenCredit(d)[i]
      BY <1>5 DEF OpenCredit, Attempts
    <3>3. OpenCredit(d) \in [1..MaxAttempt -> Nat] /\ OpenCredit(e) \in [1..MaxAttempt -> Nat]
      BY <1>6, Derived
    <3>4. Total(MaxAttempt, OpenCredit(e)) + OpenCredit(d)[a]
            = Total(MaxAttempt, OpenCredit(d)) + OpenCredit(e)[a]
      BY <1>1, <3>2, <3>3, TotalOfAttempts, Zenon
    <3>5. Total(MaxAttempt, OpenCredit(e)) \in Nat /\ Total(MaxAttempt, OpenCredit(d)) \in Nat
      BY <3>3, TotalNat, BoundsAssumption
    <3>6. QED
      BY <1>2, <3>1, <3>4, <3>5
  <2>3. e.floor = PriorCost + Total(MaxAttempt, e.cost) + Total(MaxAttempt, OpenCredit(e))
    <3>1. PICK t \in Nat, u \in Nat, v \in Nat :
            /\ t = Total(MaxAttempt, d.cost)
            /\ u = Total(MaxAttempt, OpenCredit(d)) /\ v = Total(MaxAttempt, OpenCredit(e))
      BY <1>6, Derived, TotalNat, BoundsAssumption
    <3>2. d.floor = PriorCost + t + u
      BY <3>1 DEF Books
    <3>3. e.floor = d.floor + (actual - credit)
      BY <1>3, <1>5
    <3>4. v + credit = u
      BY <2>2, <3>1
    <3>5. e.floor = PriorCost + (t + actual) + v
      <4> HIDE DEF credit
      <4>1. QED
        BY <1>1, <1>2, <3>2, <3>3, <3>4, BoundsAssumption
    <3>6. QED
      BY <2>1, <3>1, <3>5
  <2>4. \A b \in e.pending : e.cost[b] = 0
    BY <1>5, Fields DEF Books
  <2>5. \A b \in Attempts : b >= e.next => b \notin e.pending /\ e.cost[b] = 0
    BY <1>5, Fields DEF Books
  <2>6. e.open \subseteq e.observed /\ e.usage <= e.floor
    BY <1>3, <1>5 DEF Books
  <2>7. QED
    BY <2>3, <2>4, <2>5, <2>6 DEF Books
<1>8. ExposureOf(e) = [ExposureOf(d) EXCEPT ![a] = actual]
  BY <1>1, <1>5, Fields DEF ExposureOf
<1>9. QED
  BY <1>5, <1>6, <1>7, <1>8 DEF e

\* A callback of cost c, not seen before, keeps the books: the floor rises by the
\* credit the receipt records, never by more than c.
LEMMA ObservedKeeps ==
  ASSUME NEW d \in Records, NEW a \in Attempts, NEW c \in Nat,
         Books(d), d.revision < MaxRevision, a \notin d.observed
  PROVE  LET e == Observed(d, a, c) IN
         /\ e \in Records /\ Books(e)
         /\ e.revision = d.revision + 1 /\ e.next = d.next /\ e.limit = d.limit
         /\ e.usage = d.usage + c /\ e.pending = d.pending
         /\ e.observed = d.observed \union {a} /\ e.open = d.open \union {a}
         /\ e.credit[a] <= c /\ \A b \in Attempts : b # a => e.credit[b] = d.credit[b]
         /\ ExposureOf(e) = ExposureOf(d)
<1> DEFINE e == Observed(d, a, c)
           raised == Larger(d.floor, d.usage + c)
           credit == Smaller(c, raised - d.floor)
<1>1. d.floor \in Nat /\ d.usage \in Nat /\ d.revision + 1 \in 0..MaxRevision /\ d.usage <= d.floor
  BY Fields, BoundsAssumption DEF Books
<1>2. /\ credit \in Nat /\ credit <= c /\ raised \in Nat
      /\ raised = d.floor + credit /\ d.usage + c <= raised
  BY <1>1 DEF Larger, Smaller
<1> HIDE DEF raised, credit
<1>3. e = [d EXCEPT !.observed = @ \union {a}, !.open = @ \union {a}, !.usage = @ + c,
                    !.floor = raised, !.credit[a] = credit, !.revision = @ + 1]
  BY Zenon DEF Observed, raised, credit
<1> HIDE DEF e
<1>4. /\ e.revision = d.revision + 1 /\ e.next = d.next /\ e.limit = d.limit
      /\ e.usage = d.usage + c /\ e.pending = d.pending /\ e.quote = d.quote
      /\ e.observed = d.observed \union {a} /\ e.open = d.open \union {a}
      /\ e.credit = [d.credit EXCEPT ![a] = credit]
      /\ e.cost = d.cost /\ e.floor = raised
  BY <1>3 DEF Records
<1>5. e \in Records
  <2>1. d.usage + c \in Nat /\ [d.credit EXCEPT ![a] = credit] \in [Attempts -> Nat]
    BY <1>1, <1>2, Fields
  <2>2. d.observed \union {a} \subseteq Attempts /\ d.open \union {a} \subseteq Attempts
    BY Fields
  <2>3. QED
    BY <1>1, <1>2, <1>3, <2>1, <2>2, Fields DEF Records
<1>6. Books(e)
  <2>1. Total(MaxAttempt, OpenCredit(e)) = Total(MaxAttempt, OpenCredit(d)) + credit
    <3>1. OpenCredit(e)[a] = credit /\ OpenCredit(d)[a] = 0
      BY <1>4, Fields DEF OpenCredit, Books
    <3>2. \A i \in 1..MaxAttempt : i # a => OpenCredit(e)[i] = OpenCredit(d)[i]
      BY <1>4, Fields DEF OpenCredit, Attempts
    <3>3. OpenCredit(d) \in [1..MaxAttempt -> Nat] /\ OpenCredit(e) \in [1..MaxAttempt -> Nat]
      BY <1>5, Derived
    <3>4. Total(MaxAttempt, OpenCredit(e)) + OpenCredit(d)[a]
            = Total(MaxAttempt, OpenCredit(d)) + OpenCredit(e)[a]
      BY <3>2, <3>3, TotalOfAttempts, Zenon
    <3>5. Total(MaxAttempt, OpenCredit(e)) \in Nat /\ Total(MaxAttempt, OpenCredit(d)) \in Nat
      BY <3>3, TotalNat, BoundsAssumption
    <3>6. QED
      BY <1>2, <3>1, <3>4, <3>5
  <2>2. e.floor = PriorCost + Total(MaxAttempt, e.cost) + Total(MaxAttempt, OpenCredit(e))
    <3>1. PICK t \in Nat, u \in Nat :
            t = Total(MaxAttempt, d.cost) /\ u = Total(MaxAttempt, OpenCredit(d))
      BY Derived, TotalNat, BoundsAssumption
    <3>2. d.floor = PriorCost + t + u
      BY <3>1 DEF Books
    <3>3. e.floor = PriorCost + t + (u + credit)
      BY <1>1, <1>2, <1>4, <3>2, BoundsAssumption
    <3>4. QED
      BY <1>4, <2>1, <3>1, <3>3
  <2>3. e.open \subseteq e.observed /\ e.usage <= e.floor
    BY <1>2, <1>4 DEF Books
  <2>4. QED
    BY <1>4, <2>2, <2>3 DEF Books
<1>7. ExposureOf(e) = ExposureOf(d)
  BY <1>4 DEF ExposureOf
<1>8. e.credit[a] <= c /\ \A b \in Attempts : b # a => e.credit[b] = d.credit[b]
  BY <1>2, <1>4, Fields
<1>9. QED
  BY <1>4, <1>5, <1>6, <1>7, <1>8 DEF e

\* e carries the finances of d: all but its limit, revision and report.
SameMoney(d, e) ==
  /\ e.floor = d.floor /\ e.usage = d.usage /\ e.next = d.next
  /\ e.pending = d.pending /\ e.quote = d.quote /\ e.cost = d.cost
  /\ e.observed = d.observed /\ e.open = d.open /\ e.credit = d.credit

\* A new limit at a new revision leaves the finances alone.
LEMMA LimitWritten ==
  ASSUME NEW d \in Records, NEW l \in Nat, d.revision < MaxRevision
  PROVE  LET e == [d EXCEPT !.limit = l, !.revision = @ + 1] IN
         e \in Records /\ SameMoney(d, e) /\ e.limit = l /\ e.revision = d.revision + 1
<1>1. d.revision + 1 \in 0..MaxRevision
  BY Fields, BoundsAssumption
<1>2. QED
  BY <1>1 DEF Records, SameMoney

\* So does the first limit, at activation.
LEMMA LimitActivated ==
  ASSUME NEW d \in Records, NEW l \in Nat
  PROVE  LET e == [d EXCEPT !.limit = l] IN
         e \in Records /\ SameMoney(d, e) /\ e.limit = l /\ e.revision = d.revision
BY DEF Records, SameMoney

\* So does another report.
LEMMA ReportWritten ==
  ASSUME NEW d \in Records, NEW r \in Reports
  PROVE  LET e == [d EXCEPT !.report = r] IN
         e \in Records /\ SameMoney(d, e) /\ e.limit = d.limit /\ e.revision = d.revision
BY DEF Records, SameMoney

\* Records with the same finances have the same books and exposure.
LEMMA SameBooks ==
  ASSUME NEW d, NEW e, SameMoney(d, e)
  PROVE  (Books(d) => Books(e)) /\ ExposureOf(e) = ExposureOf(d)
<1>1. OpenCredit(e) = OpenCredit(d)
  BY DEF OpenCredit, SameMoney
<1>2. QED
  BY <1>1 DEF Books, ExposureOf, SameMoney

\* Exposure is the open holds and the settled costs together, so reserve's
\* comparison counts at least all of it.
LEMMA ExposureSplits ==
  ASSUME NEW d \in Records, Books(d)
  PROVE  PriorCost + Total(MaxAttempt, ExposureOf(d)) <= Committed(d)
<1>1. ASSUME NEW i \in 1..MaxAttempt PROVE ExposureOf(d)[i] = Holds(d)[i] + d.cost[i]
  <2>1. i \in Attempts /\ d.quote[i] \in Nat /\ d.cost[i] \in Nat
    BY Fields DEF Attempts
  <2>2. CASE i \in d.pending
    <3>1. ExposureOf(d)[i] = d.quote[i] /\ Holds(d)[i] = d.quote[i] /\ d.cost[i] = 0
      BY <2>1, <2>2 DEF Books, ExposureOf, Holds
    <3>2. QED
      BY <2>1, <3>1
  <2>3. CASE i \notin d.pending
    <3>1. ExposureOf(d)[i] = d.cost[i] /\ Holds(d)[i] = 0
      BY <2>1, <2>3 DEF ExposureOf, Holds
    <3>2. QED
      BY <2>1, <3>1
  <2>4. QED
    BY <2>2, <2>3
<1>2. Total(MaxAttempt, ExposureOf(d)) = Total(MaxAttempt, Holds(d)) + Total(MaxAttempt, d.cost)
  <2> DEFINE n == MaxAttempt
             f == Holds(d)
             g == d.cost
             h == ExposureOf(d)
  <2>1. /\ n \in Nat /\ f \in [1..n -> Nat] /\ g \in [1..n -> Nat] /\ h \in [1..n -> Nat]
        /\ \A i \in 1..n : h[i] = f[i] + g[i]
    BY <1>1, Derived, BoundsAssumption
  <2> HIDE DEF n, f, g, h
  <2>2. Total(n, h) = Total(n, f) + Total(n, g)
    BY <2>1, TotalPlus
  <2>3. QED
    BY <2>2 DEF n, f, g, h
<1>3. PICK h \in Nat, c \in Nat, o \in Nat :
        /\ h = Total(MaxAttempt, Holds(d)) /\ c = Total(MaxAttempt, d.cost)
        /\ o = Total(MaxAttempt, OpenCredit(d))
  BY Derived, TotalNat, BoundsAssumption
<1>4. PriorCost + c <= d.floor
  BY <1>3, BoundsAssumption DEF Books
<1>5. d.floor <= Larger(d.floor, d.usage) /\ Larger(d.floor, d.usage) \in Nat
  BY Fields DEF Larger
<1>6. Committed(d) = Larger(d.floor, d.usage) + h
  BY <1>3 DEF Committed, Held
<1>7. PriorCost + (h + c) <= Committed(d)
  BY <1>4, <1>5, <1>6, Fields, BoundsAssumption
<1>8. QED
  BY <1>2, <1>3, <1>7

-----------------------------------------------------------------------------
(***************************************************************************)
(* Steps that leave the finances, or the record's clock, alone.            *)
(***************************************************************************)

\* What a step must still show once the money parts are settled.
MoneyParts ==
  /\ Books(disk) /\ Sends /\ Receipts /\ ChargesAreCovered /\ Bounded /\ LedgerKeepsReports

\* A step that keeps the finances and the provider, and a grant that covers the
\* limit, keep every part about money.
LEMMA SameMoneyStep ==
  ASSUME IInv, disk' \in Records, SameMoney(disk, disk'), UNCHANGED <<provider, reported>>,
         granted' \in Nat, granted <= granted', disk'.limit <= granted'
  PROVE  MoneyParts'
<1>1. disk \in Records /\ granted \in Nat
  BY DEF IInv, TypeOK
<1>2. Books(disk)'
  <2>1. Books(disk')
    BY SameBooks DEF IInv
  <2>2. QED
    BY <2>1 DEF Books, OpenCredit
<1>3. Sends' /\ Receipts' /\ ChargesAreCovered' /\ LedgerKeepsReports'
  BY DEF IInv, Sends, Receipts, ChargesAreCovered, Exposure, LedgerKeepsReports, SameMoney, provider
<1>4. Bounded'
  <2>1. ExposureOf(disk)' = ExposureOf(disk)
    BY DEF ExposureOf, SameMoney
  <2>2. PICK t \in Nat : t = Total(MaxAttempt, ExposureOf(disk))
    BY <1>1, Derived, TotalNat, BoundsAssumption
  <2>3. PriorCost + t <= Larger(granted, PriorCost)
    BY <2>2 DEF IInv, Bounded
  <2>4. Larger(granted, PriorCost) <= Larger(granted', PriorCost)
    BY <1>1, BoundsAssumption DEF Larger
  <2>5. Larger(granted, PriorCost) \in Nat /\ Larger(granted', PriorCost) \in Nat
    BY <1>1, BoundsAssumption DEF Larger
  <2>6. PriorCost + t <= Larger(granted', PriorCost)
    BY <2>3, <2>4, <2>5, BoundsAssumption
  <2>7. PriorCost + Total(MaxAttempt, ExposureOf(disk)') <= Larger(granted', PriorCost)
    BY <2>1, <2>2, <2>6
  <2>8. QED
    BY <2>7 DEF Bounded
<1>5. QED
  BY <1>2, <1>3, <1>4 DEF MoneyParts

\* An older snapshot stays honest while the record keeps its usage or moves on.
LEMMA SnapshotsKept ==
  ASSUME IInv, snap' = snap, disk' \in Records,
         \/ disk'.revision = disk.revision /\ disk'.usage = disk.usage
         \/ disk'.revision = disk.revision + 1
  PROVE  Snapshots'
<1>1. disk \in Records /\ snap \in Records
  BY DEF IInv, TypeOK
<1>2. disk.revision \in Nat /\ snap.revision \in Nat
  BY <1>1, Fields, BoundsAssumption
<1>3. QED
  BY <1>2 DEF IInv, Snapshots

\* A write that keeps the finances leaves a well-formed record with them.
LEMMA MoneyWritten ==
  ASSUME IInv, NEW new \in Records, SameMoney(disk, new), Write(new)
  PROVE  /\ disk' \in Records /\ SameMoney(disk, disk') /\ disk' \in {disk, new}
         /\ owner' \in {owner, "poisoned"} /\ known' \in Nat
BY Fields, BoundsAssumption DEF IInv, TypeOK, Write, Commit, CommitFails, SameMoney

\* The parts put together.
LEMMA PartsMakeIInv ==
  ASSUME TypeOK', MoneyParts', Ownership', Snapshots'
  PROVE  IInv'
BY DEF IInv, MoneyParts

-----------------------------------------------------------------------------
(***************************************************************************)
(* Init and the actions, one lemma each.                                   *)
(***************************************************************************)

\* The record before activation satisfies the invariant.
LEMMA InitIInv == Init => IInv
<1> SUFFICES ASSUME Init PROVE IInv
  OBVIOUS
<1>1. PICK r \in Reports : disk = Blank(r)
  BY DEF Init
<1>2. Zeros \in [1..MaxAttempt -> Nat] /\ \A i \in 1..MaxAttempt : Zeros[i] = 0
  BY DEF Zeros, Attempts
<1>3. Total(MaxAttempt, Zeros) = 0
  BY <1>2, TotalZero, BoundsAssumption
<1>4. disk \in Records
  <2>1. 1 \in 1..(MaxAttempt + 1) /\ 0 \in 0..MaxRevision /\ PriorCost \in Nat
    BY BoundsAssumption
  <2>2. QED
    BY <1>1, <1>2, <2>1 DEF Blank, Records, Attempts
<1>5. TypeOK
  BY <1>2, <1>4, BoundsAssumption DEF Init, TypeOK, Attempts
<1>6. OpenCredit(disk) = Zeros /\ ExposureOf(disk) = Zeros /\ disk.cost = Zeros
  BY <1>1, <1>2 DEF Blank, OpenCredit, ExposureOf, Zeros
<1>7. Books(disk)
  <2>1. disk.floor = PriorCost + Total(MaxAttempt, disk.cost) + Total(MaxAttempt, OpenCredit(disk))
    BY <1>1, <1>3, <1>6, BoundsAssumption DEF Blank
  <2>2. QED
    BY <1>1, <1>2, <2>1, BoundsAssumption DEF Blank, Books, Attempts
<1>8. Sends /\ Receipts /\ ChargesAreCovered /\ Ownership /\ LedgerKeepsReports
  BY <1>1, <1>2 DEF Init, Blank, Sends, Receipts, ChargesAreCovered, Exposure, Ownership,
                    LedgerKeepsReports, Attempts
<1>9. Bounded
  <2>1. PriorCost + 0 <= Larger(granted, PriorCost)
    BY BoundsAssumption DEF Init, Larger
  <2>2. QED
    BY <1>1, <1>3, <1>6, <2>1 DEF Init, Blank, Bounded
<1>10. Snapshots
  BY <1>1, BoundsAssumption DEF Init, Blank, Snapshots
<1>11. QED
  BY <1>5, <1>7, <1>8, <1>9, <1>10 DEF IInv

\* Activation grants its limit over a record without holds.
LEMMA ActivateKeeps == IInv /\ Activate => IInv'
<1> SUFFICES ASSUME IInv, Activate PROVE IInv'
  OBVIOUS
<1>1. PICK l \in Limits : /\ granted' = l
                          /\ \/ disk' = [disk EXCEPT !.limit = l]
                             \/ disk' = disk
  BY DEF Activate
<1>2. disk \in Records /\ l \in Nat /\ granted = 0 /\ disk.pending = {} /\ opens \in 0..MaxOpens
  BY BoundsAssumption DEF Activate, IInv, TypeOK, Ownership
<1>3. disk.limit <= granted /\ disk.limit \in Nat
  BY <1>2, Fields DEF IInv, Bounded
<1>4. disk' \in Records /\ SameMoney(disk, disk') /\ disk'.limit \in {l, disk.limit}
  <2>1. CASE disk' = [disk EXCEPT !.limit = l]
    BY <1>2, <2>1, LimitActivated
  <2>2. CASE disk' = disk
    BY <1>2, <2>2 DEF SameMoney
  <2>3. QED
    BY <1>1, <2>1, <2>2
<1>5. MoneyParts'
  BY <1>1, <1>2, <1>3, <1>4, SameMoneyStep DEF Activate
<1>6. disk'.pending = {}
  BY <1>2, <1>4 DEF SameMoney
<1>7. /\ files' \in {"stamp", "active"} /\ owner' \in {"none", "live"}
      /\ owner' # "none" => files' = "active"
  BY DEF Activate
<1>8. Ownership'
  BY <1>6, <1>7 DEF Ownership
<1>9. Snapshots'
  BY <1>4, Fields, BoundsAssumption DEF Activate, Snapshots
<1>10. opens' \in 0..MaxOpens
  BY <1>2, BoundsAssumption DEF Activate
<1>11. TypeOK'
  BY <1>1, <1>2, <1>4, <1>7, <1>10 DEF Activate, IInv, TypeOK, provider
<1>12. QED
  BY <1>5, <1>8, <1>9, <1>11, PartsMakeIInv

\* A tightened record has the same finances and a limit no higher.
LEMMA TightenedKeeps ==
  ASSUME NEW d \in Records, NEW l \in Nat, Tightened(d, l).revision <= MaxRevision
  PROVE  LET e == Tightened(d, l) IN
         e \in Records /\ SameMoney(d, e) /\ e.limit \in Nat /\ e.limit <= d.limit
         /\ e.revision \in {d.revision, d.revision + 1}
<1>1. CASE l < d.limit
  <2>1. Tightened(d, l) = [d EXCEPT !.limit = l, !.revision = @ + 1]
    BY <1>1 DEF Tightened
  <2>2. [d EXCEPT !.limit = l, !.revision = @ + 1].revision = d.revision + 1
    BY DEF Records
  <2>3. d.revision < MaxRevision
    BY <2>1, <2>2, Fields, BoundsAssumption
  <2> DEFINE e == [d EXCEPT !.limit = l, !.revision = @ + 1]
  <2>4. e \in Records /\ SameMoney(d, e) /\ e.limit = l /\ e.revision = d.revision + 1
    BY <2>3, LimitWritten, Zenon
  <2> HIDE DEF e
  <2>5. e.limit \in Nat /\ e.limit <= d.limit
    BY <1>1, <2>4, Fields
  <2>6. Tightened(d, l) = e
    BY <2>1 DEF e
  <2>7. QED
    BY <2>4, <2>5, <2>6
<1>2. CASE ~(l < d.limit)
  BY <1>2, Fields DEF Tightened, SameMoney
<1>3. QED
  BY <1>1, <1>2

\* Opening an activated run may tighten its limit; it goes live without holds.
LEMMA OpenKeeps == IInv /\ Open => IInv'
<1> SUFFICES ASSUME IInv, Open PROVE IInv'
  OBVIOUS
<1>1. PICK l \in Limits :
        /\ Tightened(disk, l).revision <= MaxRevision
        /\ \/ /\ Resumable(Tightened(disk, l)) /\ disk' = Tightened(disk, l)
              /\ owner' = "live" /\ known' = Tightened(disk, l).revision
           \/ disk' \in {disk, Tightened(disk, l)} /\ UNCHANGED <<owner, known>>
  BY DEF Open
<1>2. disk \in Records /\ l \in Nat /\ opens \in 0..MaxOpens /\ granted \in Nat /\ known \in Nat
  BY BoundsAssumption DEF IInv, TypeOK
<1>3. /\ Tightened(disk, l) \in Records /\ SameMoney(disk, Tightened(disk, l))
      /\ Tightened(disk, l).limit \in Nat /\ Tightened(disk, l).limit <= disk.limit
  BY <1>1, <1>2, TightenedKeeps
<1>4. disk' \in Records /\ SameMoney(disk, disk') /\ disk'.limit \in Nat /\ disk'.limit <= disk.limit
  BY <1>1, <1>2, <1>3, Fields DEF SameMoney
<1>5. disk'.limit <= granted
  BY <1>2, <1>4, Fields DEF IInv, Bounded
<1>6. MoneyParts'
  BY <1>2, <1>4, <1>5, SameMoneyStep DEF Open
<1>7. files' = "active" /\ owner' \in {"none", "live"}
      /\ (owner' = "live" => disk'.pending = {})
  BY <1>1, <1>3 DEF Open, Resumable, SameMoney
<1>8. Ownership'
  BY <1>7 DEF Ownership
<1>9. Snapshots'
  BY <1>4, Fields, BoundsAssumption DEF Open, Snapshots
<1>10. opens' \in 0..MaxOpens /\ known' \in Nat
  BY <1>1, <1>2, <1>3, Fields, BoundsAssumption DEF Open
<1>11. TypeOK'
  BY <1>4, <1>7, <1>10 DEF Open, IInv, TypeOK, provider
<1>12. QED
  BY <1>6, <1>8, <1>9, <1>11, PartsMakeIInv

\* A crash, a poisoning and a read leave the record and the provider alone.
LEMMA IdleKeeps == IInv /\ (Crash \/ Poison \/ TakeSnapshot) => IInv'
<1> SUFFICES ASSUME IInv, Crash \/ Poison \/ TakeSnapshot PROVE IInv'
  OBVIOUS
<1>1. disk' = disk /\ UNCHANGED <<files, opens, granted, provider, reported>>
  BY DEF Crash, Poison, TakeSnapshot
<1>2. disk \in Records /\ granted \in Nat
  BY DEF IInv, TypeOK
<1>3. MoneyParts'
  <2>1. SameMoney(disk, disk') /\ disk'.limit <= granted'
    BY <1>1 DEF SameMoney, IInv, Bounded
  <2>2. QED
    BY <1>1, <1>2, <2>1, SameMoneyStep
<1>4. Ownership'
  BY <1>1 DEF Crash, Poison, TakeSnapshot, IInv, Ownership, provider, Current
<1>5. Snapshots'
  BY <1>1, <1>2, Fields, BoundsAssumption DEF Crash, Poison, TakeSnapshot, IInv, Snapshots
<1>6. TypeOK'
  BY <1>1 DEF Crash, Poison, TakeSnapshot, IInv, TypeOK, provider, Current
<1>7. QED
  BY <1>3, <1>4, <1>5, <1>6, PartsMakeIInv

\* A write of the same finances by the owner keeps what it knows of its holds.
LEMMA OwnerWriteKeeps ==
  ASSUME IInv, files = "active", NEW new \in Records, SameMoney(disk, new), Write(new),
         UNCHANGED <<files, dispatched, held, snap, opens, provider, reported>>,
         granted' \in Nat, granted <= granted', new.limit <= granted',
         new.revision \in {disk.revision, disk.revision + 1}
  PROVE  IInv'
<1>1. disk \in Records /\ snap \in Records /\ granted \in Nat /\ disk.limit <= granted
  BY DEF IInv, TypeOK, Bounded
<1>2. /\ disk' \in Records /\ SameMoney(disk, disk') /\ disk' \in {disk, new}
      /\ owner' \in {owner, "poisoned"} /\ known' \in Nat
  BY MoneyWritten
<1>3. disk'.limit <= granted'
  BY <1>1, <1>2, Fields
<1>4. MoneyParts'
  BY <1>2, <1>3, SameMoneyStep
<1>5. Ownership'
  <2>1. disk'.pending = disk.pending /\ (owner' = "live" => owner = "live")
    BY <1>2 DEF SameMoney
  <2>2. files' = "active"
    OBVIOUS
  <2>3. QED
    BY <2>1, <2>2 DEF IInv, Ownership, provider
<1>6. Snapshots'
  BY <1>1, <1>2, SnapshotsKept, Fields DEF SameMoney
<1>7. TypeOK'
  BY <1>2 DEF IInv, TypeOK, provider
<1>8. QED
  BY <1>4, <1>5, <1>6, <1>7, PartsMakeIInv

\* An operator's increase grants what it writes.
LEMMA IncreaseLimitKeeps == IInv /\ IncreaseLimit => IInv'
<1> SUFFICES ASSUME IInv, IncreaseLimit PROVE IInv'
  OBVIOUS
<1>1. PICK l \in Limits : /\ l >= disk.limit
                          /\ Write([disk EXCEPT !.limit = l, !.revision = @ + 1])
                          /\ granted' = Larger(granted, l)
  BY DEF IncreaseLimit
<1> DEFINE new == [disk EXCEPT !.limit = l, !.revision = @ + 1]
<1>2. disk \in Records /\ l \in Nat /\ granted \in Nat /\ disk.revision \in 0..MaxRevision
  BY Fields, BoundsAssumption DEF IInv, TypeOK
<1>3. disk.revision < MaxRevision
  <2>1. new.revision <= MaxRevision
    BY <1>1 DEF Write, Commit, CommitFails
  <2>2. new.revision = disk.revision + 1
    BY <1>2 DEF Records
  <2>3. QED
    BY <1>2, <2>1, <2>2, BoundsAssumption
<1>4. new \in Records /\ SameMoney(disk, new) /\ new.limit = l /\ new.revision = disk.revision + 1
  BY <1>2, <1>3, LimitWritten, Zenon
<1>5. granted' \in Nat /\ granted <= granted' /\ l <= granted'
  BY <1>1, <1>2 DEF Larger
<1>6. files = "active"
  BY DEF IncreaseLimit, Current, IInv, Ownership
<1>7. Write(new) /\ UNCHANGED <<files, dispatched, held, snap, opens, provider, reported>>
  BY <1>1 DEF IncreaseLimit
<1> HIDE DEF new
<1>8. QED
  BY <1>4, <1>5, <1>6, <1>7, OwnerWriteKeeps

\* An ordinary option may only tighten.
LEMMA RestoreLimitKeeps == IInv /\ RestoreLimit => IInv'
<1> SUFFICES ASSUME IInv, RestoreLimit PROVE IInv'
  OBVIOUS
<1>1. PICK l \in Limits : l < disk.limit /\ Write(Tightened(disk, l))
  BY DEF RestoreLimit
<1> DEFINE new == Tightened(disk, l)
<1>2. disk \in Records /\ l \in Nat /\ granted \in Nat /\ disk.limit <= granted
  BY BoundsAssumption DEF IInv, TypeOK, Bounded
<1>3. new.revision <= MaxRevision
  BY <1>1 DEF Write, Commit, CommitFails
<1>4. /\ new \in Records /\ SameMoney(disk, new) /\ new.limit \in Nat /\ new.limit <= disk.limit
      /\ new.revision \in {disk.revision, disk.revision + 1}
  BY <1>2, <1>3, TightenedKeeps
<1>5. new.limit <= granted
  BY <1>2, <1>4, Fields
<1>6. files = "active" /\ Write(new)
      /\ UNCHANGED <<files, dispatched, held, snap, opens, granted, provider, reported>>
  BY <1>1 DEF RestoreLimit, Current, IInv, Ownership
<1> HIDE DEF new
<1>7. QED
  BY <1>2, <1>4, <1>5, <1>6, OwnerWriteKeeps

\* A report saved over its own finances.
LEMMA SaveReportKeeps == IInv /\ SaveReport => IInv'
<1> SUFFICES ASSUME IInv, SaveReport PROVE IInv'
  OBVIOUS
<1>1. PICK r \in Reports : Write([disk EXCEPT !.report = r])
  BY DEF SaveReport
<1> DEFINE new == [disk EXCEPT !.report = r]
<1>2. disk \in Records /\ granted \in Nat /\ disk.limit <= granted
  BY DEF IInv, TypeOK, Bounded
<1>3. new \in Records /\ SameMoney(disk, new) /\ new.limit = disk.limit /\ new.revision = disk.revision
  BY <1>2, ReportWritten, Zenon
<1>4. files = "active" /\ Write(new)
      /\ UNCHANGED <<files, dispatched, held, snap, opens, granted, provider, reported>>
  BY <1>1 DEF SaveReport, Current, IInv, Ownership
<1> HIDE DEF new
<1>5. QED
  BY <1>2, <1>3, <1>4, OwnerWriteKeeps

\* A rollback restores a report, never its finances.
LEMMA RollBackKeeps == IInv /\ RollBack => IInv'
<1> SUFFICES ASSUME IInv, RollBack PROVE IInv'
  OBVIOUS
<1> DEFINE new == Restored(snap, disk)
<1>1. disk \in Records /\ snap \in Records /\ granted \in Nat /\ disk.limit <= granted
      /\ snap.report \in Reports
  BY DEF IInv, TypeOK, Bounded, Records
<1>2. new \in Records /\ SameMoney(disk, new) /\ new.limit = disk.limit /\ new.revision = disk.revision
  BY <1>1, ReportWritten DEF Restored
<1>3. UNCHANGED <<files, dispatched, held, snap, opens, granted, provider, reported>>
  BY DEF RollBack
<1>4. CASE Current /\ Write(new)
  <2>1. files = "active"
    BY <1>4 DEF Current, IInv, Ownership
  <2> HIDE DEF new
  <2>2. QED
    BY <1>1, <1>2, <1>3, <1>4, <2>1, OwnerWriteKeeps
<1>5. CASE files = "active" /\ owner = "none" /\ disk' \in {disk, new} /\ UNCHANGED <<owner, known>>
  <2> HIDE DEF new
  <2>1. disk' \in Records /\ SameMoney(disk, disk') /\ disk'.limit = disk.limit
        /\ disk'.revision = disk.revision
    BY <1>1, <1>2, <1>5 DEF SameMoney
  <2>2. MoneyParts'
    BY <1>1, <1>3, <2>1, SameMoneyStep, Fields
  <2>3. Ownership'
    BY <1>3, <1>5 DEF Ownership
  <2>4. Snapshots'
    BY <1>3, <2>1, SnapshotsKept DEF SameMoney
  <2>5. TypeOK'
    BY <1>3, <1>5, <2>1 DEF IInv, TypeOK, provider
  <2>6. QED
    BY <2>2, <2>3, <2>4, <2>5, PartsMakeIInv
<1>6. QED
  BY <1>4, <1>5 DEF RollBack

\* The POST an admission pays for is its first.
LEMMA DispatchKeeps == ASSUME NEW a \in Attempts PROVE IInv /\ Dispatch(a) => IInv'
<1> SUFFICES ASSUME IInv, Dispatch(a) PROVE IInv'
  OBVIOUS
<1>1. /\ disk' = disk /\ posts' = [posts EXCEPT ![a] = @ + 1]
      /\ dispatched' = dispatched \union {a}
      /\ UNCHANGED <<files, owner, known, held, snap, opens, granted, answered, charge, reported>>
  BY DEF Dispatch
<1>2. /\ disk \in Records /\ posts \in [Attempts -> Nat] /\ answered \in [Attempts -> Nat]
      /\ a \in disk.pending /\ a \notin dispatched /\ owner = "live"
  BY DEF IInv, TypeOK, Dispatch, Unconsumed, Current
<1>3. posts[a] = 0 /\ answered[a] = 0
  BY <1>2 DEF IInv, Ownership, Sends
<1>4. Sends'
  BY <1>1, <1>2, <1>3, Fields DEF IInv, Sends, Books
<1>5. Books(disk)' /\ Receipts' /\ ChargesAreCovered' /\ Bounded' /\ LedgerKeepsReports'
  BY <1>1 DEF IInv, Books, OpenCredit, Receipts, ChargesAreCovered, Exposure, Bounded,
              ExposureOf, LedgerKeepsReports
<1>6. Ownership' /\ Snapshots'
  BY <1>1, <1>2 DEF IInv, Ownership, Snapshots
<1>7. TypeOK'
  BY <1>1, <1>2 DEF IInv, TypeOK
<1>8. QED
  BY <1>4, <1>5, <1>6, <1>7, PartsMakeIInv DEF MoneyParts

\* The provider's bill for a held attempt stays within its quote.
LEMMA AnswerKeeps == ASSUME NEW a \in Attempts PROVE IInv /\ Answer(a) => IInv'
<1> SUFFICES ASSUME IInv, Answer(a) PROVE IInv'
  OBVIOUS
<1>1. PICK c \in 0..disk.quote[a] : charge' = [charge EXCEPT ![a] = @ + c]
  BY DEF Answer
<1>2. /\ disk' = disk /\ answered' = [answered EXCEPT ![a] = @ + 1] /\ answered[a] < posts[a]
      /\ UNCHANGED <<files, owner, known, dispatched, held, snap, opens, granted, posts, reported>>
  BY DEF Answer, process
<1>3. /\ disk \in Records /\ posts \in [Attempts -> Nat] /\ answered \in [Attempts -> Nat]
      /\ charge \in [Attempts -> Nat] /\ disk.quote[a] \in Nat
  BY Fields DEF IInv, TypeOK
<1>4. answered[a] = 0 /\ posts[a] = 1 /\ charge[a] = 0 /\ a \in disk.pending
  BY <1>2, <1>3 DEF IInv, Sends
<1>5. charge' = [charge EXCEPT ![a] = c] /\ c \in Nat /\ c <= disk.quote[a]
  BY <1>1, <1>3, <1>4
<1>6. Sends'
  BY <1>2, <1>3, <1>4, <1>5 DEF IInv, Sends
<1>7. Receipts'
  <2>1. \A b \in disk.observed : answered'[b] > 0
    BY <1>2, <1>3, Fields DEF IInv, Receipts
  <2>2. a \notin disk.observed
    BY <1>4 DEF IInv, Receipts
  <2>3. \A b \in disk.open : disk.credit[b] <= charge'[b]
    BY <1>3, <1>5, <2>2, Fields DEF IInv, Receipts, Books
  <2>4. QED
    BY <1>2, <2>1, <2>3 DEF Receipts
<1>8. ChargesAreCovered'
  BY <1>2, <1>3, <1>4, <1>5 DEF IInv, ChargesAreCovered, Exposure
<1>9. Books(disk)' /\ Bounded' /\ LedgerKeepsReports'
  BY <1>2 DEF IInv, Books, OpenCredit, Bounded, ExposureOf, LedgerKeepsReports
<1>10. Ownership' /\ Snapshots'
  BY <1>2 DEF IInv, Ownership, Snapshots
<1>11. TypeOK'
  BY <1>2, <1>3, <1>5 DEF IInv, TypeOK
<1>12. QED
  BY <1>6, <1>7, <1>8, <1>9, <1>10, <1>11, PartsMakeIInv DEF MoneyParts

\* Lowering, or leaving, one attempt's exposure keeps the run within its grant.
LEMMA ExposureLowered ==
  ASSUME IInv, disk' \in Records, disk'.limit = disk.limit, granted' = granted,
         NEW a \in Attempts, NEW v \in Nat, v <= ExposureOf(disk)[a],
         ExposureOf(disk') = [ExposureOf(disk) EXCEPT ![a] = v]
  PROVE  Bounded'
<1>1. disk \in Records /\ granted \in Nat
  BY DEF IInv, TypeOK
<1> DEFINE f == ExposureOf(disk)
           g == ExposureOf(disk')
<1>2. f \in [1..MaxAttempt -> Nat] /\ g \in [1..MaxAttempt -> Nat]
  BY <1>1, Derived
<1>3. \A i \in 1..MaxAttempt : g[i] <= f[i]
  <2> HIDE DEF f
  <2>1. g = [f EXCEPT ![a] = v] /\ v <= f[a]
    BY DEF f
  <2> HIDE DEF g
  <2>2. QED
    BY <1>2, <2>1
<1> HIDE DEF f, g
<1>4. Total(MaxAttempt, g) <= Total(MaxAttempt, f)
  BY <1>2, <1>3, TotalMono, BoundsAssumption
<1>5. Total(MaxAttempt, g) \in Nat /\ Total(MaxAttempt, f) \in Nat /\ Larger(granted, PriorCost) \in Nat
  BY <1>1, <1>2, TotalNat, BoundsAssumption DEF Larger
<1>6. PriorCost + Total(MaxAttempt, f) <= Larger(granted, PriorCost)
  BY DEF IInv, Bounded, f
<1>7. PriorCost + Total(MaxAttempt, g) <= Larger(granted, PriorCost)
  BY <1>4, <1>5, <1>6, BoundsAssumption
<1>8. g = ExposureOf(disk)'
  BY DEF g, ExposureOf
<1>9. QED
  BY <1>7, <1>8 DEF IInv, Bounded

\* A write that failed before the rename: the record stays, the owner is poisoned.
LEMMA NothingWritten ==
  ASSUME IInv, disk' = disk, owner' = "poisoned", known' = known, files = "active",
         dispatched' = dispatched,
         UNCHANGED <<files, held, snap, opens, granted, provider, reported>>
  PROVE  IInv'
<1>1. disk \in Records /\ granted \in Nat
  BY DEF IInv, TypeOK
<1>2. MoneyParts'
  <2>1. SameMoney(disk, disk') /\ disk'.limit <= granted'
    BY DEF SameMoney, IInv, Bounded
  <2>2. QED
    BY <1>1, <2>1, SameMoneyStep
<1>3. Ownership' /\ Snapshots'
  BY DEF IInv, Ownership, Snapshots
<1>4. TypeOK'
  BY DEF IInv, TypeOK, provider
<1>5. QED
  BY <1>2, <1>3, <1>4, PartsMakeIInv

\* The comparison reserve makes bounds the exposure of the record it writes.
LEMMA ReservedFits ==
  ASSUME NEW d \in Records, NEW q \in Nat, Books(d), Fits(d, q),
         d.next <= MaxAttempt, d.revision < MaxRevision
  PROVE  PriorCost + Total(MaxAttempt, ExposureOf(Reserved(d, q))) <= d.limit /\ q <= d.limit
<1> DEFINE f == ExposureOf(d)
           g == ExposureOf(Reserved(d, q))
<1>1. f \in [1..MaxAttempt -> Nat] /\ g \in [1..MaxAttempt -> Nat]
  BY Derived, ReservedKeeps
<1>2. PICK k \in 1..MaxAttempt : k = d.next
  BY Fields
<1>3. g = [f EXCEPT ![k] = q] /\ f[k] = 0
  BY <1>2, ReservedKeeps
<1>4. PriorCost + Total(MaxAttempt, f) <= Committed(d)
  BY ExposureSplits
<1>5. Committed(d) + q <= d.limit
  BY DEF Fits
<1>6. Committed(d) \in Nat /\ d.limit \in Nat
  <2>1. Total(MaxAttempt, Holds(d)) \in Nat
    BY Derived, TotalNat, BoundsAssumption
  <2>2. Larger(d.floor, d.usage) \in Nat
    BY Fields DEF Larger
  <2>3. QED
    BY <2>1, <2>2, Fields DEF Committed, Held
<1> HIDE DEF f, g
<1>7. g[k] = q /\ \A i \in 1..MaxAttempt : i # k => g[i] = f[i]
  BY <1>1, <1>3
<1>8. Total(MaxAttempt, g) + f[k] = Total(MaxAttempt, f) + g[k]
  <2>1. k \in Attempts
    BY <1>2 DEF Attempts
  <2>2. QED
    BY <1>1, <1>7, <2>1, TotalOfAttempts, Zenon
<1>9. Total(MaxAttempt, f) \in Nat /\ Total(MaxAttempt, g) \in Nat
  BY <1>1, TotalNat, BoundsAssumption
<1>10. Total(MaxAttempt, g) = Total(MaxAttempt, f) + q
  BY <1>3, <1>7, <1>8, <1>9
<1>11. PriorCost + Total(MaxAttempt, g) <= d.limit
  BY <1>4, <1>5, <1>6, <1>9, <1>10, BoundsAssumption
<1>12. q <= d.limit
  BY <1>5, <1>6
<1>13. QED
  BY <1>11, <1>12 DEF g

\* A reservation exposes the run to its quote, which fits under the limit.
LEMMA ReserveKeeps == IInv /\ Reserve => IInv'
<1> SUFFICES ASSUME IInv, Reserve PROVE IInv'
  OBVIOUS
<1>1. PICK q \in Quotes :
        /\ Fits(disk, q)
        /\ \/ Commit(Reserved(disk, q)) /\ held' = held \union {disk.next}
           \/ CommitFails(Reserved(disk, q)) /\ UNCHANGED held
  BY DEF Reserve
<1> DEFINE new == Reserved(disk, q)
<1>2. /\ disk \in Records /\ q \in Nat /\ disk.next <= MaxAttempt /\ disk.revision < MaxRevision
      /\ Books(disk) /\ owner = "live" /\ files = "active"
      /\ UNCHANGED <<files, dispatched, snap, opens, granted, provider, reported>>
  BY BoundsAssumption DEF Reserve, RoomForHold, Current, Quotes, IInv, TypeOK, Ownership
<1>3. /\ new \in Records /\ Books(new)
      /\ new.revision = disk.revision + 1 /\ new.next = disk.next + 1
      /\ new.limit = disk.limit /\ new.usage = disk.usage /\ new.floor = disk.floor
      /\ new.pending = disk.pending \union {disk.next}
      /\ new.observed = disk.observed /\ new.open = disk.open /\ new.credit = disk.credit
      /\ ExposureOf(new) = [ExposureOf(disk) EXCEPT ![disk.next] = q]
      /\ ExposureOf(disk)[disk.next] = 0
  BY <1>2, ReservedKeeps
<1> HIDE DEF new
<1>4. CASE disk' = new
  <2>1. disk.next \in Attempts /\ disk.next \in 1..MaxAttempt
    BY <1>2, Fields DEF Attempts
  <2>2. Books(disk)'
    BY <1>3, <1>4 DEF Books, OpenCredit
  <2>3. /\ posts' = posts /\ answered' = answered /\ charge' = charge
        /\ posts[disk.next] = 0 /\ answered[disk.next] = 0 /\ charge[disk.next] = 0
    BY <1>2, <2>1, Fields DEF IInv, Sends, TypeOK, provider
  <2>4. Sends'
    BY <1>2, <1>3, <1>4, <2>3, Fields DEF IInv, Sends, Attempts
  <2>5. Receipts' /\ LedgerKeepsReports'
    BY <1>2, <1>3, <1>4, <2>3 DEF IInv, Receipts, LedgerKeepsReports
  <2>6. ChargesAreCovered'
    <3>1. ASSUME NEW b \in Attempts PROVE charge[b] <= ExposureOf(new)[b]
      <4>1. charge[b] <= ExposureOf(disk)[b]
        BY DEF IInv, ChargesAreCovered, Exposure, ExposureOf
      <4>2. ExposureOf(disk) \in [Attempts -> Nat]
        BY <1>2, Derived DEF Attempts
      <4>3. QED
        BY <1>2, <1>3, <2>1, <2>3, <4>1, <4>2
    <3>2. QED
      BY <1>4, <2>3, <3>1 DEF ChargesAreCovered, Exposure, ExposureOf
  <2>7. Bounded'
    <3> DEFINE t == Total(MaxAttempt, ExposureOf(new))
    <3>1. PriorCost + t <= disk.limit
      BY <1>1, <1>2, ReservedFits DEF new
    <3>2. new.limit <= granted /\ granted \in Nat /\ disk.limit \in Nat /\ disk.limit <= granted
      BY <1>2, <1>3, Fields DEF IInv, Bounded, TypeOK
    <3>3. t \in Nat
      BY <1>3, Derived, TotalNat, BoundsAssumption
    <3> HIDE DEF t
    <3>4. PriorCost + t <= Larger(granted, PriorCost)
      BY <3>1, <3>2, <3>3, BoundsAssumption DEF Larger
    <3>5. ExposureOf(new) = ExposureOf(disk)'
      BY <1>4 DEF ExposureOf
    <3>6. QED
      BY <1>2, <1>4, <3>2, <3>4, <3>5 DEF Bounded, t
  <2>8. Ownership'
    <3>1. owner' = "live" => held' = held \union {disk.next}
      BY <1>1 DEF CommitFails
    <3>2. QED
      BY <1>2, <1>3, <1>4, <2>3, <3>1 DEF IInv, Ownership
  <2>9. Snapshots'
    BY <1>2, <1>3, <1>4, SnapshotsKept
  <2>10. TypeOK'
    <3>1. known' \in Nat /\ owner' \in {"live", "poisoned"} /\ held' \subseteq Attempts
      BY <1>1, <1>2, <1>3, <2>1, Fields, BoundsAssumption
         DEF Commit, CommitFails, IInv, TypeOK, new
    <3>2. QED
      BY <1>2, <1>3, <1>4, <3>1 DEF IInv, TypeOK, provider
  <2>11. QED
    BY <2>2, <2>4, <2>5, <2>6, <2>7, <2>8, <2>9, <2>10, PartsMakeIInv DEF MoneyParts
<1>5. CASE disk' = disk /\ CommitFails(new) /\ UNCHANGED held
  BY <1>2, <1>5, NothingWritten DEF CommitFails
<1>6. QED
  BY <1>1, <1>4, <1>5 DEF Commit, CommitFails, new

\* What Settled needs of its attempt: nothing is left to be charged, and the
\* cost lies between the charge and the quote.
Settling(a, actual, usage) ==
  /\ a \in disk.pending /\ actual \in Nat /\ usage \in Nat
  /\ posts[a] = answered[a] /\ charge[a] <= actual /\ actual <= disk.quote[a]
  /\ a \in disk.observed => a \in disk.open
  /\ usage <= disk.usage + (IF a \in disk.observed THEN 0 ELSE actual)
  /\ disk.revision < MaxRevision

\* Then the record it writes is sound.
LEMMA SettlingRecord ==
  ASSUME IInv, NEW a \in Attempts, NEW actual, NEW usage, Settling(a, actual, usage)
  PROVE  LET e == Settled(disk, a, actual, usage) IN
         /\ e \in Records /\ Books(e)
         /\ e.revision = disk.revision + 1 /\ e.next = disk.next /\ e.limit = disk.limit
         /\ e.usage = usage /\ e.pending = disk.pending \ {a}
         /\ e.observed = disk.observed /\ e.open = disk.open \ {a} /\ e.credit = disk.credit
         /\ ExposureOf(e) = [ExposureOf(disk) EXCEPT ![a] = actual]
<1>1. disk \in Records /\ Books(disk) /\ charge[a] \in Nat
  BY DEF IInv, TypeOK
<1>2. a \in disk.observed => a \in disk.open /\ disk.credit[a] <= actual
  <2>1. SUFFICES ASSUME a \in disk.observed PROVE disk.credit[a] <= actual
    BY DEF Settling
  <2>2. disk.credit[a] <= charge[a] /\ disk.credit[a] \in Nat
    BY <1>1, <2>1, Fields DEF IInv, Receipts, Settling
  <2>3. QED
    BY <1>1, <2>2 DEF Settling
<1>3. QED
  BY <1>1, <1>2, SettledKeeps DEF Settling

\* And every part about money survives the step that writes it.
LEMMA SettlingKeeps ==
  ASSUME IInv, NEW a \in Attempts, NEW actual, NEW usage, Settling(a, actual, usage),
         disk' \in Records, SameMoney(Settled(disk, a, actual, usage), disk'),
         disk'.limit = disk.limit,
         UNCHANGED <<provider, granted>>, reported' = usage
  PROVE  MoneyParts'
<1> DEFINE new == Settled(disk, a, actual, usage)
<1>1. /\ Books(new) /\ new.next = disk.next /\ new.usage = usage
      /\ new.pending = disk.pending \ {a}
      /\ new.observed = disk.observed /\ new.open = disk.open \ {a} /\ new.credit = disk.credit
      /\ ExposureOf(new) = [ExposureOf(disk) EXCEPT ![a] = actual]
  BY SettlingRecord
<1>2. SameMoney(new, disk')
  OBVIOUS
<1> HIDE DEF new
<1>3. Books(disk') /\ ExposureOf(disk') = [ExposureOf(disk) EXCEPT ![a] = actual]
  BY <1>1, <1>2, SameBooks
<1>4. Books(disk)'
  BY <1>3 DEF Books, OpenCredit
<1>5. posts' = posts /\ answered' = answered /\ charge' = charge
  BY DEF provider
<1>6. /\ disk \in Records /\ actual \in Nat /\ charge[a] <= actual
      /\ ExposureOf(disk) \in [Attempts -> Nat] /\ charge \in [Attempts -> Nat]
      /\ actual <= ExposureOf(disk)[a] /\ posts[a] = answered[a] /\ answered[a] \in Nat
  BY Derived DEF IInv, TypeOK, Settling, ExposureOf, Attempts
<1>7. Sends'
  <2>1. disk'.pending = disk.pending \ {a} /\ disk'.next = disk.next
    BY <1>1, <1>2 DEF SameMoney
  <2>2. QED
    BY <1>5, <1>6, <2>1 DEF IInv, Sends
<1>8. Receipts' /\ LedgerKeepsReports'
  BY <1>1, <1>2, <1>5 DEF IInv, Receipts, LedgerKeepsReports, SameMoney
<1>9. ChargesAreCovered'
  <2>1. ASSUME NEW b \in Attempts PROVE charge[b] <= ExposureOf(disk')[b]
    <3>1. charge[b] <= ExposureOf(disk)[b]
      BY DEF IInv, ChargesAreCovered, Exposure, ExposureOf
    <3>2. QED
      BY <1>3, <1>6, <3>1
  <2>2. QED
    BY <1>5, <2>1 DEF ChargesAreCovered, Exposure, ExposureOf
<1>10. Bounded'
  BY <1>3, <1>6, ExposureLowered
<1>11. QED
  BY <1>4, <1>7, <1>8, <1>9, <1>10 DEF MoneyParts

\* Any settlement's record is one revision on.
LEMMA SettledRevision ==
  ASSUME NEW d \in Records, NEW a, NEW actual, NEW usage
  PROVE  Settled(d, a, actual, usage).revision = d.revision + 1
BY DEF Records, Settled

\* A settled response: the hold becomes its reported cost.
LEMMA SettleKeeps == ASSUME NEW a \in Attempts PROVE IInv /\ Settle(a) => IInv'
<1> SUFFICES ASSUME IInv, Settle(a) PROVE IInv'
  OBVIOUS
<1>1. PICK actual \in charge[a]..disk.quote[a] :
      \E est \in (IF a \in disk.observed THEN {0} ELSE {0, actual}) :
        /\ \/ /\ CommitAndSave(Settled(disk, a, actual, disk.usage + est))
              /\ dispatched' = dispatched \ {a}
           \/ CommitFails(Settled(disk, a, actual, disk.usage + est)) /\ UNCHANGED dispatched
        /\ Report(est)
  BY DEF Settle
<1>2. PICK est \in (IF a \in disk.observed THEN {0} ELSE {0, actual}) :
        /\ \/ /\ CommitAndSave(Settled(disk, a, actual, disk.usage + est))
              /\ dispatched' = dispatched \ {a}
           \/ CommitFails(Settled(disk, a, actual, disk.usage + est)) /\ UNCHANGED dispatched
        /\ Report(est)
  BY <1>1
<1> DEFINE usage == disk.usage + est
           new == Settled(disk, a, actual, usage)
<1>3. /\ disk \in Records /\ owner = "live" /\ files = "active" /\ a \in disk.pending
      /\ answered[a] > 0 /\ (a \in disk.observed => a \in disk.open)
      /\ UNCHANGED <<files, held, snap, opens, granted, provider>>
      /\ charge[a] \in Nat /\ answered[a] \in Nat /\ posts[a] \in Nat
      /\ disk.quote[a] \in Nat /\ disk.usage \in Nat /\ reported = disk.usage
  BY Fields DEF Settle, Current, IInv, TypeOK, Ownership, LedgerKeepsReports
<1>4. actual \in Nat /\ est \in Nat /\ charge[a] <= actual /\ actual <= disk.quote[a]
      /\ est <= (IF a \in disk.observed THEN 0 ELSE actual)
  BY <1>1, <1>2, <1>3
<1>5. disk.revision < MaxRevision
  <2>1. new.revision <= MaxRevision
    BY <1>2 DEF CommitAndSave, CommitFails
  <2>2. new.revision = disk.revision + 1
    BY <1>3, SettledRevision
  <2>3. QED
    BY <1>3, <2>1, <2>2, Fields, BoundsAssumption
<1>6. Settling(a, actual, usage)
  <2>1. posts[a] = answered[a]
    BY <1>3 DEF IInv, Sends
  <2>2. usage \in Nat /\ usage <= disk.usage + (IF a \in disk.observed THEN 0 ELSE actual)
    BY <1>3, <1>4
  <2> HIDE DEF usage
  <2>3. QED
    BY <1>3, <1>4, <1>5, <2>1, <2>2 DEF Settling
<1>7. /\ new \in Records /\ new.revision = disk.revision + 1 /\ new.limit = disk.limit
      /\ new.pending = disk.pending \ {a}
  BY <1>6, SettlingRecord
<1>8. CASE disk'.revision # disk.revision /\ disk' \in Records /\ SameMoney(new, disk')
           /\ disk'.limit = new.limit /\ disk'.revision = new.revision
           /\ owner' \in {"live", "poisoned"} /\ known' \in Nat
           /\ (owner' = "live" => dispatched' = dispatched \ {a}) /\ dispatched' \subseteq dispatched
  <2>1. reported' = usage
    BY <1>2, <1>3, <1>8 DEF Report
  <2>2. MoneyParts'
    <3> HIDE DEF usage
    <3>1. QED
      BY <1>3, <1>6, <1>7, <1>8, <2>1, SettlingKeeps
  <2>3. Ownership'
    <3> HIDE DEF new
    <3>1. disk'.pending = disk.pending \ {a}
      BY <1>7, <1>8 DEF SameMoney
    <3>2. QED
      BY <1>3, <1>8, <3>1 DEF IInv, Ownership, provider
  <2>4. Snapshots'
    BY <1>3, <1>7, <1>8, SnapshotsKept
  <2>5. TypeOK'
    BY <1>3, <1>4, <1>8, <2>1 DEF IInv, TypeOK, provider
  <2>6. QED
    BY <2>2, <2>3, <2>4, <2>5, PartsMakeIInv
<1>9. CASE disk' = disk /\ CommitFails(new) /\ UNCHANGED dispatched
  <2>1. reported' = reported
    BY <1>2, <1>9 DEF Report
  <2>2. QED
    BY <1>3, <1>9, <2>1, NothingWritten DEF CommitFails
<1>10. CASE CommitAndSave(new) /\ dispatched' = dispatched \ {a}
  <2>1. PICK r \in Reports : disk' = [new EXCEPT !.report = r]
    BY <1>10 DEF CommitAndSave
  <2>2. owner' \in {"live", "poisoned"} /\ known' = new.revision
    BY <1>10 DEF CommitAndSave
  <2>3. disk' \in Records /\ SameMoney(new, disk') /\ disk'.limit = new.limit
        /\ disk'.revision = new.revision
    <3> HIDE DEF new
    <3>1. QED
      BY <1>7, <2>1, ReportWritten, Zenon
  <2>4. disk'.revision # disk.revision /\ known' \in Nat
    BY <1>3, <1>7, <2>2, <2>3, Fields, BoundsAssumption
  <2>5. QED
    BY <1>8, <1>10, <2>2, <2>3, <2>4
<1>11. CASE disk' = new /\ CommitFails(new) /\ UNCHANGED dispatched
  <2>1. owner' = "poisoned" /\ known' \in Nat
    BY <1>11 DEF CommitFails, IInv, TypeOK
  <2>2. disk'.revision # disk.revision
    BY <1>3, <1>7, <1>11, Fields
  <2>3. SameMoney(new, disk')
    BY <1>11 DEF SameMoney
  <2>4. QED
    BY <1>7, <1>8, <1>11, <2>1, <2>2, <2>3
<1>12. QED
  BY <1>2, <1>9, <1>10, <1>11 DEF CommitFails

\* An admission never posted is released at no cost.
LEMMA SettleUnusedKeeps == ASSUME NEW a \in Attempts PROVE IInv /\ SettleUnused(a) => IInv'
<1> SUFFICES ASSUME IInv, SettleUnused(a) PROVE IInv'
  OBVIOUS
<1> DEFINE new == Settled(disk, a, 0, snap.usage)
<1>1. /\ disk \in Records /\ snap \in Records /\ owner = "live" /\ files = "active"
      /\ a \in disk.pending /\ posts[a] = 0 /\ snap.revision = disk.revision /\ Write(new)
      /\ UNCHANGED <<files, dispatched, held, snap, opens, granted, provider, reported>>
      /\ charge[a] \in Nat /\ answered[a] \in Nat /\ disk.quote[a] \in Nat
      /\ reported = disk.usage /\ disk.usage \in Nat /\ reported \in Nat
  BY Fields DEF SettleUnused, Unposted, Fresh, Current, IInv, TypeOK, Ownership, LedgerKeepsReports
<1>2. snap.usage = disk.usage
  BY <1>1 DEF IInv, Snapshots
<1>3. answered[a] = 0 /\ charge[a] = 0 /\ a \notin disk.observed
  BY <1>1 DEF IInv, Sends, Receipts
<1>4. disk.revision < MaxRevision
  <2>1. new.revision <= MaxRevision
    BY <1>1 DEF Write, Commit, CommitFails
  <2>2. new.revision = disk.revision + 1
    BY <1>1, SettledRevision
  <2>3. QED
    BY <1>1, <2>1, <2>2, Fields, BoundsAssumption
<1>5. Settling(a, 0, snap.usage)
  BY <1>1, <1>2, <1>3, <1>4 DEF Settling
<1>6. /\ new \in Records /\ new.revision = disk.revision + 1 /\ new.limit = disk.limit
      /\ new.pending = disk.pending \ {a}
  BY <1>5, SettlingRecord
<1> HIDE DEF new
<1>7. CASE disk' = new
  <2>1. SameMoney(new, disk')
    BY <1>7 DEF SameMoney
  <2>2. MoneyParts'
    BY <1>1, <1>2, <1>5, <1>6, <1>7, <2>1, SettlingKeeps DEF new
  <2>3. owner' \in {"live", "poisoned"} /\ known' \in Nat
    BY <1>1, <1>6, Fields, BoundsAssumption DEF Write, Commit, CommitFails, IInv, TypeOK
  <2>4. Ownership'
    BY <1>1, <1>6, <1>7 DEF IInv, Ownership, provider
  <2>5. Snapshots'
    BY <1>1, <1>6, <1>7, SnapshotsKept
  <2>6. TypeOK'
    BY <1>1, <1>6, <1>7, <2>3 DEF IInv, TypeOK, provider
  <2>7. QED
    BY <2>2, <2>4, <2>5, <2>6, PartsMakeIInv
<1>8. CASE disk' = disk /\ CommitFails(new)
  BY <1>1, <1>8, NothingWritten DEF CommitFails
<1>9. QED
  BY <1>1, <1>7, <1>8 DEF Write, Commit, CommitFails

\* A provider callback: its cost is credited to the settlement that follows.
LEMMA ObserveCostKeeps == ASSUME NEW a \in Attempts PROVE IInv /\ ObserveCost(a) => IInv'
<1> SUFFICES ASSUME IInv, ObserveCost(a) PROVE IInv'
  OBVIOUS
<1> DEFINE new == Observed(disk, a, charge[a])
<1>1. /\ disk \in Records /\ owner = "live" /\ files = "active" /\ answered[a] > 0
      /\ a \notin disk.observed /\ Write(new) /\ Report(charge[a])
      /\ UNCHANGED <<files, dispatched, held, snap, opens, granted, provider>>
      /\ charge[a] \in Nat /\ charge \in [Attempts -> Nat] /\ Books(disk)
      /\ reported = disk.usage /\ disk.usage \in Nat
  BY Fields DEF ObserveCost, Current, IInv, TypeOK, Ownership, LedgerKeepsReports
<1>2. disk.revision < MaxRevision
  <2>1. new.revision <= MaxRevision
    BY <1>1 DEF Write, Commit, CommitFails
  <2>2. new.revision = disk.revision + 1
    BY <1>1 DEF Observed, Records
  <2>3. QED
    BY <1>1, <2>1, <2>2, Fields, BoundsAssumption
<1>3. /\ new \in Records /\ Books(new)
      /\ new.revision = disk.revision + 1 /\ new.next = disk.next /\ new.limit = disk.limit
      /\ new.usage = disk.usage + charge[a] /\ new.pending = disk.pending
      /\ new.observed = disk.observed \union {a} /\ new.open = disk.open \union {a}
      /\ new.credit[a] <= charge[a] /\ \A b \in Attempts : b # a => new.credit[b] = disk.credit[b]
      /\ ExposureOf(new) = ExposureOf(disk)
  BY <1>1, <1>2, ObservedKeeps
<1> HIDE DEF new
<1>4. posts' = posts /\ answered' = answered /\ charge' = charge
  BY <1>1 DEF provider
<1>5. CASE disk' = new
  <2>1. Books(disk)'
    BY <1>3, <1>5 DEF Books, OpenCredit
  <2>2. reported' = disk.usage + charge[a]
    BY <1>1, <1>3, <1>5, Fields DEF Report
  <2>3. Sends' /\ LedgerKeepsReports'
    BY <1>3, <1>4, <1>5, <2>2 DEF IInv, Sends, LedgerKeepsReports
  <2>4. Receipts'
    BY <1>1, <1>3, <1>4, <1>5, Fields DEF IInv, Receipts
  <2>5. ChargesAreCovered'
    BY <1>3, <1>4, <1>5 DEF IInv, ChargesAreCovered, Exposure, ExposureOf
  <2>6. Bounded'
    BY <1>1, <1>3, <1>5 DEF IInv, Bounded, ExposureOf
  <2>7. Ownership'
    BY <1>1, <1>3, <1>4, <1>5 DEF IInv, Ownership
  <2>8. Snapshots'
    BY <1>1, <1>3, <1>5, SnapshotsKept
  <2>9. known' \in Nat /\ owner' \in {"live", "poisoned"}
    BY <1>1, <1>3, Fields, BoundsAssumption DEF Write, Commit, CommitFails, IInv, TypeOK
  <2>10. TypeOK'
    BY <1>1, <1>3, <1>4, <1>5, <2>2, <2>9 DEF IInv, TypeOK
  <2>11. QED
    BY <2>1, <2>3, <2>4, <2>5, <2>6, <2>7, <2>8, <2>10, PartsMakeIInv DEF MoneyParts
<1>6. CASE disk' = disk /\ CommitFails(new)
  <2>1. reported' = reported
    BY <1>1, <1>6 DEF Report
  <2>2. QED
    BY <1>1, <1>6, <2>1, NothingWritten DEF CommitFails
<1>7. QED
  BY <1>1, <1>5, <1>6 DEF Write, Commit, CommitFails

\* A stuttering step keeps everything.
LEMMA StutterKeeps == IInv /\ UNCHANGED vars => IInv'
<1> SUFFICES ASSUME IInv, UNCHANGED vars PROVE IInv'
  OBVIOUS
<1>1. TypeOK'
  BY DEF vars, process, provider, IInv, TypeOK
<1>2. MoneyParts'
  BY DEF vars, process, provider, IInv, MoneyParts, Books, OpenCredit, Sends, Receipts,
         ChargesAreCovered, Exposure, ExposureOf, Bounded, LedgerKeepsReports
<1>3. Ownership' /\ Snapshots'
  BY DEF vars, process, provider, IInv, Ownership, Snapshots
<1>4. QED
  BY <1>1, <1>2, <1>3, PartsMakeIInv

\* The invariant is inductive.
LEMMA IInvInductive == IInv /\ [Next]_vars => IInv'
<1> SUFFICES ASSUME IInv, [Next]_vars PROVE IInv'
  OBVIOUS
<1>1. CASE Activate
  BY <1>1, ActivateKeeps
<1>2. CASE Open
  BY <1>2, OpenKeeps
<1>3. CASE Crash \/ Poison \/ TakeSnapshot
  BY <1>3, IdleKeeps
<1>4. CASE IncreaseLimit
  BY <1>4, IncreaseLimitKeeps
<1>5. CASE RestoreLimit
  BY <1>5, RestoreLimitKeeps
<1>6. CASE Reserve
  BY <1>6, ReserveKeeps
<1>7. CASE SaveReport
  BY <1>7, SaveReportKeeps
<1>8. CASE RollBack
  BY <1>8, RollBackKeeps
<1>9. ASSUME NEW a \in Attempts, Dispatch(a) PROVE IInv'
  BY <1>9, DispatchKeeps
<1>10. ASSUME NEW a \in Attempts, Answer(a) PROVE IInv'
  BY <1>10, AnswerKeeps
<1>11. ASSUME NEW a \in Attempts, Settle(a) PROVE IInv'
  BY <1>11, SettleKeeps
<1>12. ASSUME NEW a \in Attempts, SettleUnused(a) PROVE IInv'
  BY <1>12, SettleUnusedKeeps
<1>13. ASSUME NEW a \in Attempts, ObserveCost(a) PROVE IInv'
  BY <1>13, ObserveCostKeeps
<1>14. CASE UNCHANGED vars
  BY <1>14, StutterKeeps
<1>15. QED
  BY <1>1, <1>2, <1>3, <1>4, <1>5, <1>6, <1>7, <1>8, <1>9, <1>10, <1>11, <1>12, <1>13, <1>14
     DEF Next

-----------------------------------------------------------------------------
(***************************************************************************)
(* The theorems.                                                           *)
(***************************************************************************)

\* The invariant holds in every state of every behaviour.
THEOREM Invariance == Spec => []IInv
BY InitIInv, IInvInductive, PTL DEF Spec

\* The journal, its owner and the provider keep their types: no revision, attempt
\* number, floor or receipt credit leaves its range.
THEOREM TypeCorrect == Spec => []TypeOK
<1>1. IInv => TypeOK
  BY DEF IInv
<1>2. QED
  BY <1>1, Invariance, PTL

\* Every charge is covered by its hold or its settled cost in the record.
THEOREM Covered == Spec => []ChargesAreCovered
<1>1. IInv => ChargesAreCovered
  BY DEF IInv
<1>2. QED
  BY <1>1, Invariance, PTL

\* No admission is ever posted twice, whatever crashes and writes fail.
THEOREM PostsOnce == Spec => []SinglePost
<1>1. IInv => SinglePost
  BY DEF IInv, Sends, SinglePost
<1>2. QED
  BY <1>1, Invariance, PTL

\* The known floor counts each known cost exactly once.
THEOREM FloorExact == Spec => []FloorCountsOnce
<1>1. IInv => FloorCountsOnce
  BY DEF IInv, Books, FloorCountsOnce
<1>2. QED
  BY <1>1, Invariance, PTL

\* No reported cost is lost from the ledger.
THEOREM LedgerExact == Spec => []LedgerKeepsReports
<1>1. IInv => LedgerKeepsReports
  BY DEF IInv
<1>2. QED
  BY <1>1, Invariance, PTL

\* A live owner has a caller for every open hold.
THEOREM CallersHold == Spec => []HoldsHaveCallers
<1>1. IInv => HoldsHaveCallers
  BY DEF IInv, Ownership, HoldsHaveCallers
<1>2. QED
  BY <1>1, Invariance, PTL

\* The bills of the whole run never pass the highest limit the operator set.
THEOREM WithinGrant == Spec => []SpendWithinGrant
<1>1. IInv => SpendWithinGrant
  <2> SUFFICES ASSUME IInv PROVE SpendWithinGrant
    OBVIOUS
  <2>1. /\ charge \in [1..MaxAttempt -> Nat] /\ ExposureOf(disk) \in [1..MaxAttempt -> Nat]
        /\ granted \in Nat
    BY Derived DEF IInv, TypeOK, Attempts
  <2>2. \A i \in 1..MaxAttempt : charge[i] <= ExposureOf(disk)[i]
    BY DEF IInv, ChargesAreCovered, Exposure, ExposureOf, Attempts
  <2>3. Total(MaxAttempt, charge) <= Total(MaxAttempt, ExposureOf(disk))
    BY <2>1, <2>2, TotalMono, BoundsAssumption
  <2>4. PICK t \in Nat, u \in Nat : t = Total(MaxAttempt, charge) /\ u = Total(MaxAttempt, ExposureOf(disk))
    BY <2>1, TotalNat, BoundsAssumption
  <2>5. PriorCost + u <= Larger(granted, PriorCost) /\ Larger(granted, PriorCost) \in Nat
    BY <2>1, <2>4, BoundsAssumption DEF IInv, Bounded, Larger
  <2>6. PriorCost + t <= Larger(granted, PriorCost)
    BY <2>3, <2>4, <2>5, BoundsAssumption
  <2>7. QED
    BY <2>4, <2>6 DEF SpendWithinGrant
<1>2. QED
  BY <1>1, Invariance, PTL

-----------------------------------------------------------------------------
(***************************************************************************)
(* What a step may never do.                                               *)
(***************************************************************************)

\* Of the records written after activation only an increase raises the limit,
\* and only a settlement drops a hold.
LEMMA ReservedFields ==
  ASSUME NEW d \in Records, NEW q
  PROVE  Reserved(d, q).limit = d.limit /\ d.pending \subseteq Reserved(d, q).pending
BY DEF Records, Reserved

LEMMA SettledFields ==
  ASSUME NEW d \in Records, NEW a, NEW c, NEW usage
  PROVE  /\ Settled(d, a, c, usage).limit = d.limit
         /\ Settled(d, a, c, usage).pending = d.pending \ {a}
         /\ \A r : [Settled(d, a, c, usage) EXCEPT !.report = r].limit = d.limit
         /\ \A r : [Settled(d, a, c, usage) EXCEPT !.report = r].pending = d.pending \ {a}
BY DEF Records, Settled

LEMMA ObservedFields ==
  ASSUME NEW d \in Records, NEW a, NEW c
  PROVE  Observed(d, a, c).limit = d.limit /\ Observed(d, a, c).pending = d.pending
BY DEF Records, Observed

\* A tightened record keeps the holds and has no higher limit.
LEMMA TightenedFields ==
  ASSUME NEW d \in Records, NEW l \in Nat
  PROVE  /\ Tightened(d, l).pending = d.pending
         /\ Tightened(d, l).limit \in Nat /\ Tightened(d, l).limit <= d.limit
<1>1. CASE l < d.limit
  BY <1>1, Fields DEF Tightened, Records
<1>2. CASE ~(l < d.limit)
  BY <1>2, Fields DEF Tightened
<1>3. QED
  BY <1>1, <1>2

\* One step: the limit does not rise unless activated or increased, and the holds
\* stay unless the owner that was given them settles them.
LEMMA StepFields ==
  ASSUME TypeOK, Next
  PROVE  /\ Activate \/ IncreaseLimit \/ disk'.limit <= disk.limit
         /\ \A a \in disk.pending \ disk'.pending : owner = "live" /\ a \in held
<1>1. disk \in Records /\ disk.limit \in Nat /\ snap \in Records
  BY Fields DEF TypeOK
<1> DEFINE Goal == /\ Activate \/ IncreaseLimit \/ disk'.limit <= disk.limit
                   /\ \A a \in disk.pending \ disk'.pending : owner = "live" /\ a \in held
           Quiet == disk'.limit = disk.limit /\ disk.pending \subseteq disk'.pending
<1>2. Quiet => Goal
  BY <1>1
<1>3. CASE Activate
  <2>1. PICK l \in Limits : disk' \in {disk, [disk EXCEPT !.limit = l]}
    BY <1>3 DEF Activate
  <2>2. disk'.pending = disk.pending
    BY <1>1, <2>1 DEF Records
  <2>3. QED
    BY <1>3, <2>2
<1>4. CASE IncreaseLimit
  <2>1. PICK l \in Limits : disk' \in {disk, [disk EXCEPT !.limit = l, !.revision = @ + 1]}
    BY <1>4 DEF IncreaseLimit, Write, Commit, CommitFails
  <2>2. disk'.pending = disk.pending
    BY <1>1, <2>1 DEF Records
  <2>3. QED
    BY <1>4, <2>2
<1>5. CASE Open
  <2>1. PICK l \in Limits : disk' \in {disk, Tightened(disk, l)}
    BY <1>5 DEF Open
  <2>2. l \in Nat
    BY BoundsAssumption
  <2>3. QED
    BY <1>1, <2>1, <2>2, TightenedFields
<1>6. CASE RestoreLimit
  <2>1. PICK l \in Limits : disk' \in {disk, Tightened(disk, l)}
    BY <1>6 DEF RestoreLimit, Write, Commit, CommitFails
  <2>2. l \in Nat
    BY BoundsAssumption
  <2>3. QED
    BY <1>1, <2>1, <2>2, TightenedFields
<1>7. CASE Crash \/ Poison \/ TakeSnapshot
  BY <1>1, <1>7 DEF Crash, Poison, TakeSnapshot
<1>8. CASE Reserve
  <2>1. PICK q \in Quotes : disk' \in {disk, Reserved(disk, q)}
    BY <1>8 DEF Reserve, Commit, CommitFails
  <2>2. Quiet
    BY <1>1, <2>1, ReservedFields
  <2>3. QED
    BY <1>2, <2>2
<1>9. CASE SaveReport
  <2>1. PICK r \in Reports : disk' \in {disk, [disk EXCEPT !.report = r]}
    BY <1>9 DEF SaveReport, Write, Commit, CommitFails
  <2>2. Quiet
    BY <1>1, <2>1 DEF Records
  <2>3. QED
    BY <1>2, <2>2
<1>10. CASE RollBack
  <2>1. disk' \in {disk, [disk EXCEPT !.report = snap.report]}
    BY <1>10 DEF RollBack, Restored, Write, Commit, CommitFails
  <2>2. Quiet
    BY <1>1, <2>1 DEF Records
  <2>3. QED
    BY <1>2, <2>2
<1>11. ASSUME NEW a \in Attempts, Dispatch(a) \/ Answer(a) PROVE Goal
  BY <1>1, <1>11 DEF Dispatch, Answer
<1>12. ASSUME NEW a \in Attempts, Settle(a) PROVE Goal
  <2>1. PICK actual \in charge[a]..disk.quote[a] :
        \E est \in (IF a \in disk.observed THEN {0} ELSE {0, actual}) :
          \/ CommitAndSave(Settled(disk, a, actual, disk.usage + est))
          \/ CommitFails(Settled(disk, a, actual, disk.usage + est))
    BY <1>12 DEF Settle
  <2>2. PICK est :
          \/ CommitAndSave(Settled(disk, a, actual, disk.usage + est))
          \/ CommitFails(Settled(disk, a, actual, disk.usage + est))
    BY <2>1
  <2> DEFINE new == Settled(disk, a, actual, disk.usage + est)
  <2>3. /\ new.limit = disk.limit /\ new.pending = disk.pending \ {a}
        /\ \A r : [new EXCEPT !.report = r].limit = disk.limit
        /\ \A r : [new EXCEPT !.report = r].pending = disk.pending \ {a}
    BY <1>1, SettledFields
  <2>4. disk' \in {disk, new} \/ \E r \in Reports : disk' = [new EXCEPT !.report = r]
    BY <2>2 DEF CommitAndSave, CommitFails
  <2> HIDE DEF new
  <2>5. disk'.limit = disk.limit /\ disk'.pending \in {disk.pending, disk.pending \ {a}}
    BY <2>3, <2>4
  <2>6. owner = "live" /\ a \in held
    BY <1>12 DEF Settle, Current
  <2>7. QED
    BY <1>1, <2>5, <2>6
<1>13. ASSUME NEW a \in Attempts, SettleUnused(a) PROVE Goal
  <2>1. disk' \in {disk, Settled(disk, a, 0, snap.usage)}
    BY <1>13 DEF SettleUnused, Write, Commit, CommitFails
  <2>2. owner = "live" /\ a \in held
    BY <1>13 DEF SettleUnused, Current
  <2>3. QED
    BY <1>1, <2>1, <2>2, SettledFields
<1>14. ASSUME NEW a \in Attempts, ObserveCost(a) PROVE Goal
  <2>1. disk' \in {disk, Observed(disk, a, charge[a])}
    BY <1>14 DEF ObserveCost, Write, Commit, CommitFails
  <2>2. Quiet
    BY <1>1, <2>1, ObservedFields
  <2>3. QED
    BY <1>2, <2>2
<1>15. QED
  BY <1>3, <1>4, <1>5, <1>6, <1>7, <1>8, <1>9, <1>10, <1>11, <1>12, <1>13, <1>14 DEF Next

\* The saved limit rises only at the operator's word.
THEOREM WidensExplicitly == Spec => WidensOnlyExplicitly
<1>1. TypeOK /\ TypeOK' /\ [Next]_vars
        => [disk'.limit > disk.limit => Activate \/ IncreaseLimit]_vars
  <2> SUFFICES ASSUME TypeOK, TypeOK', Next
               PROVE  disk'.limit > disk.limit => Activate \/ IncreaseLimit
    OBVIOUS
  <2>1. CASE Activate \/ IncreaseLimit
    BY <2>1
  <2>2. CASE disk'.limit <= disk.limit /\ ~Activate /\ ~IncreaseLimit
    <3>1. disk.limit \in Nat /\ disk'.limit \in Nat
      BY Fields DEF TypeOK
    <3>2. QED
      BY <2>2, <3>1
  <2>3. QED
    BY <2>1, <2>2, StepFields
<1>2. QED
  BY <1>1, TypeCorrect, PTL DEF Spec, WidensOnlyExplicitly

\* An open hold leaves the record only at the hand of the process given it.
THEOREM HoldsOutlive == Spec => HoldsSurvive
<1>1. TypeOK /\ [Next]_vars
        => [\A a \in disk.pending \ disk'.pending : owner = "live" /\ a \in held]_vars
  BY StepFields
<1>2. QED
  BY <1>1, TypeCorrect, PTL DEF Spec, HoldsSurvive

\* After a failed write the owner neither writes nor posts.
THEOREM PoisonHolds == Spec => PoisonedIsInert
<1>1. Next => (owner = "poisoned" => UNCHANGED <<disk, posts>>)
  <2> SUFFICES ASSUME Next, owner = "poisoned" PROVE UNCHANGED <<disk, posts>>
    OBVIOUS
  <2>1. ~Activate /\ ~Open /\ ~Poison /\ ~Current
    BY DEF Activate, Open, Poison, Current
  <2>2. ~IncreaseLimit /\ ~RestoreLimit /\ ~Reserve /\ ~TakeSnapshot /\ ~SaveReport /\ ~RollBack
    BY <2>1 DEF IncreaseLimit, RestoreLimit, Reserve, TakeSnapshot, SaveReport, RollBack
  <2>3. \A a \in Attempts : ~Dispatch(a) /\ ~Settle(a) /\ ~SettleUnused(a) /\ ~ObserveCost(a)
    BY <2>1 DEF Dispatch, Settle, SettleUnused, ObserveCost
  <2>4. CASE Crash
    BY <2>4 DEF Crash, provider
  <2>5. ASSUME NEW a \in Attempts, Answer(a) PROVE UNCHANGED <<disk, posts>>
    BY <2>5 DEF Answer
  <2>6. QED
    BY <2>1, <2>2, <2>3, <2>4, <2>5 DEF Next
<1>2. [Next]_vars => [owner = "poisoned" => UNCHANGED <<disk, posts>>]_vars
  BY <1>1
<1>3. QED
  BY <1>2, PTL DEF Spec, PoisonedIsInert

-----------------------------------------------------------------------------
(***************************************************************************)
(* FiniteBudget implements SpendPromise.                                   *)
(***************************************************************************)

\* The exposure the promise speaks of is that of the record.
LEMMA ExposureRefines == [a \in Attempts |-> Exposure(a)] = ExposureOf(disk)
BY DEF Exposure, ExposureOf

\* Totals mean the same in both modules.
LEMMA SameTotal == \A n, f : Promise!Total(n, f) = Total(n, f)
BY Zenon DEF Promise!Total, Total

\* Initially nothing is granted, exposed or charged.
LEMMA InitRefines == Init => Promise!Init
<1> SUFFICES ASSUME Init PROVE Promise!Init
  OBVIOUS
<1>1. \A a \in Attempts : Exposure(a) = 0
  BY DEF Init, Blank, Exposure, Zeros
<1>2. QED
  BY <1>1 DEF Init, Zeros, Promise!Init, Promise!Attempts, Attempts

\* The record keeps its exposure.
ExposureSame == ExposureOf(disk') = ExposureOf(disk)

\* Steps that change neither exposure, charge nor grant are stutters of the promise.
LEMMA StutterRefines ==
  ASSUME ExposureSame, charge' = charge, granted' = granted
  PROVE  UNCHANGED Promise!pvars
<1>1. [a \in Attempts |-> Exposure(a)]' = ExposureOf(disk')
  BY DEF Exposure, ExposureOf
<1>2. QED
  BY <1>1, ExposureRefines DEF ExposureSame, Promise!pvars

\* Which steps leave the exposure alone.
LEMMA QuietExposure ==
  ASSUME TypeOK,
         \/ Activate \/ Open \/ Crash \/ Poison \/ IncreaseLimit \/ RestoreLimit
         \/ TakeSnapshot \/ SaveReport \/ RollBack
         \/ \E a \in Attempts : Dispatch(a) \/ Answer(a) \/ ObserveCost(a)
  PROVE  ExposureSame
<1>1. disk \in Records
  BY DEF TypeOK
<1> DEFINE Kept(e) == e.pending = disk.pending /\ e.quote = disk.quote /\ e.cost = disk.cost
<1>2. Kept(disk') => ExposureSame
  BY DEF ExposureSame, ExposureOf
<1>3. disk' = disk => ExposureSame
  BY DEF ExposureSame
<1>4. \A l : Kept([disk EXCEPT !.limit = l])
  BY <1>1 DEF Records
<1>5. \A l : Kept([disk EXCEPT !.limit = l, !.revision = @ + 1])
  BY <1>1 DEF Records
<1>6. \A l : Kept(Tightened(disk, l))
  BY <1>1 DEF Records, Tightened
<1>7. \A r : Kept([disk EXCEPT !.report = r])
  BY <1>1 DEF Records
<1>8. \A a, c : Kept(Observed(disk, a, c))
  BY <1>1 DEF Records, Observed
<1>9. CASE Activate
  <2>1. PICK l \in Limits : disk' \in {disk, [disk EXCEPT !.limit = l]}
    BY <1>9 DEF Activate
  <2>2. Kept(disk')
    <3> DEFINE e == [disk EXCEPT !.limit = l]
    <3>1. Kept(e)
      BY <1>4
    <3>2. disk' = disk \/ disk' = e
      BY <2>1
    <3> HIDE DEF e
    <3>3. QED
      BY <3>1, <3>2
  <2>3. QED
    BY <1>2, <2>2
<1>10. CASE IncreaseLimit
  <2>1. PICK l \in Limits : disk' \in {disk, [disk EXCEPT !.limit = l, !.revision = @ + 1]}
    BY <1>10 DEF IncreaseLimit, Write, Commit, CommitFails
  <2>2. Kept(disk')
    <3> DEFINE e == [disk EXCEPT !.limit = l, !.revision = @ + 1]
    <3>1. Kept(e)
      BY <1>5
    <3>2. disk' = disk \/ disk' = e
      BY <2>1
    <3> HIDE DEF e
    <3>3. QED
      BY <3>1, <3>2
  <2>3. QED
    BY <1>2, <2>2
<1>11. CASE Open \/ RestoreLimit
  <2>1. PICK l \in Limits : disk' \in {disk, Tightened(disk, l)}
    BY <1>11 DEF Open, RestoreLimit, Write, Commit, CommitFails
  <2>2. QED
    BY <1>2, <1>6, <2>1
<1>12. CASE SaveReport \/ RollBack
  <2>1. PICK r : disk' \in {disk, [disk EXCEPT !.report = r]}
    BY <1>12 DEF SaveReport, RollBack, Restored, Write, Commit, CommitFails
  <2>2. Kept(disk')
    <3> DEFINE e == [disk EXCEPT !.report = r]
    <3>1. Kept(e)
      BY <1>7
    <3>2. disk' = disk \/ disk' = e
      BY <2>1
    <3> HIDE DEF e
    <3>3. QED
      BY <3>1, <3>2
  <2>3. QED
    BY <1>2, <2>2
<1>13. ASSUME NEW a \in Attempts, ObserveCost(a) PROVE ExposureSame
  <2>1. disk' \in {disk, Observed(disk, a, charge[a])}
    BY <1>13 DEF ObserveCost, Write, Commit, CommitFails
  <2>2. QED
    BY <1>2, <1>8, <2>1
<1>14. CASE Crash \/ Poison \/ TakeSnapshot \/ \E a \in Attempts : Dispatch(a) \/ Answer(a)
  BY <1>3, <1>14 DEF Crash, Poison, TakeSnapshot, Dispatch, Answer
<1>15. QED
  BY <1>9, <1>10, <1>11, <1>12, <1>13, <1>14

\* A reservation admits its attempt, or stutters when its write failed.
LEMMA ReserveRefines == IInv /\ Reserve => Promise!Next \/ UNCHANGED Promise!pvars
<1> SUFFICES ASSUME IInv, Reserve PROVE Promise!Next \/ UNCHANGED Promise!pvars
  OBVIOUS
<1>1. PICK q \in Quotes : Fits(disk, q) /\ disk' \in {disk, Reserved(disk, q)}
  BY DEF Reserve, Commit, CommitFails
<1>2. /\ disk \in Records /\ q \in Nat /\ 1 <= q /\ Books(disk)
      /\ disk.next <= MaxAttempt /\ disk.revision < MaxRevision
      /\ granted' = granted /\ charge' = charge /\ granted \in Nat
      /\ disk.limit <= granted /\ disk.limit \in Nat
  BY Fields, BoundsAssumption DEF Reserve, RoomForHold, Quotes, IInv, TypeOK, Bounded, provider
<1>3. CASE disk' = disk
  BY <1>2, <1>3, StutterRefines DEF ExposureSame
<1>4. CASE disk' = Reserved(disk, q)
  <2> DEFINE k == disk.next
             ex == [a \in Attempts |-> Exposure(a)]
  <2>1. k \in Attempts
    BY <1>2, Fields DEF Attempts
  <2>2. /\ ex = ExposureOf(disk) /\ ex' = ExposureOf(disk')
        /\ ExposureOf(disk') = [ExposureOf(disk) EXCEPT ![k] = q] /\ ExposureOf(disk)[k] = 0
    BY <1>2, <1>4, ReservedKeeps, ExposureRefines DEF Exposure, ExposureOf
  <2>3. charge[k] = 0
    <3>1. charge[k] <= ExposureOf(disk)[k] /\ charge[k] \in Nat
      BY <2>1 DEF IInv, TypeOK, ChargesAreCovered, Exposure, ExposureOf
    <3>2. QED
      BY <2>2, <3>1
  <2>4. PriorCost + Total(MaxAttempt, ExposureOf(disk')) <= granted /\ q <= granted
    <3>1. PriorCost + Total(MaxAttempt, ExposureOf(disk')) <= disk.limit /\ q <= disk.limit
      BY <1>1, <1>2, <1>4, ReservedFits
    <3>2. Total(MaxAttempt, ExposureOf(disk')) \in Nat
      BY <1>2, <1>4, ReservedKeeps, Derived, TotalNat, BoundsAssumption
    <3>3. QED
      BY <1>2, <3>1, <3>2, BoundsAssumption
  <2>5. q \in 1..granted
    BY <1>2, <2>4
  <2>6. Promise!Admit(k)
    BY <1>2, <2>2, <2>3, <2>4, <2>5, SameTotal DEF Promise!Admit
  <2>7. QED
    BY <2>1, <2>6 DEF Promise!Next, Promise!Attempts, Attempts
<1>5. QED
  BY <1>1, <1>3, <1>4

\* A settlement moves its attempt's exposure to the cost, and no other.
LEMMA SettledExposure ==
  ASSUME NEW d \in Records, NEW a \in Attempts, NEW c, NEW usage
  PROVE  ExposureOf(Settled(d, a, c, usage)) = [ExposureOf(d) EXCEPT ![a] = c]
<1> DEFINE e == Settled(d, a, c, usage)
<1>1. /\ e.pending = d.pending \ {a} /\ e.quote = d.quote
      /\ e.cost = [d.cost EXCEPT ![a] = c]
  BY DEF Records, Settled
<1> HIDE DEF e
<1>2. ExposureOf(e) = [ExposureOf(d) EXCEPT ![a] = c]
  BY <1>1, Fields DEF ExposureOf
<1>3. QED
  BY <1>2 DEF e

\* A move of one attempt's exposure between its charge and its hold reconciles it.
LEMMA ReconcileRefines ==
  ASSUME IInv, NEW a \in Attempts, NEW v \in charge[a]..ExposureOf(disk)[a],
         ExposureOf(disk') = [ExposureOf(disk) EXCEPT ![a] = v],
         charge' = charge, granted' = granted
  PROVE  Promise!Next
<1> DEFINE ex == [b \in Attempts |-> Exposure(b)]
<1>1. ex = ExposureOf(disk) /\ ex' = ExposureOf(disk')
  BY DEF Exposure, ExposureOf
<1>2. Promise!Reconcile(a)
  BY <1>1 DEF Promise!Reconcile
<1>3. QED
  BY <1>2 DEF Promise!Next, Promise!Attempts, Attempts

\* A settlement reconciles its attempt.
LEMMA SettleRefines ==
  ASSUME NEW a \in Attempts
  PROVE  IInv /\ (Settle(a) \/ SettleUnused(a)) => Promise!Next \/ UNCHANGED Promise!pvars
<1> SUFFICES ASSUME IInv, Settle(a) \/ SettleUnused(a)
             PROVE  Promise!Next \/ UNCHANGED Promise!pvars
  OBVIOUS
<1>1. /\ disk \in Records /\ a \in disk.pending /\ charge' = charge /\ granted' = granted
      /\ charge[a] \in Nat /\ disk.quote[a] \in Nat /\ ExposureOf(disk)[a] = disk.quote[a]
  BY Fields DEF Settle, SettleUnused, IInv, TypeOK, provider, ExposureOf
<1>2. disk' = disk => UNCHANGED Promise!pvars
  BY <1>1, StutterRefines DEF ExposureSame
<1>3. CASE Settle(a)
  <2>1. PICK actual \in charge[a]..disk.quote[a] :
        \E est \in (IF a \in disk.observed THEN {0} ELSE {0, actual}) :
          \/ CommitAndSave(Settled(disk, a, actual, disk.usage + est))
          \/ CommitFails(Settled(disk, a, actual, disk.usage + est))
    BY <1>3 DEF Settle
  <2>2. PICK est :
          \/ CommitAndSave(Settled(disk, a, actual, disk.usage + est))
          \/ CommitFails(Settled(disk, a, actual, disk.usage + est))
    BY <2>1
  <2> DEFINE new == Settled(disk, a, actual, disk.usage + est)
  <2>3. disk' = disk \/ disk' = new \/ \E r : disk' = [new EXCEPT !.report = r]
    BY <2>2 DEF CommitAndSave, CommitFails
  <2>4. ASSUME NEW r, disk' = [new EXCEPT !.report = r] PROVE ExposureOf(disk') = ExposureOf(new)
    <3>1. disk'.pending = new.pending /\ disk'.quote = new.quote /\ disk'.cost = new.cost
      BY <1>1, <2>4 DEF Records, Settled
    <3> HIDE DEF new
    <3>2. QED
      BY <3>1 DEF ExposureOf
  <2>5. ExposureOf(new) = [ExposureOf(disk) EXCEPT ![a] = actual]
    BY <1>1, SettledExposure
  <2> HIDE DEF new
  <2>6. disk' = disk \/ ExposureOf(disk') = [ExposureOf(disk) EXCEPT ![a] = actual]
    BY <2>3, <2>4, <2>5
  <2>7. QED
    BY <1>1, <1>2, <2>1, <2>6, ReconcileRefines
<1>4. CASE SettleUnused(a)
  <2>1. disk' \in {disk, Settled(disk, a, 0, snap.usage)}
    BY <1>4 DEF SettleUnused, Write, Commit, CommitFails
  <2>2. ExposureOf(Settled(disk, a, 0, snap.usage)) = [ExposureOf(disk) EXCEPT ![a] = 0]
    BY <1>1, SettledExposure
  <2>3. charge[a] = 0
    BY <1>4 DEF SettleUnused, Unposted, IInv, TypeOK, Sends
  <2>4. 0 \in charge[a]..ExposureOf(disk)[a]
    BY <1>1, <2>3
  <2>5. QED
    BY <1>1, <1>2, <2>1, <2>2, <2>4, ReconcileRefines
<1>5. QED
  BY <1>3, <1>4

\* The provider's answer bills its attempt.
LEMMA AnswerRefines ==
  ASSUME NEW a \in Attempts
  PROVE  IInv /\ Answer(a) => Promise!Next
<1> SUFFICES ASSUME IInv, Answer(a) PROVE Promise!Next
  OBVIOUS
<1>1. PICK c \in 0..disk.quote[a] : charge' = [charge EXCEPT ![a] = @ + c]
  BY DEF Answer
<1>2. /\ disk' = disk /\ granted' = granted /\ answered[a] < posts[a] /\ disk.quote[a] \in Nat
      /\ answered[a] \in Nat /\ posts[a] \in Nat /\ charge \in [Attempts -> Nat]
  BY Fields DEF Answer, IInv, TypeOK
<1>3. answered[a] = 0 /\ a \in disk.pending /\ charge[a] = 0
  BY <1>2 DEF IInv, Sends
<1> DEFINE ex == [b \in Attempts |-> Exposure(b)]
<1>4. ex' = ex /\ ex[a] = disk.quote[a]
  BY <1>2, <1>3 DEF Exposure
<1>5. c \in charge[a]..ex[a] /\ charge' = [charge EXCEPT ![a] = c]
  BY <1>1, <1>2, <1>3, <1>4
<1>6. Promise!Bill(a)
  BY <1>2, <1>4, <1>5 DEF Promise!Bill
<1>7. QED
  BY <1>6 DEF Promise!Next, Promise!Attempts, Attempts

\* Activation and an increase grant; an increase to a limit once granted stutters.
LEMMA GrantRefines ==
  IInv /\ (Activate \/ IncreaseLimit) => Promise!Next \/ UNCHANGED Promise!pvars
<1> SUFFICES ASSUME IInv, Activate \/ IncreaseLimit
             PROVE  Promise!Next \/ UNCHANGED Promise!pvars
  OBVIOUS
<1>1. ExposureSame /\ charge' = charge /\ granted \in Nat
  BY QuietExposure DEF IInv, TypeOK, Activate, IncreaseLimit, provider
<1>2. granted' \in Nat /\ granted <= granted'
  <2>1. CASE Activate
    BY <2>1, BoundsAssumption DEF Activate, IInv, Ownership
  <2>2. CASE IncreaseLimit
    <3>1. PICK l \in Limits : granted' = Larger(granted, l)
      BY <2>2 DEF IncreaseLimit
    <3>2. l \in Nat
      BY BoundsAssumption
    <3>3. QED
      BY <1>1, <3>1, <3>2 DEF Larger
  <2>3. QED
    BY <2>1, <2>2
<1> DEFINE ex == [b \in Attempts |-> Exposure(b)]
<1>3. ex' = ex
  BY <1>1 DEF ExposureSame, Exposure, ExposureOf
<1>4. CASE granted' = granted
  BY <1>1, <1>4, StutterRefines
<1>5. CASE granted' > granted
  BY <1>1, <1>2, <1>3, <1>5 DEF Promise!Next, Promise!Grant
<1>6. QED
  BY <1>1, <1>2, <1>4, <1>5

\* Every step of the journal is a step of the promise or a stutter.
LEMMA NextRefines == IInv /\ [Next]_vars => [Promise!Next]_(Promise!pvars)
<1> SUFFICES ASSUME IInv, [Next]_vars PROVE Promise!Next \/ UNCHANGED Promise!pvars
  OBVIOUS
<1>1. TypeOK
  BY DEF IInv
<1>2. CASE Activate \/ IncreaseLimit
  BY <1>2, GrantRefines
<1>3. CASE Reserve
  BY <1>3, ReserveRefines
<1>4. ASSUME NEW a \in Attempts, Settle(a) \/ SettleUnused(a)
      PROVE  Promise!Next \/ UNCHANGED Promise!pvars
  BY <1>4, SettleRefines
<1>5. ASSUME NEW a \in Attempts, Answer(a) PROVE Promise!Next
  BY <1>5, AnswerRefines
<1>6. CASE \/ Open \/ Crash \/ Poison \/ RestoreLimit \/ TakeSnapshot \/ SaveReport \/ RollBack
           \/ \E a \in Attempts : Dispatch(a) \/ ObserveCost(a)
  <2>1. ExposureSame
    BY <1>1, <1>6, QuietExposure
  <2>2. charge' = charge /\ granted' = granted
    BY <1>6 DEF Open, Crash, Poison, RestoreLimit, TakeSnapshot, SaveReport, RollBack, Dispatch,
                ObserveCost, provider
  <2>3. QED
    BY <2>1, <2>2, StutterRefines
<1>7. CASE UNCHANGED vars
  BY <1>7, StutterRefines DEF vars, provider, ExposureSame
<1>8. QED
  BY <1>2, <1>3, <1>4, <1>5, <1>6, <1>7 DEF Next

\* The journal keeps the promise made to the operator.
THEOREM Refinement == Spec => KeepsPromise
<1>1. Init => Promise!Init
  BY InitRefines
<1>2. IInv /\ [Next]_vars => [Promise!Next]_(Promise!pvars)
  BY NextRefines
<1>3. QED
  BY <1>1, <1>2, Invariance, PTL DEF Spec, KeepsPromise, Promise!Spec
=============================================================================
