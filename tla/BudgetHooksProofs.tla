-------------------------- MODULE BudgetHooksProofs --------------------------
(***************************************************************************)
(* The books of the model hooks, for any number of agents, requests,       *)
(* quotes and limits: what the provider may bill is counted, no estimate   *)
(* is counted twice, and neither the operator's limit, a triage's          *)
(* allowance nor the cap on searches is exceeded.                          *)
(*                                                                         *)
(* The argument: an answer is only ever matched with its own attempt or    *)
(* with none (EndsItself), so a request that was sent leaves the books in  *)
(* memory no sooner than the journal.  The limit is kept by the journal,   *)
(* which may hold more than the memory counts: a search that was not sent  *)
(* and whose release failed.  A triage makes no searches; there the memory *)
(* counts what the journal holds (HoldsAreBooked), and what fits its       *)
(* allowance by the one fits it by the other.                              *)
(***************************************************************************)
EXTENDS BudgetHooks, TotalsProofs, FiniteSetTheorems

-----------------------------------------------------------------------------
(* Sums over sets of requests. *)

\* The entries of q at the requests of S.
Entry(q, S) == [r \in Requests |-> IF r \in S THEN q[r] ELSE 0]
Summed(q, S) == Total(MaxRequest, Entry(q, S))

LEMMA QuotedIsSummed == \A S : Quoted(S) = Summed(quote, S)
  BY DEF Quoted, Summed, Entry

LEMMA EntryType ==
  ASSUME NEW q \in [Requests -> Nat], NEW S
  PROVE  Entry(q, S) \in [1..MaxRequest -> Nat] /\ MaxRequest \in Nat
  BY HooksAssumption DEF Entry, Requests

LEMMA SummedNat ==
  ASSUME NEW q \in [Requests -> Nat], NEW S
  PROVE  Summed(q, S) \in Nat
<1>1. Entry(q, S) \in [1..MaxRequest -> Nat] /\ MaxRequest \in Nat
  BY EntryType
<1>2. QED
  BY <1>1, TotalNat DEF Summed

LEMMA SummedAgree ==
  ASSUME NEW q \in [Requests -> Nat], NEW p \in [Requests -> Nat], NEW S,
         \A r \in Requests : r \in S => p[r] = q[r]
  PROVE  Summed(p, S) = Summed(q, S)
<1>1. Entry(p, S) = Entry(q, S)
  BY DEF Entry
<1>2. QED
  BY <1>1 DEF Summed

\* Adding one request to a set, or changing its entry, adds its entry.
LEMMA SummedAdd ==
  ASSUME NEW q \in [Requests -> Nat], NEW p \in [Requests -> Nat], NEW S, NEW r \in Requests, r \notin S,
         \A s \in Requests : s \in S => p[s] = q[s]
  PROVE  Summed(p, S \union {r}) = Summed(q, S) + p[r]
<1> DEFINE f == Entry(q, S)
           g == Entry(p, S \union {r})
<1>1. f \in [1..MaxRequest -> Nat] /\ g \in [1..MaxRequest -> Nat] /\ MaxRequest \in Nat
  BY EntryType
<1>2. f[r] = 0 /\ g[r] = p[r] /\ \A i \in 1..MaxRequest : i # r => g[i] = f[i]
  BY DEF Entry, Requests
<1>3. r \in 1..MaxRequest
  BY DEF Requests
<1>4. Total(MaxRequest, g) \in Nat /\ Total(MaxRequest, f) \in Nat
  BY <1>1, TotalNat
<1> HIDE DEF f, g
<1>5. Total(MaxRequest, g) + f[r] = Total(MaxRequest, f) + g[r]
  BY <1>1, <1>2, <1>3, TotalUpdate
<1>6. Total(MaxRequest, g) = Total(MaxRequest, f) + p[r]
  BY <1>2, <1>4, <1>5
<1>7. QED
  BY <1>6 DEF Summed, f, g

LEMMA SummedRemove ==
  ASSUME NEW q \in [Requests -> Nat], NEW S, NEW r \in Requests, r \in S
  PROVE  Summed(q, S) = Summed(q, S \ {r}) + q[r]
<1>1. (S \ {r}) \union {r} = S
  OBVIOUS
<1>2. QED
  BY <1>1, SummedAdd

LEMMA SummedSubset ==
  ASSUME NEW q \in [Requests -> Nat], NEW S, NEW T, S \subseteq T
  PROVE  Summed(q, S) <= Summed(q, T)
<1> DEFINE f == Entry(q, S)
           g == Entry(q, T)
<1>1. f \in [1..MaxRequest -> Nat] /\ g \in [1..MaxRequest -> Nat] /\ MaxRequest \in Nat
  BY EntryType
<1>2. \A i \in 1..MaxRequest : f[i] <= g[i]
  BY DEF Entry, Requests
<1> HIDE DEF f, g
<1>3. Total(MaxRequest, f) <= Total(MaxRequest, g)
  BY <1>1, <1>2, TotalMono
<1>4. QED
  BY <1>3 DEF Summed, f, g

\* What two disjoint sets cover, but for entries of zero, they sum to at least.
LEMMA SummedCover ==
  ASSUME NEW q \in [Requests -> Nat], NEW S, NEW T, NEW U, T \intersect U = {},
         \A r \in Requests : r \in S /\ q[r] > 0 => r \in T \union U
  PROVE  Summed(q, S) <= Summed(q, T) + Summed(q, U)
<1> DEFINE f == Entry(q, T)
           g == Entry(q, U)
           h == [r \in Requests |-> f[r] + g[r]]
           e == Entry(q, S)
<1>1. /\ f \in [1..MaxRequest -> Nat] /\ g \in [1..MaxRequest -> Nat] /\ e \in [1..MaxRequest -> Nat]
      /\ MaxRequest \in Nat
  BY EntryType
<1>2. h \in [1..MaxRequest -> Nat] /\ \A i \in 1..MaxRequest : h[i] = f[i] + g[i]
  BY <1>1 DEF Requests
<1>3. \A i \in 1..MaxRequest : e[i] <= h[i]
  <2>1. SUFFICES ASSUME NEW i \in 1..MaxRequest PROVE e[i] <= h[i]
    OBVIOUS
  <2>2. PICK n \in Nat : n = q[i]
    BY DEF Requests
  <2>3. /\ e[i] = IF i \in S THEN n ELSE 0
        /\ f[i] = IF i \in T THEN n ELSE 0
        /\ g[i] = IF i \in U THEN n ELSE 0
    BY <2>2 DEF Entry, Requests
  <2>4. i \in S /\ n > 0 => i \in T \union U
    BY <2>2 DEF Requests
  <2>5. h[i] = f[i] + g[i]
    BY <1>2
  <2> HIDE DEF e, f, g, h
  <2>6. QED
    BY <2>2, <2>3, <2>4, <2>5
<1> HIDE DEF f, g, h, e
<1>4. Total(MaxRequest, h) = Total(MaxRequest, f) + Total(MaxRequest, g)
  BY <1>1, <1>2, TotalPlus
<1>5. Total(MaxRequest, e) <= Total(MaxRequest, h)
  BY <1>1, <1>2, <1>3, TotalMono
<1>6. QED
  BY <1>4, <1>5 DEF Summed, f, g, e

\* Columns that differ at one request differ in total by its entry.
LEMMA ColumnUpdate ==
  ASSUME NEW f \in [Requests -> Nat], NEW g \in [Requests -> Nat], NEW r \in Requests,
         \A s \in Requests : s # r => g[s] = f[s]
  PROVE  /\ Total(MaxRequest, g) + f[r] = Total(MaxRequest, f) + g[r]
         /\ Total(MaxRequest, g) \in Nat /\ Total(MaxRequest, f) \in Nat
<1>1. MaxRequest \in Nat /\ Requests = 1..MaxRequest
  BY HooksAssumption DEF Requests
<1>2. QED
  BY <1>1, TotalUpdate, TotalNat, Zenon

-----------------------------------------------------------------------------
(* The invariant. *)

\* The requests a caller is still responsible for and the journal has not settled.
Live == {"open", "sent", "answered"}

\* What has not been admitted is in no book; what was not sent costs nothing.
Unentered ==
  \A r \in Requests :
    /\ stage[r] \in {"free", "slot"} => r \notin reserved \union floors \union pending \union durable
    /\ stage[r] = "free" => r \notin slots \union entries
    /\ stage[r] \in {"free", "slot", "open"} => r \notin posted /\ charge[r] = 0
    /\ charge[r] <= quote[r]

\* Where a request is in the books while its caller is not through with it. An agent's
\* turn is reserved as its context's active attempt, or abandoned and a floor.
Entered ==
  \A r \in Requests :
    /\ stage[r] \in Live => r \in pending /\ r \in durable /\ kind[r] # "none"
    /\ stage[r] \in Live /\ kind[r] = "llm" =>
         ctx[r] \in Contexts /\ r \in reserved \union floors /\ (r \in reserved => active[ctx[r]] = r)
    /\ stage[r] \in Live /\ kind[r] # "llm" => r \in reserved
    /\ stage[r] = "recorded" => r \in reserved /\ r \notin pending /\ kind[r] \in {"direct", "search"}
    /\ stage[r] = "failed" => r \in reserved /\ kind[r] = "search" /\ ~healthy
    /\ stage[r] = "slot" => kind[r] = "search"

\* The attempts hooks are matched with are agents' turns; a triage makes none.
Matched ==
  /\ \A c \in Contexts : active[c] # 0 => kind[active[c]] = "llm" /\ stage[active[c]] # "free"
  /\ phase = "triage" => \A r \in Requests : kind[r] \in {"none", "direct"}

\* The books in memory and the journal's holds.
Booked ==
  /\ reserved \intersect floors = {}
  /\ \A r \in pending : quote[r] > 0 /\ (kind[r] = "search" => r \in posted) => r \in reserved \union floors
  /\ healthy => \A r \in reserved \union floors : r \in pending \/ stage[r] \in {"recorded", "refused"}

\* What is settled in the journal, and not yet in the memory.
Owed == [r \in Requests |-> IF stage[r] # "recorded" THEN 0
                            ELSE IF kind[r] = "search" THEN quote[r] ELSE charge[r]]
\* What was billed and is no longer held.
Settled == [r \in Requests |-> IF r \in pending THEN 0 ELSE charge[r]]

Priced ==
  /\ spent + Total(MaxRequest, Owed) <= known
  /\ PriorCost + Total(MaxRequest, Settled) <= known
  /\ known + Quoted(pending) <= limit
  /\ phase = "triage" => known + Quoted(pending) <= PriorCost + Allowance

\* A search that was sent keeps its slot or its entry while the journal works, and none
\* is sent when it does not.
Sent == {r \in posted : kind[r] = "search"}
Searching ==
  /\ Cardinality(slots \union entries) <= MaxCalls /\ Quoted(slots \union entries) <= SearchBudget
  /\ Cardinality(Sent) <= MaxCalls /\ Quoted(Sent) <= SearchBudget
  /\ healthy => Sent \subseteq slots \union entries
  /\ \A r \in Requests : kind[r] = "search" /\ stage[r] \in {"slot"} \union Live => r \in slots

IInv == TypeOK /\ Unentered /\ Entered /\ Matched /\ Booked /\ Priced /\ Searching

LEMMA QuoteTypes ==
  ASSUME TypeOK, NEW S
  PROVE  Quoted(S) \in Nat /\ Quoted(S) = Summed(quote, S)
  BY SummedNat, QuotedIsSummed DEF TypeOK

LEMMA ColumnTypes ==
  ASSUME TypeOK
  PROVE  Owed \in [Requests -> Nat] /\ Settled \in [Requests -> Nat]
  BY DEF TypeOK, Owed, Settled

\* The memory of a triage counts what the journal holds.
LEMMA HoldsAreBooked ==
  ASSUME TypeOK, Booked, Matched, phase = "triage"
  PROVE  Quoted(pending) <= Quoted(reserved) + Quoted(floors)
<1>1. \A r \in Requests : r \in pending /\ quote[r] > 0 => r \in reserved \union floors
  BY DEF Booked, Matched
<1>2. reserved \intersect floors = {} /\ quote \in [Requests -> Nat]
  BY DEF TypeOK, Booked
<1>3. Summed(quote, pending) <= Summed(quote, reserved) + Summed(quote, floors)
  BY <1>1, <1>2, SummedCover
<1>4. QED
  BY <1>3, QuotedIsSummed

\* What fits a triage's allowance by the memory fits it by the journal.
LEMMA FitsTheAllowance ==
  ASSUME IInv, NEW q \in Nat, phase = "triage", FitsPhase(q)
  PROVE  known + Quoted(pending) + q <= PriorCost + Allowance
<1>1. /\ Quoted(pending) \in Nat /\ Quoted(reserved) \in Nat /\ Quoted(floors) \in Nat
      /\ Quoted(pending) <= Quoted(reserved) + Quoted(floors)
  BY QuoteTypes, HoldsAreBooked DEF IInv
<1>2. known \in Nat /\ spent \in Nat /\ PriorCost \in Nat /\ Allowance \in Nat
  BY HooksAssumption DEF IInv, TypeOK
<1>3. known <= Committed - Quoted(floors) /\ Committed \in Int
  BY <1>1, <1>2 DEF Committed, Larger
<1>4. Committed - PriorCost + Quoted(reserved) + q <= Allowance
  BY <1>1, <1>2, <1>3 DEF FitsPhase, Larger
<1>5. QED
  BY <1>1, <1>2, <1>3, <1>4

\* An answer is matched with its own attempt, or with none.
LEMMA EndsItself ==
  ASSUME IInv, NEW r \in Requests, stage[r] = "answered", kind[r] = "llm"
  PROVE  AttemptOf(r) \in {0, r}
<1>1. ctx[r] \in Contexts /\ r \in reserved \union floors /\ (r \in reserved => active[ctx[r]] = r)
  BY DEF IInv, Entered, Live
<1>2. QED
  BY <1>1 DEF AttemptOf

-----------------------------------------------------------------------------
(* How the money of the books moves, one lemma per kind of step. *)

\* Nothing is settled: holds keep their quotes and the rest its charges.
LEMMA PricedSame ==
  ASSUME TypeOK, TypeOK', Priced, known' = known, spent' = spent, pending' = pending, phase' = phase,
         limit <= limit',
         \A r \in Requests : r \in pending => quote'[r] = quote[r],
         \A r \in Requests : r \notin pending => charge'[r] = charge[r],
         \A r \in Requests : Owed'[r] = Owed[r]
  PROVE  Priced'
<1>1. Quoted(pending)' = Quoted(pending) /\ Quoted(pending) \in Nat
  <2>1. Quoted(pending)' = Summed(quote', pending) /\ Quoted(pending) = Summed(quote, pending)
    BY DEF Quoted, Summed, Entry
  <2>2. quote \in [Requests -> Nat] /\ quote' \in [Requests -> Nat]
    BY DEF TypeOK
  <2>3. Summed(quote', pending) = Summed(quote, pending)
    BY <2>2, SummedAgree
  <2>4. QED
    BY <2>1, <2>2, <2>3, SummedNat
<1>2. Settled' = Settled
  BY DEF Settled, TypeOK
<1>3. Owed' = Owed
  BY DEF Owed
<1>4. known \in Nat /\ limit \in Nat /\ limit' \in Nat
  BY HooksAssumption DEF TypeOK
<1>5. QED
  BY <1>1, <1>2, <1>3, <1>4 DEF Priced

\* A request is admitted at its quote.
LEMMA PricedEntered ==
  ASSUME TypeOK, TypeOK', Priced, known' = known, spent' = spent, phase' = phase, limit' = limit,
         NEW r \in Requests, r \notin pending, pending' = pending \union {r},
         charge' = charge, charge[r] = 0,
         \A s \in Requests : s # r => quote'[s] = quote[s],
         \A s \in Requests : Owed'[s] = Owed[s],
         known + Quoted(pending) + quote'[r] <= limit,
         phase = "triage" => known + Quoted(pending) + quote'[r] <= PriorCost + Allowance
  PROVE  Priced'
<1>1. Quoted(pending)' = Quoted(pending) + quote'[r]
  <2>1. Quoted(pending)' = Summed(quote', pending \union {r}) /\ Quoted(pending) = Summed(quote, pending)
    BY DEF Quoted, Summed, Entry
  <2>2. /\ quote \in [Requests -> Nat] /\ quote' \in [Requests -> Nat]
        /\ \A s \in Requests : s \in pending => quote'[s] = quote[s]
    BY DEF TypeOK
  <2>3. Summed(quote', pending \union {r}) = Summed(quote, pending) + quote'[r]
    BY <2>2, SummedAdd
  <2>4. QED
    BY <2>1, <2>3
<1>2. Settled' = Settled
  BY DEF Settled, TypeOK
<1>3. Owed' = Owed
  BY DEF Owed
<1>4. known \in Nat /\ limit \in Nat /\ Quoted(pending) \in Nat /\ quote'[r] \in Nat
  BY HooksAssumption, QuoteTypes DEF TypeOK
<1>5. QED
  BY <1>1, <1>2, <1>3, <1>4 DEF Priced

\* A hold is settled, at what was billed at least and at its quote at most; the memory
\* follows at once or owes it.
LEMMA PricedSettled ==
  ASSUME TypeOK, TypeOK', Priced, phase' = phase, limit' = limit, quote' = quote, charge' = charge,
         NEW r \in Requests, r \in pending, pending' = pending \ {r},
         NEW c \in Nat, known' = known + c, c <= quote[r], charge[r] <= c,
         \A s \in Requests : s # r => Owed'[s] = Owed[s],
         Owed[r] = 0, spent' + Owed'[r] <= spent + c
  PROVE  Priced'
<1>1. Quoted(pending) = Quoted(pending)' + quote[r] /\ Quoted(pending)' \in Nat
  <2>1. Quoted(pending)' = Summed(quote, pending \ {r}) /\ Quoted(pending) = Summed(quote, pending)
    BY DEF Quoted, Summed, Entry
  <2>2. quote \in [Requests -> Nat]
    BY DEF TypeOK
  <2>3. QED
    BY <2>1, <2>2, SummedRemove, SummedNat
<1>2. Owed \in [Requests -> Nat] /\ Settled \in [Requests -> Nat]
  BY ColumnTypes
<1>3. Owed' \in [Requests -> Nat] /\ Settled' \in [Requests -> Nat]
  BY DEF TypeOK, Owed, Settled
<1>4. Settled[r] = 0 /\ Settled'[r] = charge[r] /\ \A s \in Requests : s # r => Settled'[s] = Settled[s]
  BY DEF Settled
<1> HIDE DEF Owed, Settled
<1>5. /\ Total(MaxRequest, Owed') + Owed[r] = Total(MaxRequest, Owed) + Owed'[r]
      /\ Total(MaxRequest, Owed') \in Nat /\ Total(MaxRequest, Owed) \in Nat
  BY <1>2, <1>3, ColumnUpdate
<1>6. /\ Total(MaxRequest, Settled') + Settled[r] = Total(MaxRequest, Settled) + Settled'[r]
      /\ Total(MaxRequest, Settled') \in Nat /\ Total(MaxRequest, Settled) \in Nat
  BY <1>2, <1>3, <1>4, ColumnUpdate
<1>7. /\ known \in Nat /\ spent \in Nat /\ spent' \in Nat /\ limit \in Nat /\ quote[r] \in Nat /\ charge[r] \in Nat
      /\ PriorCost \in Nat /\ Allowance \in Nat /\ Owed'[r] \in Nat
  BY <1>3, HooksAssumption DEF TypeOK
<1>8. spent' + Total(MaxRequest, Owed') <= known'
  BY <1>5, <1>7 DEF Priced
<1>9. PriorCost + Total(MaxRequest, Settled') <= known'
  BY <1>4, <1>6, <1>7 DEF Priced
<1>10. /\ known' + Quoted(pending)' <= limit'
       /\ phase' = "triage" => known' + Quoted(pending)' <= PriorCost + Allowance
  BY <1>1, <1>7 DEF Priced
<1>11. QED
  BY <1>8, <1>9, <1>10 DEF Priced

\* What was owed arrives in the memory.
LEMMA PricedPaid ==
  ASSUME TypeOK, TypeOK', Priced, known' = known, phase' = phase, limit' = limit, quote' = quote,
         charge' = charge, pending' = pending, NEW r \in Requests,
         \A s \in Requests : s # r => Owed'[s] = Owed[s],
         Owed'[r] = 0, spent' <= spent + Owed[r]
  PROVE  Priced'
<1>1. Quoted(pending)' = Quoted(pending) /\ Settled' = Settled
  BY DEF Quoted, Settled
<1>2. Owed \in [Requests -> Nat]
  BY ColumnTypes
<1>3. Owed' \in [Requests -> Nat]
  BY DEF TypeOK, Owed
<1> HIDE DEF Owed
<1>4. /\ Total(MaxRequest, Owed') + Owed[r] = Total(MaxRequest, Owed) + Owed'[r]
      /\ Total(MaxRequest, Owed') \in Nat /\ Total(MaxRequest, Owed) \in Nat
  BY <1>2, <1>3, ColumnUpdate
<1>5. known \in Nat /\ spent \in Nat /\ spent' \in Nat /\ Owed[r] \in Nat
  BY <1>2 DEF TypeOK
<1>6. spent' + Total(MaxRequest, Owed') <= known'
  BY <1>4, <1>5 DEF Priced
<1>7. QED
  BY <1>1, <1>6 DEF Priced

\* A step that sends nothing and takes no slot keeps the searches within their cap.
LEMMA SearchingKept ==
  ASSUME TypeOK, TypeOK', Searching, posted' = posted,
         slots' \union entries' \subseteq slots \union entries,
         \A s \in Requests : s \in slots \union entries \union posted => quote'[s] = quote[s],
         \A s \in posted : kind'[s] = kind[s],
         healthy' => healthy /\ Sent \subseteq slots' \union entries',
         \A s \in Requests : kind'[s] = "search" /\ stage'[s] \in {"slot"} \union Live => s \in slots'
  PROVE  Searching'
<1>1. Sent' = Sent
  BY DEF Sent
<1>2. quote \in [Requests -> Nat] /\ quote' \in [Requests -> Nat]
  BY DEF TypeOK
<1>3. Quoted(Sent)' = Quoted(Sent)
  <2>1. Quoted(Sent)' = Summed(quote', Sent) /\ Quoted(Sent) = Summed(quote, Sent)
    BY <1>1 DEF Quoted, Summed, Entry
  <2>2. Summed(quote', Sent) = Summed(quote, Sent)
    BY <1>2, SummedAgree DEF Sent
  <2>3. QED
    BY <2>1, <2>2
<1>4. Quoted(slots \union entries)' <= SearchBudget
  <2>1. /\ Quoted(slots \union entries)' = Summed(quote', slots' \union entries')
        /\ Quoted(slots \union entries) = Summed(quote, slots \union entries)
    BY DEF Quoted, Summed, Entry
  <2>2. Summed(quote', slots' \union entries') = Summed(quote, slots' \union entries')
    BY <1>2, SummedAgree
  <2>3. Summed(quote, slots' \union entries') <= Summed(quote, slots \union entries)
    BY <1>2, SummedSubset
  <2>4. Summed(quote, slots' \union entries') \in Nat /\ Summed(quote, slots \union entries) \in Nat
    BY <1>2, SummedNat
  <2>5. QED
    BY <2>1, <2>2, <2>3, <2>4, HooksAssumption DEF Searching
<1>5. Cardinality(slots' \union entries') <= MaxCalls
  <2>1. IsFiniteSet(slots \union entries)
    <3>1. IsFiniteSet(Requests)
      BY HooksAssumption, FS_Interval DEF Requests
    <3>2. slots \union entries \in SUBSET Requests
      BY DEF TypeOK
    <3>3. QED
      BY <3>1, <3>2, FS_Subset
  <2>2. /\ Cardinality(slots' \union entries') <= Cardinality(slots \union entries)
        /\ IsFiniteSet(slots' \union entries')
    BY <2>1, FS_Subset
  <2>3. Cardinality(slots' \union entries') \in Nat /\ Cardinality(slots \union entries) \in Nat
    BY <2>1, <2>2, FS_CardinalityType
  <2>4. QED
    BY <2>2, <2>3, HooksAssumption DEF Searching
<1>6. QED
  BY <1>1, <1>3, <1>4, <1>5 DEF Searching

-----------------------------------------------------------------------------
(* Every step keeps the invariant. *)

LEMMA InitIInv == ASSUME Init PROVE IInv
<1> USE DEF Init
<1>1. TypeOK
  BY HooksAssumption DEF TypeOK
<1>2. Unentered /\ Entered /\ Matched /\ Booked
  BY DEF Unentered, Entered, Matched, Booked, Live
<1>3. \A S : Quoted(S) = 0
  <2>1. SUFFICES ASSUME NEW S PROVE Quoted(S) = 0
    OBVIOUS
  <2>2. Entry(quote, S) \in [1..MaxRequest -> Nat] /\ MaxRequest \in Nat
    BY <1>1, EntryType DEF TypeOK
  <2>3. \A i \in 1..MaxRequest : Entry(quote, S)[i] = 0
    BY DEF Entry, Requests
  <2>4. QED
    BY <2>2, <2>3, TotalZero DEF Quoted, Entry
<1>4. Total(MaxRequest, Owed) = 0 /\ Total(MaxRequest, Settled) = 0
  <2>1. \A r \in Requests : Owed[r] = 0 /\ Settled[r] = 0
    BY DEF Owed, Settled
  <2>2. Owed \in [Requests -> Nat] /\ Settled \in [Requests -> Nat] /\ Requests = 1..MaxRequest /\ MaxRequest \in Nat
    BY <1>1, ColumnTypes, HooksAssumption DEF Requests
  <2> HIDE DEF Owed, Settled
  <2>3. QED
    BY <2>1, <2>2, TotalZero
<1>5. limit \in Nat /\ PriorCost <= limit /\ PriorCost \in Nat /\ Allowance \in Nat
      /\ known = PriorCost /\ spent = PriorCost
  BY HooksAssumption
<1>6. Priced
  BY <1>3, <1>4, <1>5 DEF Priced
<1>7. Searching
  <2>1. Sent = {} /\ slots \union entries = {}
    BY DEF Sent
  <2>2. Cardinality({}) = 0
    BY FS_EmptySet
  <2>3. QED
    BY <1>3, <2>1, <2>2, HooksAssumption DEF Searching, Live
<1>8. QED
  BY <1>1, <1>2, <1>6, <1>7 DEF IInv

\* A turn is admitted, enters the books only, or does not fit; what it displaces stays
\* counted as a floor.
LEMMA StartLlmKeeps ==
  ASSUME IInv, NEW a \in Agents, NEW r \in Requests, NEW q \in Quotes, StartLlm(a, r, q)
  PROVE  IInv'
<1> USE DEF IInv, Unentered, Entered, Matched, Booked, Live
<1> DEFINE c == <<a, run[a]>>
           D == reserved \intersect {active[c]}
<1>1. /\ c \in Contexts /\ q \in Nat /\ stage[r] = "free" /\ phase = "scan"
      /\ r \notin reserved \union floors \union pending \union durable \union posted \union slots \union entries
      /\ charge[r] = 0 /\ floors' = floors \union D
      /\ UNCHANGED <<phase, limit, charge, posted, silent, spent, bound, run, slots, entries, known>>
  BY HooksAssumption DEF StartLlm, Fresh, Contexts, TypeOK, search, journal, Enter
<1>2. /\ D \subseteq reserved /\ r \notin D /\ (active[c] \in reserved => active[c] \in D)
      /\ \A x \in D : x \in Requests /\ x = active[c] /\ kind[x] = "llm"
  <2>1. \A x \in Requests : x # 0
    BY DEF Requests
  <2> HIDE DEF c
  <2>2. reserved \subseteq Requests
    BY DEF TypeOK
  <2>3. QED
    BY <1>1, <2>1, <2>2
<1>3. CASE Fits(q) /\ JournalAdmits(q) /\ durable' = durable \union {r}
           /\ stage' = [stage EXCEPT ![r] = "open"] /\ pending' = pending \union {r} /\ UNCHANGED healthy
  <2>1. /\ reserved' = (reserved \ D) \union {r} /\ healthy' = healthy
        /\ pending' = pending \union {r} /\ durable' = durable \union {r}
        /\ stage' = [stage EXCEPT ![r] = "open"] /\ kind' = [kind EXCEPT ![r] = "llm"]
        /\ quote' = [quote EXCEPT ![r] = q] /\ ctx' = [ctx EXCEPT ![r] = c]
        /\ active' = [active EXCEPT ![c] = r]
    <3>1. stage'[r] = "open"
      BY <1>3 DEF TypeOK
    <3>2. QED
      BY <1>3, <3>1 DEF StartLlm, Enter
  <2> HIDE DEF c, D
  <2>2. TypeOK'
    BY <1>1, <1>2, <2>1 DEF TypeOK, Requests
  <2>3. Unentered'
    BY <1>1, <1>2, <2>1 DEF TypeOK
  <2>4. Entered'
    BY <1>1, <1>2, <2>1 DEF TypeOK
  <2>5. Matched' /\ Booked'
    BY <1>1, <1>2, <2>1 DEF TypeOK
  <2>6. Priced'
    <3>1. \A s \in Requests : Owed'[s] = Owed[s]
      BY <1>1, <2>1 DEF TypeOK, Owed
    <3>2. quote'[r] = q /\ \A s \in Requests : s # r => quote'[s] = quote[s]
      BY <2>1 DEF TypeOK
    <3>3. known + Quoted(pending) + q <= limit
      BY <1>3 DEF JournalAdmits
    <3>4. QED
      BY <1>1, <2>1, <2>2, <3>1, <3>2, <3>3, PricedEntered
  <2>7. Searching'
    BY <1>1, <2>1, <2>2, SearchingKept DEF TypeOK, Searching
  <2>8. QED
    BY <2>2, <2>3, <2>4, <2>5, <2>6, <2>7
<1>4. CASE Fits(q) /\ JournalFailsHold(r, q) /\ stage' = [stage EXCEPT ![r] = "refused"] /\ UNCHANGED durable
  <2>1. /\ reserved' = (reserved \ D) \union {r} /\ UNCHANGED <<durable, active>>
        /\ stage' = [stage EXCEPT ![r] = "refused"] /\ kind' = [kind EXCEPT ![r] = "llm"]
        /\ quote' = [quote EXCEPT ![r] = q] /\ ctx' = [ctx EXCEPT ![r] = c]
    <3>1. stage'[r] # "open"
      BY <1>4 DEF TypeOK
    <3>2. QED
      BY <1>4, <3>1 DEF StartLlm, Enter
  <2>2. \/ UNCHANGED <<pending, healthy>>
        \/ JournalAdmits(q) /\ pending' = pending \union {r} /\ ~healthy'
    BY <1>4 DEF JournalFailsHold
  <2> HIDE DEF c, D
  <2>3. TypeOK'
    <3>1. healthy' \in BOOLEAN
      BY <1>4 DEF JournalFailsHold, TypeOK
    <3>2. QED
      BY <1>1, <1>2, <2>1, <2>2, <3>1 DEF TypeOK
  <2>4. Unentered' /\ Entered'
    BY <1>1, <1>2, <2>1, <2>2 DEF TypeOK
  <2>5. Matched' /\ Booked'
    BY <1>1, <1>2, <2>1, <2>2 DEF TypeOK
  <2>6. Priced'
    <3>1. \A s \in Requests : Owed'[s] = Owed[s]
      BY <1>1, <2>1 DEF TypeOK, Owed
    <3>2. (\A s \in Requests : s # r => quote'[s] = quote[s]) /\ quote'[r] = q /\ limit <= limit'
      BY <1>1, <2>1, HooksAssumption DEF TypeOK
    <3>3. CASE UNCHANGED pending
      BY <1>1, <2>1, <2>3, <3>1, <3>2, <3>3, PricedSame
    <3>4. CASE JournalAdmits(q) /\ pending' = pending \union {r}
      BY <1>1, <2>1, <2>3, <3>1, <3>2, <3>4, PricedEntered DEF JournalAdmits
    <3>5. QED
      BY <2>2, <3>3, <3>4
  <2>7. Searching'
    BY <1>1, <2>1, <2>2, <2>3, SearchingKept DEF TypeOK, Searching
  <2>8. QED
    BY <2>3, <2>4, <2>5, <2>6, <2>7
<1>5. CASE ~Fits(q)
  <2>1. /\ reserved' = reserved \ D
        /\ UNCHANGED <<stage, kind, quote, ctx, durable, pending, active, healthy>>
    BY <1>5 DEF StartLlm, request, journal
  <2> HIDE DEF c, D
  <2>2. TypeOK' /\ Unentered' /\ Entered' /\ Matched' /\ Booked'
    BY <1>1, <1>2, <2>1 DEF TypeOK
  <2>3. Priced'
    <3>1. \A s \in Requests : Owed'[s] = Owed[s]
      BY <1>1, <2>1 DEF TypeOK, Owed
    <3>2. (\A s \in Requests : s \in pending => quote'[s] = quote[s]) /\ limit <= limit'
      BY <1>1, <2>1, HooksAssumption DEF TypeOK
    <3>3. QED
      BY <1>1, <2>1, <2>2, <3>1, <3>2, PricedSame
  <2>4. Searching'
    BY <1>1, <2>1, <2>2, SearchingKept DEF Searching
  <2>5. QED
    BY <2>2, <2>3, <2>4
<1>6. QED
  BY <1>3, <1>4, <1>5 DEF StartLlm, Enter

LEMMA ReserveDirectKeeps ==
  ASSUME IInv, NEW r \in Requests, NEW q \in Quotes, ReserveDirect(r, q)
  PROVE  IInv'
<1> USE DEF IInv, Unentered, Entered, Matched, Booked, Live
<1>1. /\ q \in Nat /\ stage[r] = "free" /\ Fits(q) /\ FitsPhase(q)
      /\ r \notin reserved \union floors \union pending \union durable \union posted \union slots \union entries
      /\ charge[r] = 0 /\ reserved' = reserved \union {r}
      /\ kind' = [kind EXCEPT ![r] = "direct"] /\ quote' = [quote EXCEPT ![r] = q]
      /\ UNCHANGED <<phase, limit, charge, ctx, posted, silent, floors, spent, active, bound, run, slots, entries>>
      /\ known' = known
  BY HooksAssumption DEF ReserveDirect, Fresh, Enter, matching, search
<1>2. CASE JournalAdmits(q) /\ durable' = durable \union {r}
           /\ stage' = [stage EXCEPT ![r] = "open"] /\ pending' = pending \union {r} /\ UNCHANGED healthy
  <2>1. /\ pending' = pending \union {r} /\ durable' = durable \union {r}
        /\ stage' = [stage EXCEPT ![r] = "open"] /\ healthy' = healthy
    BY <1>2
  <2>2. TypeOK'
    BY <1>1, <2>1 DEF TypeOK
  <2>3. Unentered' /\ Entered'
    BY <1>1, <2>1 DEF TypeOK
  <2>4. Matched'
    BY <1>1, <2>1 DEF TypeOK
  <2>5. Booked'
    BY <1>1, <2>1 DEF TypeOK
  <2>6. Priced'
    <3>1. \A s \in Requests : Owed'[s] = Owed[s]
      BY <1>1, <2>1 DEF TypeOK, Owed
    <3>2. quote'[r] = q /\ \A s \in Requests : s # r => quote'[s] = quote[s]
      BY <1>1, <2>1 DEF TypeOK
    <3>3. known + Quoted(pending) + q <= limit
      BY <1>2 DEF JournalAdmits
    <3>4. phase = "triage" => known + Quoted(pending) + q <= PriorCost + Allowance
      BY <1>1, FitsTheAllowance
    <3>5. QED
      BY <1>1, <2>1, <2>2, <3>1, <3>2, <3>3, <3>4, PricedEntered
  <2>7. Searching'
    BY <1>1, <2>1, <2>2, SearchingKept DEF TypeOK, Searching
  <2>8. QED
    BY <2>2, <2>3, <2>4, <2>5, <2>6, <2>7
<1>3. CASE JournalFailsHold(r, q) /\ stage' = [stage EXCEPT ![r] = "refused"] /\ UNCHANGED durable
  <2>1. stage' = [stage EXCEPT ![r] = "refused"] /\ UNCHANGED durable
    BY <1>3
  <2>2. \/ UNCHANGED <<pending, healthy>>
        \/ JournalAdmits(q) /\ pending' = pending \union {r} /\ ~healthy'
    BY <1>3 DEF JournalFailsHold
  <2>3. TypeOK'
    <3>1. healthy' \in BOOLEAN
      BY <1>3 DEF JournalFailsHold, TypeOK
    <3>2. QED
      BY <1>1, <2>1, <2>2, <3>1 DEF TypeOK
  <2>4. Unentered' /\ Entered'
    BY <1>1, <2>1, <2>2 DEF TypeOK
  <2>5. Matched' /\ Booked'
    BY <1>1, <2>1, <2>2 DEF TypeOK
  <2>6. Priced'
    <3>1. \A s \in Requests : Owed'[s] = Owed[s]
      BY <1>1, <2>1 DEF TypeOK, Owed
    <3>2. (\A s \in Requests : s # r => quote'[s] = quote[s]) /\ quote'[r] = q /\ limit <= limit'
      BY <1>1, <2>1, HooksAssumption DEF TypeOK
    <3>3. CASE UNCHANGED pending
      BY <1>1, <2>1, <2>3, <3>1, <3>2, <3>3, PricedSame
    <3>4. CASE JournalAdmits(q) /\ pending' = pending \union {r}
      <4>1. phase = "triage" => known + Quoted(pending) + q <= PriorCost + Allowance
        BY <1>1, FitsTheAllowance
      <4>2. QED
        BY <1>1, <2>1, <2>3, <3>1, <3>2, <3>4, <4>1, PricedEntered DEF JournalAdmits
    <3>5. QED
      BY <2>2, <3>3, <3>4
  <2>7. Searching'
    BY <1>1, <2>1, <2>2, <2>3, SearchingKept DEF TypeOK, Searching
  <2>8. QED
    BY <2>3, <2>4, <2>5, <2>6, <2>7
<1>4. QED
  BY <1>2, <1>3 DEF ReserveDirect, Enter

\* A slot is taken while there is one, at a price the rest of the allotment covers.
LEMMA TakeSlotKeeps == ASSUME IInv, NEW r \in Requests, TakeSlot(r) PROVE IInv'
<1> USE DEF IInv, Unentered, Entered, Matched, Booked, Live
<1>1. /\ stage[r] = "free" /\ phase = "scan"
      /\ r \notin reserved \union floors \union pending \union durable \union posted \union slots \union entries
      /\ stage' = [stage EXCEPT ![r] = "slot"] /\ kind' = [kind EXCEPT ![r] = "search"]
      /\ quote' = [quote EXCEPT ![r] = SearchPrice] /\ slots' = slots \union {r} /\ charge[r] = 0
      /\ UNCHANGED <<phase, limit, charge, ctx, posted, silent, reserved, floors, durable, spent>>
      /\ UNCHANGED <<active, bound, run, pending, known, healthy, entries>> /\ SearchPrice \in Nat
  BY HooksAssumption DEF TakeSlot, Fresh, books, matching, journal
<1>2. TypeOK'
  BY <1>1 DEF TypeOK
<1>3. Unentered' /\ Entered'
  BY <1>1 DEF TypeOK
<1>4. Matched' /\ Booked'
  BY <1>1 DEF TypeOK
<1>5. Priced'
  <2>1. \A s \in Requests : Owed'[s] = Owed[s]
    BY <1>1 DEF TypeOK, Owed
  <2>2. (\A s \in Requests : s \in pending => quote'[s] = quote[s]) /\ limit <= limit'
    BY <1>1, HooksAssumption DEF TypeOK
  <2>3. QED
    BY <1>1, <1>2, <2>1, <2>2, PricedSame
<1>6. Searching'
  <2> DEFINE S == slots \union entries
  <2>1. quote \in [Requests -> Nat] /\ quote' \in [Requests -> Nat] /\ quote'[r] = SearchPrice
        /\ \A s \in Requests : s # r => quote'[s] = quote[s]
    BY <1>1, <1>2 DEF TypeOK
  <2>2. Sent' = Sent /\ r \notin Sent /\ r \notin S /\ slots' \union entries' = S \union {r}
    BY <1>1 DEF Sent, TypeOK
  <2>3. Quoted(Sent)' = Quoted(Sent)
    <3>1. Quoted(Sent)' = Summed(quote', Sent) /\ Quoted(Sent) = Summed(quote, Sent)
      BY <2>2 DEF Quoted, Summed, Entry
    <3>2. QED
      BY <2>1, <2>2, <3>1, SummedAgree
  <2>4. Quoted(slots \union entries)' <= SearchBudget
    <3>1. Quoted(slots \union entries)' = Summed(quote', S \union {r}) /\ Quoted(S) = Summed(quote, S)
      BY <2>2 DEF Quoted, Summed, Entry
    <3>2. Summed(quote', S \union {r}) = Summed(quote, S) + SearchPrice
      <4> HIDE DEF S
      <4>1. QED
        BY <2>1, <2>2, SummedAdd
    <3>3. QED
      BY <3>1, <3>2 DEF TakeSlot
  <2>5. IsFiniteSet(S)
    <3>1. IsFiniteSet(Requests)
      BY HooksAssumption, FS_Interval DEF Requests
    <3>2. S \in SUBSET Requests
      BY DEF TypeOK
    <3>3. QED
      BY <3>1, <3>2, FS_Subset
  <2>6. Cardinality(slots' \union entries') <= MaxCalls
    <3>1. Cardinality(S) \in Nat /\ Cardinality(S) < MaxCalls /\ MaxCalls \in Nat
      BY <2>5, FS_CardinalityType, HooksAssumption DEF TakeSlot
    <3>2. Cardinality(S \union {r}) = Cardinality(S) + 1
      BY <2>2, <2>5, FS_AddElement
    <3>3. Cardinality(slots' \union entries') = Cardinality(S \union {r})
      BY <2>2
    <3> HIDE DEF S
    <3>4. QED
      BY <3>1, <3>2, <3>3
  <2>7. QED
    BY <1>1, <2>2, <2>3, <2>4, <2>6 DEF Searching, TypeOK
<1>7. QED
  BY <1>2, <1>3, <1>4, <1>5, <1>6

\* A search is admitted, or its slot given back; the journal may then hold it all the same.
LEMMA ReserveSearchKeeps == ASSUME IInv, NEW r \in Requests, ReserveSearch(r) PROVE IInv'
<1> USE DEF IInv, Unentered, Entered, Matched, Booked, Live
<1>1. /\ stage[r] = "slot" /\ kind[r] = "search" /\ phase = "scan"
      /\ r \notin reserved \union floors \union pending \union durable \union posted
      /\ charge[r] = 0 /\ quote[r] \in Nat
      /\ UNCHANGED <<phase, limit, kind, quote, charge, ctx, posted, silent, floors, spent, active, bound, run>>
      /\ UNCHANGED <<entries, known>>
  BY DEF ReserveSearch, matching, TypeOK
<1>2. CASE /\ JournalAdmits(quote[r]) /\ UNCHANGED <<healthy, slots>>
           /\ stage' = [stage EXCEPT ![r] = "open"] /\ reserved' = reserved \union {r}
           /\ pending' = pending \union {r} /\ durable' = durable \union {r}
  <2>2. TypeOK'
    BY <1>1, <1>2 DEF TypeOK
  <2>3. Unentered' /\ Entered'
    BY <1>1, <1>2 DEF TypeOK
  <2>4. Matched' /\ Booked'
    BY <1>1, <1>2 DEF TypeOK
  <2>5. Priced'
    <3>1. \A s \in Requests : Owed'[s] = Owed[s]
      BY <1>1, <1>2 DEF TypeOK, Owed
    <3>2. known + Quoted(pending) + quote'[r] <= limit
      BY <1>1, <1>2 DEF JournalAdmits
    <3>3. QED
      BY <1>1, <1>2, <2>2, <3>1, <3>2, PricedEntered
  <2>6. Searching'
    BY <1>1, <1>2, <2>2, SearchingKept DEF TypeOK, Searching
  <2>7. QED
    BY <2>2, <2>3, <2>4, <2>5, <2>6
<1>3. CASE /\ stage' = [stage EXCEPT ![r] = "over"] /\ slots' = slots \ {r} /\ UNCHANGED <<reserved, durable>>
           /\ UNCHANGED <<pending, healthy>> \/ JournalFailsHold(r, quote[r])
  <2>1. \/ UNCHANGED <<pending, healthy>>
        \/ JournalAdmits(quote[r]) /\ pending' = pending \union {r} /\ ~healthy'
    BY <1>3 DEF JournalFailsHold
  <2>2. TypeOK'
    <3>1. healthy' \in BOOLEAN
      BY <1>3 DEF JournalFailsHold, TypeOK
    <3>2. QED
      BY <1>1, <1>3, <2>1, <3>1 DEF TypeOK
  <2>3. Unentered' /\ Entered'
    BY <1>1, <1>3, <2>1 DEF TypeOK
  <2>4. Matched' /\ Booked'
    BY <1>1, <1>3, <2>1 DEF TypeOK
  <2>5. Priced'
    <3>1. \A s \in Requests : Owed'[s] = Owed[s]
      BY <1>1, <1>3 DEF TypeOK, Owed
    <3>2. limit <= limit'
      BY <1>1, HooksAssumption DEF TypeOK
    <3>3. CASE UNCHANGED pending
      BY <1>1, <1>3, <2>2, <3>1, <3>2, <3>3, PricedSame
    <3>4. CASE JournalAdmits(quote[r]) /\ pending' = pending \union {r}
      <4>1. known + Quoted(pending) + quote'[r] <= limit
        BY <1>1, <3>4 DEF JournalAdmits
      <4>2. QED
        BY <1>1, <1>3, <2>2, <3>1, <3>4, <4>1, PricedEntered
    <3>5. QED
      BY <2>1, <3>3, <3>4
  <2>6. Searching'
    <3>1. r \notin Sent
      BY <1>1 DEF Sent
    <3>2. healthy' => healthy /\ Sent \subseteq slots' \union entries'
      <4>1. healthy' => healthy
        BY <2>1
      <4>2. healthy => Sent \subseteq slots' \union entries'
        BY <1>1, <1>3, <3>1 DEF Searching
      <4>3. QED
        BY <4>1, <4>2
    <3>3. \A s \in Requests : kind'[s] = "search" /\ stage'[s] \in {"slot"} \union Live => s \in slots'
      BY <1>1, <1>3 DEF Searching, TypeOK
    <3>4. QED
      BY <1>1, <1>3, <2>2, <3>2, <3>3, SearchingKept
  <2>7. QED
    BY <2>2, <2>3, <2>4, <2>5, <2>6
<1>4. QED
  BY <1>2, <1>3 DEF ReserveSearch

\* What is sent has its hold; a search that is sent has its slot.
LEMMA SendKeeps == ASSUME IInv, NEW r \in Requests, Send(r) PROVE IInv'
<1> USE DEF IInv, Unentered, Entered, Matched, Booked, Live
<1>1. /\ stage[r] = "open" /\ healthy /\ r \in pending /\ r \in durable /\ charge[r] = 0
      /\ stage' = [stage EXCEPT ![r] = "sent"] /\ posted' = posted \union {r}
      /\ UNCHANGED <<phase, limit, kind, quote, ctx, silent, reserved, floors, durable, spent>>
      /\ UNCHANGED <<active, bound, run, pending, known, healthy, slots, entries>>
  BY DEF Send, books, matching, journal, search
<1>2. PICK n \in 0..quote[r] : charge' = [charge EXCEPT ![r] = n]
  BY DEF Send
<1>3. n \in Nat /\ n <= quote[r]
  BY <1>2 DEF TypeOK
<1>4. TypeOK'
  BY <1>1, <1>2, <1>3 DEF TypeOK
<1>5. Unentered' /\ Entered'
  BY <1>1, <1>2, <1>3 DEF TypeOK
<1>6. Matched' /\ Booked'
  BY <1>1 DEF TypeOK
<1>7. Priced'
  <2>1. \A s \in Requests : Owed'[s] = Owed[s]
    BY <1>1, <1>2 DEF TypeOK, Owed
  <2>2. (\A s \in Requests : s \notin pending => charge'[s] = charge[s]) /\ limit <= limit'
    BY <1>1, <1>2, HooksAssumption DEF TypeOK
  <2>3. QED
    BY <1>1, <1>4, <2>1, <2>2, PricedSame
<1>8. Searching'
  <2>1. Sent' = IF kind[r] = "search" THEN Sent \union {r} ELSE Sent
    BY <1>1 DEF Sent
  <2>2. Sent' \subseteq slots \union entries
    BY <1>1, <2>1 DEF Searching
  <2>3. quote \in [Requests -> Nat]
    BY DEF TypeOK
  <2>4. Quoted(Sent)' <= SearchBudget
    <3>1. Quoted(Sent)' = Summed(quote, Sent') /\ Quoted(slots \union entries) = Summed(quote, slots \union entries)
      BY <1>1 DEF Quoted, Summed, Entry
    <3>2. Summed(quote, Sent') <= Summed(quote, slots \union entries)
      BY <2>2, <2>3, SummedSubset
    <3>3. Summed(quote, Sent') \in Nat /\ Summed(quote, slots \union entries) \in Nat
      BY <2>3, SummedNat
    <3>4. QED
      BY <3>1, <3>2, <3>3, HooksAssumption DEF Searching
  <2>5. Cardinality(Sent') <= MaxCalls
    <3>1. IsFiniteSet(Requests)
      BY HooksAssumption, FS_Interval DEF Requests
    <3>2. slots \union entries \in SUBSET Requests
      BY DEF TypeOK
    <3>3. IsFiniteSet(slots \union entries)
      BY <3>1, <3>2, FS_Subset
    <3>4. Cardinality(Sent') <= Cardinality(slots \union entries) /\ IsFiniteSet(Sent')
      BY <2>2, <3>3, FS_Subset
    <3>5. Cardinality(Sent') \in Nat /\ Cardinality(slots \union entries) \in Nat
      BY <3>3, <3>4, FS_CardinalityType
    <3>6. QED
      BY <3>4, <3>5, HooksAssumption DEF Searching
  <2>6. Quoted(slots \union entries)' = Quoted(slots \union entries)
    BY <1>1 DEF Quoted
  <2>7. \A s \in Requests : kind'[s] = "search" /\ stage'[s] \in {"slot"} \union Live => s \in slots'
    BY <1>1 DEF Searching, TypeOK
  <2>8. QED
    BY <1>1, <2>2, <2>4, <2>5, <2>6, <2>7 DEF Searching
<1>9. QED
  BY <1>4, <1>5, <1>6, <1>7, <1>8

LEMMA AnswerKeeps == ASSUME IInv, NEW r \in Requests, Answer(r) PROVE IInv'
<1> USE DEF IInv, Unentered, Entered, Matched, Booked, Live
<1>1. /\ stage[r] = "sent" /\ stage' = [stage EXCEPT ![r] = "answered"]
      /\ silent' \subseteq silent \union {r} /\ bound' \subseteq bound \union {r}
      /\ UNCHANGED <<phase, limit, kind, quote, ctx, charge, posted, reserved, floors, durable, spent>>
      /\ UNCHANGED <<active, run, pending, known, healthy, slots, entries>>
  BY DEF Answer, books, journal, search
<1>2. TypeOK'
  BY <1>1 DEF TypeOK
<1>3. Unentered' /\ Entered'
  BY <1>1 DEF TypeOK
<1>4. Matched' /\ Booked'
  BY <1>1 DEF TypeOK
<1>5. Priced'
  <2>1. \A s \in Requests : Owed'[s] = Owed[s]
    BY <1>1 DEF TypeOK, Owed
  <2>2. limit <= limit'
    BY <1>1, HooksAssumption DEF TypeOK
  <2>3. QED
    BY <1>1, <1>2, <2>1, <2>2, PricedSame
<1>6. Searching'
  BY <1>1, <1>2, SearchingKept DEF TypeOK, Searching
<1>7. QED
  BY <1>2, <1>3, <1>4, <1>5, <1>6

\* An answer ends its own attempt: settled, kept as a floor, or left as it is.
LEMMA EndLlmKeeps == ASSUME IInv, NEW r \in Requests, EndLlm(r) PROVE IInv'
<1> USE DEF IInv, Unentered, Entered, Matched, Booked, Live
<1> DEFINE k == AttemptOf(r)
<1>1. /\ stage[r] = "answered" /\ kind[r] = "llm" /\ stage' = [stage EXCEPT ![r] = "over"]
      /\ r \in pending /\ r \in durable /\ ctx[r] \in Contexts /\ 0 \notin Requests
      /\ UNCHANGED <<phase, limit, kind, quote, ctx, charge, posted, run, slots, entries>>
      /\ silent' = silent \ {r} /\ bound' = bound \ {r}
  BY DEF EndLlm, search, Requests
<1>2. k \in {0, r}
  BY <1>1, EndsItself
<1>3. CASE Reported(r, k)
  <2>1. k = r
    BY <1>1, <1>2, <1>3 DEF Reported, TypeOK
  <2>2. /\ known' = known + charge[r] /\ pending' = pending \ {r} /\ healthy' = healthy
        /\ durable' = durable \ {r} /\ reserved' = reserved \ {r} /\ floors' = floors \ {r}
        /\ spent' = spent + charge[r]
        /\ active' = [active EXCEPT ![ctx[r]] = IF @ = r THEN 0 ELSE @]
    BY <1>3, <2>1 DEF Reported, Settle
  <2>3. charge[r] \in Nat /\ quote[r] \in Nat /\ charge[r] <= quote[r]
    BY DEF TypeOK
  <2>4. TypeOK'
    <3>1. active[ctx[r]] \in 0..MaxRequest /\ 0 \in 0..MaxRequest
      BY <1>1, HooksAssumption DEF TypeOK
    <3>2. active' \in [Contexts -> 0..MaxRequest]
      BY <1>1, <2>2, <3>1 DEF TypeOK
    <3>3. QED
      BY <1>1, <2>2, <2>3, <3>2 DEF TypeOK
  <2>5. Unentered'
    BY <1>1, <2>2 DEF TypeOK
  <2>6. Entered'
    BY <1>1, <2>2 DEF TypeOK
  <2>7. Matched'
    BY <1>1, <2>2 DEF TypeOK
  <2>8. Booked'
    BY <1>1, <2>2 DEF TypeOK
  <2>9. Priced'
    <3>1. (\A s \in Requests : Owed'[s] = Owed[s]) /\ Owed[r] = 0 /\ Owed'[r] = 0
      BY <1>1 DEF TypeOK, Owed
    <3>2. charge[r] <= charge[r] /\ spent' + Owed'[r] <= spent + charge[r]
      BY <2>2, <2>3, <2>4, <3>1 DEF TypeOK
    <3>3. QED
      BY <1>1, <2>2, <2>3, <2>4, <3>1, <3>2, PricedSettled
  <2>10. Searching'
    <3>1. \A s \in Requests : kind'[s] = "search" /\ stage'[s] \in {"slot"} \union Live => s \in slots'
      BY <1>1 DEF Searching, TypeOK
    <3>2. healthy' => healthy /\ Sent \subseteq slots' \union entries'
      BY <1>1, <2>2 DEF Searching
    <3>3. QED
      BY <1>1, <2>4, <3>1, <3>2, SearchingKept
  <2>11. QED
    BY <2>4, <2>5, <2>6, <2>7, <2>8, <2>9, <2>10
<1>4. CASE Unreported(r, k) \/ UNCHANGED <<books, journal, active>>
  <2>1. /\ UNCHANGED <<durable, spent, pending, known, healthy>>
        /\ \/ UNCHANGED <<reserved, floors, active>>
           \/ /\ r \in reserved /\ reserved' = reserved \ {r} /\ quote[r] > 0
              /\ floors' = floors \union {r} /\ active' = active
           \/ /\ r \in reserved /\ reserved' = reserved \ {r} /\ quote[r] = 0 /\ floors' = floors
              /\ active' = [active EXCEPT ![ctx[r]] = 0]
    <3>1. CASE UNCHANGED <<books, journal, active>>
      BY <3>1 DEF books, journal
    <3>2. CASE Unreported(r, k) /\ (k = 0 \/ r \notin reserved)
      <4>1. k \notin reserved
        BY <1>1, <1>2, <3>2 DEF TypeOK
      <4> HIDE DEF k
      <4>2. /\ reserved' = reserved /\ active' = active /\ UNCHANGED <<durable, spent, journal>>
            /\ floors' = floors \union {x \in reserved : x = k /\ quote[x] > 0}
        BY <3>2, <4>1 DEF Unreported
      <4>3. {x \in reserved : x = k /\ quote[x] > 0} = {}
        BY <4>1
      <4>4. QED
        BY <4>2, <4>3 DEF journal
    <3>3. CASE Unreported(r, k) /\ k = r /\ r \in reserved
      <4>1. /\ reserved' = reserved \ {r} /\ UNCHANGED <<durable, spent, journal>>
            /\ floors' = floors \union {x \in reserved : x = r /\ quote[x] > 0}
            /\ active' = IF quote[r] = 0 /\ active[ctx[r]] = r THEN [active EXCEPT ![ctx[r]] = 0] ELSE active
        BY <3>3 DEF Unreported
      <4>2. active[ctx[r]] = r
        BY <1>1, <3>3
      <4>3. quote[r] = 0 \/ quote[r] > 0
        BY DEF TypeOK
      <4>4. {x \in reserved : x = r /\ quote[x] > 0} = IF quote[r] > 0 THEN {r} ELSE {}
        BY <3>3
      <4>5. QED
        BY <3>3, <4>1, <4>2, <4>3, <4>4 DEF journal
    <3>4. QED
      BY <1>2, <1>4, <3>1, <3>2, <3>3
  <2> HIDE DEF k
  <2>2. quote[r] = 0 => ~(quote[r] > 0)
    OBVIOUS
  <2>3. TypeOK'
    <3>1. 0 \in 0..MaxRequest
      BY HooksAssumption
    <3>2. active' \in [Contexts -> 0..MaxRequest]
      BY <1>1, <2>1, <3>1 DEF TypeOK
    <3>3. QED
      BY <1>1, <2>1, <3>2 DEF TypeOK
  <2>4. Unentered'
    BY <1>1, <2>1 DEF TypeOK
  <2>5. Entered'
    BY <1>1, <2>1 DEF TypeOK
  <2>6. Matched'
    <3>1. \A c \in Contexts : active'[c] \in {0, active[c]}
      BY <1>1, <2>1 DEF TypeOK
    <3>2. \A s \in Requests : stage[s] # "free" => stage'[s] # "free"
      BY <1>1 DEF TypeOK
    <3>3. \A c \in Contexts : active[c] # 0 => active[c] \in Requests
      BY HooksAssumption DEF TypeOK, Requests
    <3>4. QED
      BY <1>1, <3>1, <3>2, <3>3
  <2>7. Booked'
    BY <1>1, <2>1, <2>2 DEF TypeOK
  <2>8. Priced'
    <3>1. \A s \in Requests : Owed'[s] = Owed[s]
      BY <1>1 DEF TypeOK, Owed
    <3>2. limit <= limit'
      BY <1>1, HooksAssumption DEF TypeOK
    <3>3. QED
      BY <1>1, <2>1, <2>3, <3>1, <3>2, PricedSame
  <2>9. Searching'
    BY <1>1, <2>1, <2>3, SearchingKept DEF TypeOK, Searching
  <2>10. QED
    BY <2>3, <2>4, <2>5, <2>6, <2>7, <2>8, <2>9
<1>5. CASE /\ UNCHANGED <<books, active>> /\ ~healthy' /\ healthy' \in BOOLEAN
           /\ known' = known + charge[r] /\ pending' = pending \ {r}
  <2> HIDE DEF k
  <2>1. UNCHANGED <<reserved, floors, durable, spent, active>> /\ ~healthy' /\ healthy' \in BOOLEAN
    BY <1>5 DEF books
  <2>2. charge[r] \in Nat /\ quote[r] \in Nat /\ charge[r] <= quote[r]
    BY DEF TypeOK
  <2>3. TypeOK'
    BY <1>1, <1>5, <2>1, <2>2 DEF TypeOK
  <2>4. Unentered' /\ Entered'
    BY <1>1, <1>5, <2>1 DEF TypeOK
  <2>5. Matched' /\ Booked'
    BY <1>1, <1>5, <2>1 DEF TypeOK
  <2>6. Priced'
    <3>1. (\A s \in Requests : Owed'[s] = Owed[s]) /\ Owed[r] = 0 /\ Owed'[r] = 0
      BY <1>1 DEF TypeOK, Owed
    <3>2. charge[r] <= charge[r] /\ spent' + Owed'[r] <= spent + charge[r]
      BY <2>1, <2>2, <3>1 DEF TypeOK
    <3>3. QED
      BY <1>1, <1>5, <2>1, <2>2, <2>3, <3>1, <3>2, PricedSettled
  <2>7. Searching'
    BY <1>1, <1>5, <2>1, <2>3, SearchingKept DEF TypeOK, Searching
  <2>8. QED
    BY <2>3, <2>4, <2>5, <2>6, <2>7
<1>6. QED
  <2>1. k \in durable => k = r
    BY <1>1, <1>2 DEF TypeOK
  <2>2. k \in durable /\ SettleFails(k, charge[r]) =>
          \/ UNCHANGED journal
          \/ ~healthy' /\ healthy' \in BOOLEAN /\ known' = known + charge[r] /\ pending' = pending \ {r}
    BY <2>1 DEF SettleFails
  <2> HIDE DEF k
  <2>3. Reported(r, k) \/ Unreported(r, k) \/ UNCHANGED <<books, journal, active>>
        \/ (UNCHANGED <<books, active>> /\ k \in durable /\ SettleFails(k, charge[r]))
    BY DEF EndLlm, k
  <2>4. QED
    BY <1>3, <1>4, <1>5, <2>2, <2>3

LEMMA RecordKeeps == ASSUME IInv, NEW r \in Requests, Record(r) PROVE IInv'
<1> USE DEF IInv, Unentered, Entered, Matched, Booked, Live
<1>1. /\ stage[r] = "answered" /\ kind[r] = "direct" /\ r \in pending /\ r \in durable /\ r \in reserved
      /\ UNCHANGED <<phase, limit, kind, quote, ctx, charge, posted, silent, reserved, floors, spent>>
      /\ UNCHANGED <<active, bound, run, slots, entries>>
  BY DEF Record, matching, search
<1>2. CASE healthy /\ Settle(r, charge[r]) /\ durable' = durable \ {r} /\ stage' = [stage EXCEPT ![r] = "recorded"]
  <2>1. /\ known' = known + charge[r] /\ pending' = pending \ {r} /\ UNCHANGED healthy
        /\ durable' = durable \ {r} /\ stage' = [stage EXCEPT ![r] = "recorded"]
    BY <1>2 DEF Settle
  <2>2. charge[r] \in Nat /\ quote[r] \in Nat /\ charge[r] <= quote[r]
    BY DEF TypeOK
  <2>3. TypeOK'
    BY <1>1, <2>1, <2>2 DEF TypeOK
  <2>4. Unentered' /\ Entered'
    BY <1>1, <2>1 DEF TypeOK
  <2>5. Matched' /\ Booked'
    BY <1>1, <2>1 DEF TypeOK
  <2>6. Priced'
    <3>1. (\A s \in Requests : s # r => Owed'[s] = Owed[s]) /\ Owed[r] = 0 /\ Owed'[r] = charge[r]
      BY <1>1, <2>1 DEF TypeOK, Owed
    <3>2. charge[r] <= charge[r] /\ spent' + Owed'[r] <= spent + charge[r]
      BY <1>1, <2>2, <3>1 DEF TypeOK
    <3>3. QED
      BY <1>1, <2>1, <2>2, <2>3, <3>1, <3>2, PricedSettled
  <2>7. Searching'
    BY <1>1, <2>1, <2>3, SearchingKept DEF TypeOK, Searching
  <2>8. QED
    BY <2>3, <2>4, <2>5, <2>6, <2>7
<1>3. CASE SettleFails(r, charge[r]) /\ stage' = [stage EXCEPT ![r] = "over"] /\ UNCHANGED durable
  <2>1. /\ ~healthy' /\ healthy' \in BOOLEAN /\ stage' = [stage EXCEPT ![r] = "over"] /\ durable' = durable
        /\ \/ pending' = pending /\ known' = known
           \/ pending' = pending \ {r} /\ known' = known + charge[r]
    <3>1. CASE ~healthy /\ UNCHANGED journal
      BY <1>3, <3>1 DEF journal, TypeOK
    <3>2. CASE healthy' = FALSE /\ pending' = pending \ {r} /\ known' = known + charge[r]
      BY <1>3, <3>2
    <3>3. QED
      BY <1>3, <3>1, <3>2 DEF SettleFails
  <2>2. charge[r] \in Nat /\ quote[r] \in Nat /\ charge[r] <= quote[r] /\ limit <= limit'
    BY <1>1, HooksAssumption DEF TypeOK
  <2>3. TypeOK'
    BY <1>1, <2>1, <2>2 DEF TypeOK
  <2>4. Unentered' /\ Entered'
    BY <1>1, <2>1 DEF TypeOK
  <2>5. Matched' /\ Booked'
    BY <1>1, <2>1 DEF TypeOK
  <2>6. Priced'
    <3>1. (\A s \in Requests : Owed'[s] = Owed[s]) /\ Owed[r] = 0 /\ Owed'[r] = 0
      BY <1>1, <2>1 DEF TypeOK, Owed
    <3>2. CASE pending' = pending /\ known' = known
      BY <1>1, <2>1, <2>2, <2>3, <3>1, <3>2, PricedSame
    <3>3. CASE pending' = pending \ {r} /\ known' = known + charge[r]
      <4>1. charge[r] <= charge[r] /\ spent' + Owed'[r] <= spent + charge[r]
        BY <1>1, <2>2, <3>1 DEF TypeOK
      <4>2. QED
        BY <1>1, <2>2, <2>3, <3>1, <3>3, <4>1, PricedSettled
    <3>4. QED
      BY <2>1, <3>2, <3>3
  <2>7. Searching'
    BY <1>1, <2>1, <2>3, SearchingKept DEF TypeOK, Searching
  <2>8. QED
    BY <2>3, <2>4, <2>5, <2>6, <2>7
<1>4. QED
  BY <1>2, <1>3 DEF Record

\* The end of a call outside an agent's run: what was recorded is taken over, what was
\* not stays a floor.
LEMMA ReleaseDirectKeeps == ASSUME IInv, NEW r \in Requests, ReleaseDirect(r) PROVE IInv'
<1> USE DEF IInv, Unentered, Entered, Matched, Booked, Live
<1>1. /\ stage[r] \in {"open", "sent", "answered", "recorded"} /\ kind[r] = "direct" /\ r \in reserved
      /\ stage' = [stage EXCEPT ![r] = "over"] /\ silent' = silent \ {r} /\ r \notin floors
      /\ UNCHANGED <<phase, limit, kind, quote, ctx, charge, posted, active, bound, run, slots, entries>>
      /\ charge[r] \in Nat /\ quote[r] \in Nat /\ charge[r] <= quote[r] /\ limit <= limit'
  BY HooksAssumption DEF ReleaseDirect, matching, search, TypeOK
<1>2. CASE stage[r] = "recorded"
  <2>1. /\ reserved' = reserved \ {r} /\ spent' = spent + charge[r]
        /\ UNCHANGED <<floors, durable, pending, known, healthy>> /\ r \notin pending
    BY <1>2 DEF ReleaseDirect, journal
  <2>2. TypeOK'
    BY <1>1, <2>1 DEF TypeOK
  <2>3. Unentered' /\ Entered'
    BY <1>1, <2>1 DEF TypeOK
  <2>4. Matched' /\ Booked'
    BY <1>1, <2>1 DEF TypeOK
  <2>5. Priced'
    <3>1. (\A s \in Requests : s # r => Owed'[s] = Owed[s]) /\ Owed[r] = charge[r] /\ Owed'[r] = 0
      BY <1>1, <1>2 DEF TypeOK, Owed
    <3>2. spent' <= spent + Owed[r]
      BY <1>1, <2>1, <2>2, <3>1 DEF TypeOK
    <3>3. QED
      BY <1>1, <2>1, <2>2, <3>1, <3>2, PricedPaid
  <2>6. Searching'
    BY <1>1, <2>1, <2>2, SearchingKept DEF TypeOK, Searching
  <2>7. QED
    BY <2>2, <2>3, <2>4, <2>5, <2>6
<1>3. CASE stage[r] # "recorded" /\ healthy /\ Settle(r, 0) /\ durable' = durable \ {r} /\ quote[r] = 0
           /\ reserved' = reserved \ {r} /\ UNCHANGED <<floors, spent>>
  <2>1. known' = known + 0 /\ pending' = pending \ {r} /\ UNCHANGED healthy
    BY <1>3 DEF Settle
  <2>2. TypeOK'
    BY <1>1, <1>3, <2>1 DEF TypeOK
  <2>3. Unentered' /\ Entered'
    BY <1>1, <1>3, <2>1 DEF TypeOK
  <2>4. Matched' /\ Booked'
    BY <1>1, <1>3, <2>1 DEF TypeOK
  <2>5. Priced'
    <3>1. (\A s \in Requests : Owed'[s] = Owed[s]) /\ Owed[r] = 0 /\ Owed'[r] = 0
      BY <1>1, <1>3 DEF TypeOK, Owed
    <3>2. r \in pending /\ spent' + Owed'[r] <= spent + 0
      BY <1>1, <1>3, <3>1 DEF TypeOK
    <3>3. charge[r] <= 0 /\ 0 <= quote[r] /\ 0 \in Nat
      BY <1>1, <1>3
    <3>4. QED
      BY <1>1, <1>3, <2>1, <2>2, <3>1, <3>2, <3>3, PricedSettled
  <2>6. Searching'
    BY <1>1, <1>3, <2>1, <2>2, SearchingKept DEF TypeOK, Searching
  <2>7. QED
    BY <2>2, <2>3, <2>4, <2>5, <2>6
<1>4. CASE /\ stage[r] # "recorded" /\ UNCHANGED <<spent, durable, journal>>
           /\ reserved' = reserved \ {r} /\ floors' = floors \union {r}
  <2>1. UNCHANGED <<pending, known, healthy>>
    BY <1>4 DEF journal
  <2>2. TypeOK'
    BY <1>1, <1>4, <2>1 DEF TypeOK
  <2>3. Unentered' /\ Entered'
    BY <1>1, <1>4, <2>1 DEF TypeOK
  <2>4. Matched' /\ Booked'
    BY <1>1, <1>4, <2>1 DEF TypeOK
  <2>5. Priced'
    <3>1. \A s \in Requests : Owed'[s] = Owed[s]
      BY <1>1, <1>4 DEF TypeOK, Owed
    <3>2. QED
      BY <1>1, <1>4, <2>1, <2>2, <3>1, PricedSame
  <2>6. Searching'
    BY <1>1, <1>4, <2>1, <2>2, SearchingKept DEF TypeOK, Searching
  <2>7. QED
    BY <2>2, <2>3, <2>4, <2>5, <2>6
<1>5. CASE stage[r] # "recorded" /\ quote[r] = 0 /\ BareSettleFails(r) /\ UNCHANGED books
  <2>1. /\ UNCHANGED <<reserved, floors, durable, spent>> /\ known' = known
        /\ \/ pending' = pending /\ healthy' = healthy
           \/ pending' = pending \ {r} /\ healthy' = FALSE
    BY <1>5 DEF BareSettleFails, SettleFails, books, journal, TypeOK
  <2>2. TypeOK'
    BY <1>1, <2>1 DEF TypeOK
  <2>3. Unentered' /\ Entered'
    BY <1>1, <1>5, <2>1 DEF TypeOK
  <2>4. Matched' /\ Booked'
    BY <1>1, <1>5, <2>1 DEF TypeOK
  <2>5. Priced'
    <3>1. (\A s \in Requests : Owed'[s] = Owed[s]) /\ Owed[r] = 0 /\ Owed'[r] = 0
      BY <1>1, <1>5 DEF TypeOK, Owed
    <3>2. CASE pending' = pending
      BY <1>1, <2>1, <2>2, <3>1, <3>2, PricedSame
    <3>3. CASE pending' = pending \ {r}
      <4>1. /\ charge[r] <= 0 /\ 0 <= quote[r] /\ 0 \in Nat /\ r \in pending /\ known' = known + 0
            /\ spent' + Owed'[r] <= spent + 0
        BY <1>1, <1>5, <2>1, <3>1 DEF TypeOK
      <4>2. QED
        BY <1>1, <2>1, <2>2, <3>1, <3>3, <4>1, PricedSettled
    <3>4. QED
      BY <2>1, <3>2, <3>3
  <2>6. Searching'
    BY <1>1, <1>5, <2>1, <2>2, SearchingKept DEF TypeOK, Searching
  <2>7. QED
    BY <2>2, <2>3, <2>4, <2>5, <2>6
<1>6. QED
  BY <1>2, <1>3, <1>4, <1>5 DEF ReleaseDirect

\* A search that was answered becomes an entry, unless the journal fails it.
LEMMA CommitSearchKeeps == ASSUME IInv, NEW r \in Requests, CommitSearch(r) PROVE IInv'
<1> USE DEF IInv, Unentered, Entered, Matched, Booked, Live
<1>1. /\ stage[r] = "answered" /\ kind[r] = "search" /\ r \in pending /\ r \in durable /\ r \in reserved
      /\ slots' = slots \ {r}
      /\ UNCHANGED <<phase, limit, kind, quote, ctx, charge, posted, silent, reserved, floors, durable, spent>>
      /\ UNCHANGED <<active, bound, run>>
  BY DEF CommitSearch, books, matching
<1>2. CASE /\ healthy /\ Settle(r, quote[r]) /\ entries' = entries \union {r}
           /\ stage' = [stage EXCEPT ![r] = "recorded"]
  <2>1. known' = known + quote[r] /\ pending' = pending \ {r} /\ UNCHANGED healthy
    BY <1>2 DEF Settle
  <2>2. charge[r] \in Nat /\ quote[r] \in Nat /\ charge[r] <= quote[r]
    BY DEF TypeOK
  <2>3. TypeOK'
    BY <1>1, <1>2, <2>1, <2>2 DEF TypeOK
  <2>4. Unentered' /\ Entered'
    BY <1>1, <1>2, <2>1 DEF TypeOK
  <2>5. Matched' /\ Booked'
    BY <1>1, <1>2, <2>1 DEF TypeOK
  <2>6. Priced'
    <3>1. (\A s \in Requests : s # r => Owed'[s] = Owed[s]) /\ Owed[r] = 0 /\ Owed'[r] = quote[r]
      BY <1>1, <1>2 DEF TypeOK, Owed
    <3>2. quote[r] <= quote[r] /\ spent' + Owed'[r] <= spent + quote[r]
      BY <1>1, <2>2, <3>1 DEF TypeOK
    <3>3. QED
      BY <1>1, <1>2, <2>1, <2>2, <2>3, <3>1, <3>2, PricedSettled
  <2>7. Searching'
    <3>1. slots' \union entries' = slots \union entries
      BY <1>1, <1>2 DEF Searching
    <3>2. \A s \in Requests : kind'[s] = "search" /\ stage'[s] \in {"slot"} \union Live => s \in slots'
      BY <1>1, <1>2 DEF Searching, TypeOK
    <3>3. healthy' => healthy /\ Sent \subseteq slots' \union entries'
      BY <1>1, <2>1, <3>1 DEF Searching
    <3>4. QED
      BY <1>1, <1>2, <2>3, <3>1, <3>2, <3>3, SearchingKept
  <2>8. QED
    BY <2>3, <2>4, <2>5, <2>6, <2>7
<1>3. CASE SettleFails(r, quote[r]) /\ stage' = [stage EXCEPT ![r] = "failed"] /\ UNCHANGED entries
  <2>1. /\ ~healthy' /\ healthy' \in BOOLEAN
        /\ \/ pending' = pending /\ known' = known
           \/ pending' = pending \ {r} /\ known' = known + quote[r]
    <3>1. CASE ~healthy /\ UNCHANGED journal
      BY <1>3, <3>1 DEF journal, TypeOK
    <3>2. CASE healthy' = FALSE /\ pending' = pending \ {r} /\ known' = known + quote[r]
      BY <1>3, <3>2
    <3>3. QED
      BY <1>3, <3>1, <3>2 DEF SettleFails
  <2>2. charge[r] \in Nat /\ quote[r] \in Nat /\ charge[r] <= quote[r] /\ limit <= limit'
    BY <1>1, HooksAssumption DEF TypeOK
  <2>3. TypeOK'
    <3>1. stage' = [stage EXCEPT ![r] = "failed"] /\ entries' = entries
      BY <1>3
    <3>2. QED
      BY <1>1, <2>1, <2>2, <3>1 DEF TypeOK
  <2>4. Unentered' /\ Entered'
    BY <1>1, <1>3, <2>1 DEF TypeOK
  <2>5. Matched' /\ Booked'
    BY <1>1, <1>3, <2>1 DEF TypeOK
  <2>6. Priced'
    <3>1. (\A s \in Requests : Owed'[s] = Owed[s]) /\ Owed[r] = 0 /\ Owed'[r] = 0
      BY <1>1, <1>3 DEF TypeOK, Owed
    <3>2. CASE pending' = pending /\ known' = known
      BY <1>1, <1>3, <2>2, <2>3, <3>1, <3>2, PricedSame
    <3>3. CASE pending' = pending \ {r} /\ known' = known + quote[r]
      <4>1. quote[r] <= quote[r] /\ spent' + Owed'[r] <= spent + quote[r]
        BY <1>1, <2>2, <3>1 DEF TypeOK
      <4>2. QED
        BY <1>1, <2>2, <2>3, <3>1, <3>3, <4>1, PricedSettled
    <3>4. QED
      BY <2>1, <3>2, <3>3
  <2>7. Searching'
    BY <1>1, <1>3, <2>1, <2>3, SearchingKept DEF TypeOK, Searching
  <2>8. QED
    BY <2>3, <2>4, <2>5, <2>6, <2>7
<1>4. QED
  BY <1>2, <1>3 DEF CommitSearch

LEMMA ReleaseSearchKeeps == ASSUME IInv, NEW r \in Requests, ReleaseSearch(r) PROVE IInv'
<1> USE DEF IInv, Unentered, Entered, Matched, Booked, Live
<1>1. /\ stage[r] \in {"open", "sent", "answered", "recorded", "failed"} /\ kind[r] = "search" /\ r \in reserved
      /\ stage' = [stage EXCEPT ![r] = "over"] /\ reserved' = reserved \ {r} /\ r \notin floors
      /\ UNCHANGED <<phase, limit, kind, quote, ctx, charge, posted, silent, active, bound, run, entries>>
      /\ charge[r] \in Nat /\ quote[r] \in Nat /\ charge[r] <= quote[r] /\ limit <= limit'
  BY HooksAssumption DEF ReleaseSearch, matching, TypeOK
<1>2. CASE /\ stage[r] = "recorded" /\ spent' = spent + quote[r] /\ durable' = durable \ {r}
           /\ UNCHANGED <<floors, journal, slots>>
  <2>1. /\ spent' = spent + quote[r] /\ durable' = durable \ {r} /\ r \notin pending /\ slots' = slots
        /\ UNCHANGED <<floors, pending, known, healthy>>
    BY <1>2 DEF journal
  <2>2. TypeOK'
    BY <1>1, <2>1 DEF TypeOK
  <2>3. Unentered' /\ Entered'
    BY <1>1, <2>1 DEF TypeOK
  <2>4. Matched' /\ Booked'
    BY <1>1, <2>1 DEF TypeOK
  <2>5. Priced'
    <3>1. (\A s \in Requests : s # r => Owed'[s] = Owed[s]) /\ Owed[r] = quote[r] /\ Owed'[r] = 0
      BY <1>1, <1>2 DEF TypeOK, Owed
    <3>2. spent' <= spent + Owed[r]
      BY <1>1, <2>1, <2>2, <3>1 DEF TypeOK
    <3>3. QED
      BY <1>1, <2>1, <2>2, <3>1, <3>2, PricedPaid
  <2>6. Searching'
    BY <1>1, <2>1, <2>2, SearchingKept DEF TypeOK, Searching
  <2>7. QED
    BY <2>2, <2>3, <2>4, <2>5, <2>6
<1>3. CASE /\ stage[r] = "open" /\ healthy /\ Settle(r, 0) /\ durable' = durable \ {r}
           /\ slots' = SlotsAfter(r) /\ UNCHANGED <<floors, spent>>
  <2>1. /\ known' = known + 0 /\ pending' = pending \ {r} /\ UNCHANGED healthy /\ r \in pending
        /\ durable' = durable \ {r} /\ slots' = slots \ {r} /\ UNCHANGED <<floors, spent>> /\ charge[r] = 0
    BY <1>3 DEF SlotsAfter, Settle
  <2>2. TypeOK'
    BY <1>1, <2>1 DEF TypeOK
  <2>3. Unentered' /\ Entered'
    BY <1>1, <2>1 DEF TypeOK
  <2>4. Matched' /\ Booked'
    BY <1>1, <2>1 DEF TypeOK
  <2>5. Priced'
    <3>1. (\A s \in Requests : Owed'[s] = Owed[s]) /\ Owed[r] = 0 /\ Owed'[r] = 0
      BY <1>1, <1>3 DEF TypeOK, Owed
    <3>2. spent' + Owed'[r] <= spent + 0 /\ charge[r] <= 0 /\ 0 <= quote[r] /\ 0 \in Nat
      BY <1>1, <2>1, <3>1 DEF TypeOK
    <3>3. QED
      BY <1>1, <2>1, <2>2, <3>1, <3>2, PricedSettled
  <2>6. Searching'
    <3>1. r \notin Sent
      BY <1>3 DEF Sent
    <3>2. healthy => Sent \subseteq slots' \union entries'
      BY <1>1, <2>1, <3>1 DEF Searching
    <3>3. \A s \in Requests : kind'[s] = "search" /\ stage'[s] \in {"slot"} \union Live => s \in slots'
      BY <1>1, <2>1 DEF Searching, TypeOK
    <3>4. QED
      BY <1>1, <2>1, <2>2, <3>2, <3>3, SearchingKept
  <2>7. QED
    BY <2>2, <2>3, <2>4, <2>5, <2>6
<1>4. CASE /\ stage[r] \in {"open", "sent", "answered", "failed"} /\ floors' = floors \union {r}
           /\ UNCHANGED <<spent, durable, journal, slots>>
  <2>1. floors' = floors \union {r} /\ UNCHANGED <<spent, durable, pending, known, healthy>> /\ slots' = slots
    BY <1>4 DEF journal
  <2>2. TypeOK'
    BY <1>1, <2>1 DEF TypeOK
  <2>3. Unentered' /\ Entered'
    BY <1>1, <2>1 DEF TypeOK
  <2>4. Matched' /\ Booked'
    BY <1>1, <1>4, <2>1 DEF TypeOK
  <2>5. Priced'
    <3>1. \A s \in Requests : Owed'[s] = Owed[s]
      BY <1>1, <1>4 DEF TypeOK, Owed
    <3>2. QED
      BY <1>1, <2>1, <2>2, <3>1, PricedSame
  <2>6. Searching'
    BY <1>1, <2>1, <2>2, SearchingKept DEF TypeOK, Searching
  <2>7. QED
    BY <2>2, <2>3, <2>4, <2>5, <2>6
<1>5. CASE stage[r] = "recorded" /\ UNCHANGED <<floors, spent, durable, slots, journal>> /\ ~healthy
  <2>1. UNCHANGED <<pending, known, healthy>>
    BY <1>5 DEF journal
  <2>2. TypeOK'
    BY <1>1, <1>5, <2>1 DEF TypeOK
  <2>3. Unentered' /\ Entered'
    BY <1>1, <1>5, <2>1 DEF TypeOK
  <2>4. Matched' /\ Booked'
    BY <1>1, <1>5, <2>1 DEF TypeOK
  <2>5. Priced'
    <3>1. (\A s \in Requests : s # r => Owed'[s] = Owed[s]) /\ Owed[r] = quote[r] /\ Owed'[r] = 0
      BY <1>1, <1>5 DEF TypeOK, Owed
    <3>2. r \notin pending /\ spent' <= spent + Owed[r]
      BY <1>1, <1>5, <3>1 DEF TypeOK
    <3>3. QED
      BY <1>1, <2>1, <2>2, <3>1, <3>2, PricedPaid
  <2>6. Searching'
    BY <1>1, <1>5, <2>1, <2>2, SearchingKept DEF TypeOK, Searching
  <2>7. QED
    BY <2>2, <2>3, <2>4, <2>5, <2>6
<1>6. CASE stage[r] = "open" /\ BareSettleFails(r) /\ UNCHANGED <<floors, spent, durable, slots>>
  <2>1. /\ r \in pending /\ r \notin posted /\ charge[r] = 0 /\ known' = known
        /\ \/ pending' = pending /\ healthy' = healthy
           \/ pending' = pending \ {r} /\ healthy' = FALSE
    BY <1>6 DEF BareSettleFails, SettleFails, journal, TypeOK
  <2>2. TypeOK'
    BY <1>1, <1>6, <2>1 DEF TypeOK
  <2>3. Unentered' /\ Entered'
    BY <1>1, <1>6, <2>1 DEF TypeOK
  <2>4. Matched' /\ Booked'
    BY <1>1, <1>6, <2>1 DEF TypeOK
  <2>5. Priced'
    <3>1. (\A s \in Requests : Owed'[s] = Owed[s]) /\ Owed[r] = 0 /\ Owed'[r] = 0
      BY <1>1, <1>6 DEF TypeOK, Owed
    <3>2. CASE pending' = pending
      BY <1>1, <1>6, <2>1, <2>2, <3>1, <3>2, PricedSame
    <3>3. CASE pending' = pending \ {r}
      <4>1. /\ charge[r] <= 0 /\ 0 <= quote[r] /\ 0 \in Nat /\ known' = known + 0
            /\ spent' + Owed'[r] <= spent + 0
        BY <1>1, <1>6, <2>1, <3>1 DEF TypeOK
      <4>2. QED
        BY <1>1, <2>1, <2>2, <3>1, <3>3, <4>1, PricedSettled
    <3>4. QED
      BY <2>1, <3>2, <3>3
  <2>6. Searching'
    BY <1>1, <1>6, <2>1, <2>2, SearchingKept DEF TypeOK, Searching
  <2>7. QED
    BY <2>2, <2>3, <2>4, <2>5, <2>6
<1>7. QED
  <2>1. stage[r] \in {"sent", "answered", "failed"} => SlotsAfter(r) = slots
    BY DEF SlotsAfter
  <2>2. QED
    BY <1>1, <1>2, <1>3, <1>4, <1>5, <1>6, <2>1 DEF ReleaseSearch, journal

\* What leaves the books alone: another cycle, a higher limit, the end of the journal.
LEMMA RestKeeps ==
  ASSUME IInv, (\E a \in Agents : NextRun(a)) \/ ExtendBudget \/ JournalFails \/ UNCHANGED vars
  PROVE  IInv'
<1> USE DEF IInv, Unentered, Entered, Matched, Booked, Live
<1>1. /\ UNCHANGED <<phase, stage, kind, quote, ctx, charge, posted, silent, reserved, floors, durable, spent>>
      /\ UNCHANGED <<active, bound, pending, known, slots, entries>>
      /\ (healthy' = healthy \/ ~healthy')
  <2>1. CASE \E a \in Agents : NextRun(a)
    BY <2>1 DEF NextRun, request, books, journal, search
  <2>2. CASE ExtendBudget
    BY <2>2 DEF ExtendBudget, request, books, matching, journal, search
  <2>3. CASE JournalFails
    BY <2>3 DEF JournalFails, request, books, matching, search
  <2>4. CASE UNCHANGED vars
    BY <2>4 DEF vars, request, books, matching, journal, search
  <2>5. QED
    BY <2>1, <2>2, <2>3, <2>4
<1>2. limit' \in Budgets /\ limit <= limit'
  <2>1. limit' = limit \/ (limit' \in Budgets /\ limit' > limit)
    BY DEF NextRun, ExtendBudget, JournalFails, vars
  <2>2. limit \in Budgets /\ Budgets \subseteq Nat
    BY HooksAssumption DEF TypeOK
  <2>3. limit \in Nat /\ limit' \in Nat /\ limit' \in Budgets
    BY <2>1, <2>2
  <2>4. QED
    BY <2>1, <2>3
<1>3. run' \in [Agents -> 1..MaxRuns]
  <2>1. \A a \in Agents : run[a] < MaxRuns => run[a] + 1 \in 1..MaxRuns
    BY HooksAssumption DEF TypeOK
  <2>2. QED
    BY <2>1 DEF NextRun, ExtendBudget, JournalFails, vars, matching, TypeOK
<1>4. TypeOK'
  <2>1. healthy' \in BOOLEAN
    BY DEF NextRun, ExtendBudget, JournalFails, vars, journal, TypeOK
  <2>2. QED
    BY <1>1, <1>2, <1>3, <2>1 DEF TypeOK
<1>5. Unentered' /\ Entered'
  BY <1>1
<1>6. Matched' /\ Booked'
  BY <1>1
<1>7. Priced'
  <2>1. \A s \in Requests : Owed'[s] = Owed[s]
    BY <1>1 DEF Owed
  <2>2. QED
    BY <1>1, <1>2, <1>4, <2>1, PricedSame
<1>8. Searching'
  BY <1>1, <1>4, SearchingKept DEF Searching
<1>9. QED
  BY <1>4, <1>5, <1>6, <1>7, <1>8

LEMMA NextIInv == ASSUME IInv, [Next]_vars PROVE IInv'
<1>1. CASE Next
  BY <1>1, StartLlmKeeps, ReserveDirectKeeps, TakeSlotKeeps, ReserveSearchKeeps, SendKeeps, AnswerKeeps,
     EndLlmKeeps, RecordKeeps, ReleaseDirectKeeps, CommitSearchKeeps, ReleaseSearchKeeps, RestKeeps DEF Next
<1>2. CASE UNCHANGED vars
  BY <1>2, RestKeeps
<1>3. QED
  BY <1>1, <1>2

\* Every variable keeps its type, and the books their invariant.
THEOREM Invariance == Spec => []IInv
<1>1. Init => IInv
  BY InitIInv
<1>2. IInv /\ [Next]_vars => IInv'
  BY NextIInv
<1>3. QED
  BY <1>1, <1>2, PTL DEF Spec

\* What the provider was sent and is not settled is counted in memory, and so is every
\* other hold of the journal but that of a search that was not sent.
THEOREM QuotesAreCounted == Spec => []QuotesStayCounted
<1>1. IInv => QuotesStayCounted
  BY DEF IInv, Entered, Booked, Live, QuotesStayCounted, InFlight
<1>2. QED
  BY <1>1, Invariance, PTL

\* No estimate outlives the usage that replaced it, as long as the journal works.
THEOREM NoEstimateTwice == Spec => []NoGhostQuotes
<1>1. IInv => NoGhostQuotes
  <2>1. SUFFICES ASSUME IInv PROVE NoGhostQuotes
    OBVIOUS
  <2>2. Owed \in [Requests -> Nat] /\ Requests = 1..MaxRequest /\ MaxRequest \in Nat
    BY <2>1, ColumnTypes, HooksAssumption DEF IInv, Requests
  <2>3. Total(MaxRequest, Owed) \in Nat
    BY <2>2, TotalNat
  <2>4. spent <= known
    BY <2>1, <2>3 DEF IInv, TypeOK, Priced
  <2>5. QED
    BY <2>1, <2>4 DEF IInv, Booked, NoGhostQuotes
<1>2. QED
  BY <1>1, Invariance, PTL

\* What was billed is settled, or was billed for a hold at no more than its quote.
LEMMA BilledIsCovered ==
  ASSUME IInv
  PROVE  /\ PriorCost + Total(MaxRequest, charge) <= known + Quoted(pending)
         /\ Total(MaxRequest, charge) \in Nat /\ known + Quoted(pending) \in Nat
<1> DEFINE e == Entry(charge, pending)
           f == Entry(quote, pending)
<1>1. /\ MaxRequest \in Nat /\ Requests = 1..MaxRequest
      /\ charge \in [1..MaxRequest -> Nat] /\ quote \in [1..MaxRequest -> Nat]
      /\ Settled \in [1..MaxRequest -> Nat] /\ e \in [1..MaxRequest -> Nat] /\ f \in [1..MaxRequest -> Nat]
  BY ColumnTypes, EntryType, HooksAssumption DEF IInv, TypeOK, Requests
<1>2. \A i \in 1..MaxRequest : charge[i] = Settled[i] + e[i]
  BY <1>1 DEF Settled, Entry
<1>3. \A i \in 1..MaxRequest : e[i] <= f[i]
  BY <1>1 DEF Entry, IInv, Unentered
<1> HIDE DEF e, f, Settled
<1>4. Total(MaxRequest, charge) = Total(MaxRequest, Settled) + Total(MaxRequest, e)
  BY <1>1, <1>2, TotalPlus
<1>5. Total(MaxRequest, e) <= Total(MaxRequest, f)
  BY <1>1, <1>3, TotalMono
<1>6. Total(MaxRequest, f) = Quoted(pending)
  BY DEF f, Quoted, Entry
<1>7. /\ Total(MaxRequest, charge) \in Nat /\ Total(MaxRequest, Settled) \in Nat
      /\ Total(MaxRequest, e) \in Nat /\ Total(MaxRequest, f) \in Nat
  BY <1>1, TotalNat
<1>8. known \in Nat /\ PriorCost \in Nat /\ PriorCost + Total(MaxRequest, Settled) <= known
  BY HooksAssumption DEF IInv, TypeOK, Priced
<1>9. QED
  BY <1>4, <1>5, <1>6, <1>7, <1>8

\* The provider bills no more than the operator's limit and a triage's allowance.
THEOREM SpendIsAllowed == Spec => []SpendWithinAllowance
<1>1. IInv => SpendWithinAllowance
  <2>1. SUFFICES ASSUME IInv PROVE SpendWithinAllowance
    OBVIOUS
  <2>2. /\ PriorCost + Total(MaxRequest, charge) <= known + Quoted(pending)
        /\ Total(MaxRequest, charge) \in Nat /\ known + Quoted(pending) \in Nat
    BY <2>1, BilledIsCovered
  <2>3. /\ known + Quoted(pending) <= limit
        /\ phase = "triage" => known + Quoted(pending) <= PriorCost + Allowance
    BY <2>1 DEF IInv, Priced
  <2>4. limit \in Nat /\ PriorCost \in Nat /\ Allowance \in Nat
    BY <2>1, HooksAssumption DEF IInv, TypeOK
  <2>5. QED
    BY <2>2, <2>3, <2>4 DEF SpendWithinAllowance
<1>2. QED
  BY <1>1, Invariance, PTL

\* No more searches are sent than the scan may make, at no more than they may cost.
THEOREM SearchesAreCapped == Spec => []SearchesWithinCap
<1>1. IInv => SearchesWithinCap
  BY DEF IInv, Searching, Sent, SearchesWithinCap
<1>2. QED
  BY <1>1, Invariance, PTL
=============================================================================
