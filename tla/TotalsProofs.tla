---------------------------- MODULE TotalsProofs ----------------------------
(***************************************************************************)
(* What Total computes, for every length and every function of naturals:   *)
(* it is a natural, it is monotone, and changing one argument changes it   *)
(* by the difference.  Induction over the length is by least counter-      *)
(* example, from the well-foundedness of < on Nat.                         *)
(***************************************************************************)
EXTENDS Totals, TLAPS, WellFoundedInduction

NatLess == {ss \in Nat \X Nat : ss[1] < ss[2]}

\* Every nonempty set of naturals has a least element.
LEMMA LeastNatural ==
  ASSUME NEW S \in SUBSET Nat, S # {}
  PROVE  \E m \in S : \A k \in S : m <= k
<1>1. OpToRel(<, Nat) = NatLess
  BY Zenon DEF OpToRel, NatLess
<1>2. IsWellFoundedOn(NatLess, Nat)
  BY <1>1, NatLessThanWellFounded, Zenon
<1>3. PICK m \in S : \A y \in S : ~(<<y, m>> \in NatLess)
  BY <1>2, WFMin
<1>4. ASSUME NEW k \in S PROVE m <= k
  <2>1. <<k, m>> \in Nat \X Nat /\ <<k, m>>[1] = k /\ <<k, m>>[2] = m
    OBVIOUS
  <2>2. ~(k < m)
    BY <1>3, <2>1 DEF NatLess
  <2>3. QED
    BY <2>2
<1>5. QED
  BY <1>4

\* Induction along 0..n for a property given as the set of indices that have it.
LEMMA UpTo ==
  ASSUME NEW n \in Nat, NEW S \in SUBSET (0..n),
         0 \in S,
         \A i \in 1..n : i-1 \in S => i \in S
  PROVE  S = 0..n
<1> DEFINE Missing == (0..n) \ S
<1>1. SUFFICES ASSUME Missing # {} PROVE FALSE
  OBVIOUS
<1>2. Missing \in SUBSET Nat
  OBVIOUS
<1>3. PICK m \in Missing : \A k \in Missing : m <= k
  <2> HIDE DEF Missing
  <2>1. QED
    BY <1>1, <1>2, LeastNatural
<1>4. m \in 1..n /\ m-1 \in 0..n /\ ~(m <= m-1)
  BY <1>3
<1>5. m-1 \in S
  BY <1>3, <1>4
<1>6. QED
  BY <1>3, <1>4, <1>5

-----------------------------------------------------------------------------
\* The running sums of f up to n, and a function that follows them up to k.
SumsTo(n, f, s) ==
  s = [i \in 0..n |-> IF i = 0 THEN 0 ELSE s[i-1] + f[i]]

Follows(f, s, k) ==
  /\ s[0] = 0
  /\ \A i \in 1..k : s[i] = s[i-1] + f[i]

\* Running sums exist: a partial one extends by one index at a time.
LEMMA SumsExist ==
  ASSUME NEW n \in Nat, NEW f \in [1..n -> Nat]
  PROVE  \E s \in [0..n -> Nat] : SumsTo(n, f, s)
<1> DEFINE S == {k \in 0..n : \E s \in [0..n -> Nat] : Follows(f, s, k)}
<1>1. 0 \in S
  <2>1. [i \in 0..n |-> 0] \in [0..n -> Nat] /\ Follows(f, [i \in 0..n |-> 0], 0)
    BY DEF Follows
  <2>2. 0 \in 0..n
    OBVIOUS
  <2>3. QED
    BY <2>1, <2>2
<1>2. ASSUME NEW k \in 1..n, k-1 \in S PROVE k \in S
  <2>1. PICK s \in [0..n -> Nat] : Follows(f, s, k-1)
    BY <1>2
  <2>2. k \in 0..n /\ k-1 \in 0..n /\ s[k-1] + f[k] \in Nat
    OBVIOUS
  <2> DEFINE t == [s EXCEPT ![k] = s[k-1] + f[k]]
  <2>3. t \in [0..n -> Nat]
    BY <2>2
  <2>4. Follows(f, t, k)
    <3>1. t[0] = 0
      BY <2>1, <2>2 DEF Follows
    <3>2. ASSUME NEW i \in 1..k PROVE t[i] = t[i-1] + f[i]
      <4>1. CASE i = k
        BY <2>2, <4>1
      <4>2. CASE i # k
        <5>1. i \in 1..(k-1) /\ i \in 0..n /\ i-1 \in 0..n /\ i-1 # k
          BY <4>2
        <5>2. t[i] = s[i] /\ t[i-1] = s[i-1]
          BY <4>2, <5>1
        <5>3. QED
          BY <2>1, <5>1, <5>2 DEF Follows
      <4>3. QED
        BY <4>1, <4>2
    <3>3. QED
      BY <3>1, <3>2 DEF Follows
  <2>5. QED
    BY <2>2, <2>3, <2>4
<1>3. n \in S
  <2>1. S \in SUBSET (0..n) /\ n \in 0..n
    OBVIOUS
  <2> HIDE DEF S
  <2>2. S = 0..n
    BY <1>1, <1>2, <2>1, UpTo
  <2>3. QED
    BY <2>1, <2>2
<1>4. PICK s \in [0..n -> Nat] : Follows(f, s, n)
  BY <1>3
<1>5. \A i \in 0..n : s[i] = IF i = 0 THEN 0 ELSE s[i-1] + f[i]
  BY <1>4 DEF Follows
<1>6. QED
  BY <1>5 DEF SumsTo

\* Total is the last of some running sums of f.
LEMMA TotalRuns ==
  ASSUME NEW n \in Nat, NEW f \in [1..n -> Nat]
  PROVE  \E s : SumsTo(n, f, s) /\ Total(n, f) = s[n]
<1> DEFINE sum == CHOOSE s : s = [i \in 0..n |-> IF i = 0 THEN 0 ELSE s[i-1] + f[i]]
<1>1. Total(n, f) = sum[n]
  BY Zenon DEF Total
<1>2. SumsTo(n, f, sum)
  BY SumsExist, Zenon DEF SumsTo
<1>3. QED
  BY <1>1, <1>2, Zenon

\* Running sums of naturals start at zero, follow f and stay natural.
LEMMA RunningFacts ==
  ASSUME NEW n \in Nat, NEW f \in [1..n -> Nat], NEW s, SumsTo(n, f, s)
  PROVE  /\ s[0] = 0
         /\ \A i \in 1..n : s[i] = s[i-1] + f[i]
         /\ \A i \in 0..n : s[i] \in Nat
<1>1. s[0] = 0
  BY DEF SumsTo
<1>2. \A i \in 1..n : s[i] = s[i-1] + f[i]
  BY DEF SumsTo
<1> DEFINE S == {k \in 0..n : s[k] \in Nat}
<1>3. S \in SUBSET (0..n) /\ 0 \in S
  BY <1>1
<1>4. \A i \in 1..n : i-1 \in S => i \in S
  BY <1>2
<1>5. S = 0..n
  <2> HIDE DEF S
  <2>1. QED
    BY <1>3, <1>4, UpTo
<1>6. QED
  BY <1>1, <1>2, <1>5

-----------------------------------------------------------------------------
\* A total of naturals is a natural.
LEMMA TotalNat ==
  ASSUME NEW n \in Nat, NEW f \in [1..n -> Nat]
  PROVE  Total(n, f) \in Nat
<1>1. PICK s : SumsTo(n, f, s) /\ Total(n, f) = s[n]
  BY TotalRuns
<1>2. s[n] \in Nat
  BY <1>1, RunningFacts
<1>3. QED
  BY <1>1, <1>2

\* A total of zeros is zero.
LEMMA TotalZero ==
  ASSUME NEW n \in Nat, NEW f \in [1..n -> Nat], \A i \in 1..n : f[i] = 0
  PROVE  Total(n, f) = 0
<1>1. PICK s : SumsTo(n, f, s) /\ Total(n, f) = s[n]
  BY TotalRuns
<1>2. /\ s[0] = 0
      /\ \A i \in 1..n : s[i] = s[i-1] + f[i]
  BY <1>1, RunningFacts
<1> DEFINE S == {k \in 0..n : s[k] = 0}
<1>3. S \in SUBSET (0..n) /\ 0 \in S
  BY <1>2
<1>4. \A i \in 1..n : i-1 \in S => i \in S
  BY <1>2
<1>5. S = 0..n
  <2> HIDE DEF S
  <2>1. QED
    BY <1>3, <1>4, UpTo
<1>6. QED
  BY <1>1, <1>5

\* Totals are monotone: argument by argument, then as a sum.
LEMMA TotalMono ==
  ASSUME NEW n \in Nat, NEW f \in [1..n -> Nat], NEW g \in [1..n -> Nat],
         \A i \in 1..n : f[i] <= g[i]
  PROVE  Total(n, f) <= Total(n, g)
<1>1. PICK s : SumsTo(n, f, s) /\ Total(n, f) = s[n]
  BY TotalRuns
<1>2. PICK t : SumsTo(n, g, t) /\ Total(n, g) = t[n]
  BY TotalRuns
<1>3. /\ s[0] = 0
      /\ \A i \in 1..n : s[i] = s[i-1] + f[i]
      /\ \A i \in 0..n : s[i] \in Nat
  BY <1>1, RunningFacts
<1>4. /\ t[0] = 0
      /\ \A i \in 1..n : t[i] = t[i-1] + g[i]
      /\ \A i \in 0..n : t[i] \in Nat
  BY <1>2, RunningFacts
<1> DEFINE S == {k \in 0..n : s[k] <= t[k]}
<1>5. S \in SUBSET (0..n) /\ 0 \in S
  BY <1>3, <1>4
<1>6. ASSUME NEW i \in 1..n, i-1 \in S PROVE i \in S
  <2>1. s[i-1] \in Nat /\ t[i-1] \in Nat /\ s[i-1] <= t[i-1] /\ i \in 0..n
    BY <1>3, <1>4, <1>6
  <2>2. s[i] = s[i-1] + f[i] /\ t[i] = t[i-1] + g[i] /\ f[i] <= g[i]
    BY <1>3, <1>4
  <2>3. f[i] \in Nat /\ g[i] \in Nat
    OBVIOUS
  <2>4. QED
    BY <2>1, <2>2, <2>3
<1>7. S = 0..n
  <2> HIDE DEF S
  <2>1. QED
    BY <1>5, <1>6, UpTo
<1>8. QED
  BY <1>1, <1>2, <1>7

\* Changing one argument changes the total by the difference.
LEMMA TotalUpdate ==
  ASSUME NEW n \in Nat, NEW f \in [1..n -> Nat], NEW g \in [1..n -> Nat],
         NEW a \in 1..n, \A i \in 1..n : i # a => g[i] = f[i]
  PROVE  Total(n, g) + f[a] = Total(n, f) + g[a]
<1>1. PICK s : SumsTo(n, f, s) /\ Total(n, f) = s[n]
  BY TotalRuns
<1>2. PICK t : SumsTo(n, g, t) /\ Total(n, g) = t[n]
  BY TotalRuns
<1>3. /\ s[0] = 0
      /\ \A i \in 1..n : s[i] = s[i-1] + f[i]
      /\ \A i \in 0..n : s[i] \in Nat
  BY <1>1, RunningFacts
<1>4. /\ t[0] = 0
      /\ \A i \in 1..n : t[i] = t[i-1] + g[i]
      /\ \A i \in 0..n : t[i] \in Nat
  BY <1>2, RunningFacts
<1> DEFINE Agree(k) == IF a <= k THEN t[k] + f[a] = s[k] + g[a] ELSE t[k] = s[k]
           S == {k \in 0..n : Agree(k)}
<1>5. S \in SUBSET (0..n) /\ 0 \in S
  BY <1>3, <1>4
<1>6. ASSUME NEW i \in 1..n, i-1 \in S PROVE i \in S
  <2>1. /\ s[i-1] \in Nat /\ t[i-1] \in Nat /\ i \in 0..n /\ i-1 \in 0..n
        /\ s[i] \in Nat /\ t[i] \in Nat
        /\ f[i] \in Nat /\ g[i] \in Nat /\ f[a] \in Nat /\ g[a] \in Nat
    BY <1>3, <1>4
  <2>2. s[i] = s[i-1] + f[i] /\ t[i] = t[i-1] + g[i]
    BY <1>3, <1>4
  <2>3. CASE i = a
    <3>1. t[i-1] = s[i-1]
      BY <1>6, <2>3
    <3>2. t[i] + f[a] = s[i] + g[a]
      BY <2>1, <2>2, <2>3, <3>1
    <3>3. QED
      BY <2>1, <2>3, <3>2
  <2>4. CASE i # a
    <3>1. g[i] = f[i] /\ (a <= i <=> a <= i-1)
      BY <2>4
    <3>2. CASE a <= i
      <4>1. t[i-1] + f[a] = s[i-1] + g[a]
        BY <1>6, <3>1, <3>2
      <4>2. PICK x \in Nat, y \in Nat, d \in Nat, p \in Nat, q \in Nat :
              x = s[i-1] /\ y = t[i-1] /\ d = f[i] /\ p = f[a] /\ q = g[a]
        BY <2>1
      <4>3. y + p = x + q
        BY <4>1, <4>2
      <4>4. (y + d) + p = (x + d) + q
        BY <4>3
      <4>5. t[i] + f[a] = s[i] + g[a]
        BY <2>2, <3>1, <4>2, <4>4
      <4>6. QED
        BY <2>1, <3>2, <4>5
    <3>3. CASE ~(a <= i)
      <4>1. t[i-1] = s[i-1]
        BY <1>6, <3>1, <3>3
      <4>2. t[i] = s[i]
        BY <2>2, <3>1, <4>1
      <4>3. QED
        BY <2>1, <3>3, <4>2
    <3>4. QED
      BY <3>2, <3>3
  <2>5. QED
    BY <2>3, <2>4
<1>7. S = 0..n
  <2> HIDE DEF S
  <2>1. QED
    BY <1>5, <1>6, UpTo
<1>8. n \in S /\ a <= n
  BY <1>7
<1>9. QED
  BY <1>1, <1>2, <1>8

\* The total of a pointwise sum is the sum of the totals.
LEMMA TotalPlus ==
  ASSUME NEW n \in Nat, NEW f \in [1..n -> Nat], NEW g \in [1..n -> Nat],
         NEW h \in [1..n -> Nat], \A i \in 1..n : h[i] = f[i] + g[i]
  PROVE  Total(n, h) = Total(n, f) + Total(n, g)
<1>1. PICK s : SumsTo(n, f, s) /\ Total(n, f) = s[n]
  BY TotalRuns
<1>2. PICK t : SumsTo(n, g, t) /\ Total(n, g) = t[n]
  BY TotalRuns
<1>3. PICK u : SumsTo(n, h, u) /\ Total(n, h) = u[n]
  BY TotalRuns
<1>4. /\ s[0] = 0 /\ t[0] = 0 /\ u[0] = 0
      /\ \A i \in 1..n : s[i] = s[i-1] + f[i] /\ t[i] = t[i-1] + g[i] /\ u[i] = u[i-1] + h[i]
      /\ \A i \in 0..n : s[i] \in Nat /\ t[i] \in Nat /\ u[i] \in Nat
  BY <1>1, <1>2, <1>3, RunningFacts
<1> DEFINE S == {k \in 0..n : u[k] = s[k] + t[k]}
<1>5. S \in SUBSET (0..n) /\ 0 \in S
  <2>1. 0 \in 0..n /\ u[0] = 0 /\ s[0] + t[0] = 0
    BY <1>4
  <2>2. QED
    BY <2>1
<1>6. ASSUME NEW i \in 1..n, i-1 \in S PROVE i \in S
  <2>1. i \in 0..n /\ u[i-1] = s[i-1] + t[i-1]
    BY <1>6
  <2>2. PICK x \in Nat, y \in Nat, p \in Nat, q \in Nat :
          x = s[i-1] /\ y = t[i-1] /\ p = f[i] /\ q = g[i]
    BY <1>4, <1>6
  <2>3. (x + y) + (p + q) = (x + p) + (y + q)
    OBVIOUS
  <2>4. u[i] = (x + y) + (p + q) /\ s[i] = x + p /\ t[i] = y + q
    BY <1>4, <2>1, <2>2
  <2>5. QED
    BY <2>1, <2>3, <2>4
<1>7. S = 0..n
  <2> HIDE DEF S
  <2>1. QED
    BY <1>5, <1>6, UpTo
<1>8. QED
  BY <1>1, <1>2, <1>3, <1>7
=============================================================================
