---------------------------- MODULE SpendPromise ----------------------------
(***************************************************************************)
(* What the finite budget promises the operator, without saying how: every *)
(* request the provider may bill was admitted first, with room for its     *)
(* whole quote under what the operator had granted by then; a settlement   *)
(* may lower the amount held for a request to its reported cost, never     *)
(* below what the provider charged.  FiniteBudget implements it.           *)
(***************************************************************************)
EXTENDS Integers, Totals

CONSTANTS MaxAttempt,    \* attempts are numbered 1 .. MaxAttempt
          PriorCost      \* spend already known when the budget was activated

VARIABLES granted,       \* the highest limit the operator ever set
          exposure,      \* per attempt: the most it may still be found to cost
          charge         \* per attempt: what the provider billed

pvars == <<granted, exposure, charge>>
Attempts == 1 .. MaxAttempt

Init ==
  /\ granted = 0
  /\ exposure = [a \in Attempts |-> 0]
  /\ charge = [a \in Attempts |-> 0]

Grant ==
  /\ granted' \in Nat /\ granted' > granted
  /\ UNCHANGED <<exposure, charge>>

Admit(a) ==
  /\ exposure[a] = 0 /\ charge[a] = 0
  /\ \E q \in 1..granted : exposure' = [exposure EXCEPT ![a] = q]
  /\ PriorCost + Total(MaxAttempt, exposure') <= granted
  /\ UNCHANGED <<granted, charge>>

Bill(a) ==
  /\ \E c \in charge[a]..exposure[a] : charge' = [charge EXCEPT ![a] = c]
  /\ UNCHANGED <<granted, exposure>>

Reconcile(a) ==
  /\ \E v \in charge[a]..exposure[a] : exposure' = [exposure EXCEPT ![a] = v]
  /\ UNCHANGED <<granted, charge>>

Next == Grant \/ \E a \in Attempts : Admit(a) \/ Bill(a) \/ Reconcile(a)

Spec == Init /\ [][Next]_pvars
=============================================================================
