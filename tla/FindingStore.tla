---------------------------- MODULE FindingStore ----------------------------
(***************************************************************************)
(* What the report's artifacts promise: the findings of a scan are a       *)
(* durable map whose changes take effect whole or not at all.  A finding   *)
(* is filed once, revised in order, and its HTTP evidence is verified for  *)
(* the version it is at; nothing else touches it, neither a failed write   *)
(* nor a crash.  A tool reports a change only when it has taken effect,    *)
(* so that what was reported is never taken back.                          *)
(***************************************************************************)
EXTENDS Naturals

CONSTANTS Findings, MaxVersion

VARIABLES
  store,   \* per finding its version (0: not filed) and whether its evidence is verified
  told     \* per finding the version that was reported

Init ==
  /\ store = [f \in Findings |-> [version |-> 0, verified |-> FALSE]]
  /\ told = [f \in Findings |-> 0]

\* A finding is filed, or revised: its evidence has to be verified again. A process
\* that dies may not come to report it.
Change(f) ==
  /\ store[f].version < MaxVersion
  /\ store' = [store EXCEPT ![f] = [version |-> @.version + 1, verified |-> FALSE]]
  /\ told' \in {told, [told EXCEPT ![f] = store[f].version + 1]}

\* The evidence of all findings that there are is verified.
Verify ==
  /\ store' = [f \in Findings |-> IF store[f].version > 0 THEN [store[f] EXCEPT !.verified = TRUE] ELSE store[f]]
  /\ UNCHANGED told

Next == Verify \/ \E f \in Findings : Change(f)

Spec == Init /\ [][Next]_<<store, told>>
=============================================================================
