------------------------ MODULE SandboxSessionsProofs ------------------------
(***************************************************************************)
(* The safety of a scan's sandbox, for any number of creations, containers *)
(* and processes.  The invariant says, for whoever holds _CREATION_LOCK,   *)
(* what its place in the code promises about the cache, the deletion that  *)
(* is joined and the containers there are; and what remains of that when   *)
(* nobody holds it.                                                        *)
(***************************************************************************)
EXTENDS SandboxSessions, FiniteSetTheorems, TLAPS

Holding == {"creating", "starting", "reaping", "aborting", "closing", "deleting"}

\* Every variable keeps its type.
Typed ==
  /\ made \in 0..MaxBoxes /\ live \subseteq 1..made /\ lost \subseteq 1..made
  /\ cache.box \in 0..MaxBoxes /\ (cache = NoBundle \/ cache.box # 0)
  /\ deletion \in [box : 0..MaxBoxes, state : {"none", "running", "removed", "failed"}]
  /\ deletion = NoDeletion \/ (deletion.box # 0 /\ deletion.state # "none")
  /\ requests \in [Boxes -> Nat]
  /\ own \in [Tasks -> 0..MaxBoxes]
  /\ at \in [Tasks -> Holding \cup {"idle", "ready", "ended"}]
  /\ \A s \in Starters : at[s] \notin {"closing", "deleting"}
  /\ \A t \in Cleaners : at[t] \in {"idle", "closing", "deleting", "ended"}

\* The lock is held exactly while a creation or a cleanup is under way.
Locked == \A t \in Tasks : at[t] \in Holding <=> lock = t

\* What the holder of the lock works on.
Holders ==
  \A t \in Tasks :
    /\ at[t] = "creating" => cache = NoBundle /\ deletion = NoDeletion /\ live \subseteq lost
    /\ at[t] \in {"starting", "aborting"} => cache = NoBundle /\ own[t] # 0 /\ live \ lost \subseteq {own[t]}
    /\ at[t] = "starting" => deletion = NoDeletion
    /\ at[t] \in {"reaping", "closing", "deleting"} => own[t] # 0 /\ cache.box = own[t]
    /\ at[t] \in {"reaping", "deleting", "aborting"} => deletion.box = own[t]

\* Without a startup under way, what exists and what is being deleted is what is cached.
Cached ==
  \/ \E t \in Tasks : at[t] \in {"starting", "aborting"}
  \/ live \ lost \subseteq {cache.box} /\ deletion.box \in {0, cache.box}

\* The deletion that is joined is the one under way, or tells the truth.
Deletions ==
  /\ deletion.state = "removed" => deletion.box \notin live
  /\ \A b \in Boxes : requests[b] <= 1 /\ (requests[b] # 0 => deletion = [box |-> b, state |-> "running"])

\* When the last cleanup of a headless process has come, nobody can begin anything.
Endings ==
  /\ headless => at["quit"] = "idle"
  /\ at["final"] # "idle" => \E s \in Starters : at[s] = "ready"
  /\ at["outer"] # "idle" =>
       /\ (\A s \in Starters : Ended(s)) \/ Ended("final")
       /\ (\E s \in Starters : at[s] = "ready") => Ended("final")
  /\ Through => lock = "none"

IInv == Typed /\ Locked /\ Holders /\ Cached /\ Deletions /\ Endings /\ StrandedIsKnown

-----------------------------------------------------------------------------
LEMMA InitIInv == Init => IInv
  BY SandboxAssumption
     DEF Init, Fresh, IInv, Typed, Locked, Holders, Cached, Deletions, Endings, StrandedIsKnown,
         Through, Ended, Tasks, Cleaners, Boxes, NoBundle, NoDeletion, Holding

LEMMA NextIInv == IInv /\ [Next]_vars => IInv'
<1> SUFFICES ASSUME IInv, [Next]_vars PROVE IInv'
  OBVIOUS
<1> USE SandboxAssumption
    DEF IInv, Typed, Locked, Holders, Cached, Deletions, Endings, StrandedIsKnown,
        Through, Ended, Tasks, Cleaners, Boxes, NoBundle, NoDeletion, Holding
<1>1. ASSUME NEW b \in Boxes, RequestEnds(b) PROVE IInv'
  BY <1>1 DEF RequestEnds
<1>2. ASSUME NEW t \in Tasks, Confirmed(t) PROVE IInv'
  <2>1. Typed'
    BY <1>2 DEF Confirmed, Waiting, Answer, Leave, Goto
  <2>2. Locked'
    BY <1>2 DEF Confirmed, Waiting, Answer, Leave, Goto
  <2>3. Holders'
    BY <1>2 DEF Confirmed, Waiting, Answer, Leave, Goto
  <2>4. Cached'
    BY <1>2 DEF Confirmed, Waiting, Answer, Leave, Goto
  <2>5. Deletions'
    BY <1>2 DEF Confirmed, Waiting, Answer, Leave, Goto
  <2>6. Endings'
    BY <1>2 DEF Confirmed, Waiting, Answer, Leave, Goto
  <2>7. StrandedIsKnown'
    <3>1. CASE at[t] = "deleting"
      <4>1. live \subseteq lost
        BY <1>2, <3>1 DEF Confirmed
      <4>2. QED
        BY <1>2, <4>1 DEF Confirmed
    <3>2. CASE at[t] # "deleting"
      BY <1>2, <3>2 DEF Confirmed, Waiting, Leave, Goto
    <3>3. QED
      BY <3>1, <3>2
  <2>8. QED
    BY <2>1, <2>2, <2>3, <2>4, <2>5, <2>6, <2>7
<1>3. ASSUME NEW t \in Tasks, Fails(t) PROVE IInv'
  BY <1>3 DEF Fails, Unconfirmed, Waiting, Answer, Leave, Goto, Stranded
<1>4. ASSUME NEW t \in Tasks, TimesOut(t) PROVE IInv'
  BY <1>4 DEF TimesOut, Left, Unconfirmed, Waiting, Answer, Leave, Goto, Stranded
<1>5. ASSUME NEW t \in Starters, Begin(t) PROVE IInv'
  <2>1. Typed'
    BY <1>5 DEF Begin, Request, Joins, Goto, Leave
  <2>2. Locked'
    BY <1>5 DEF Begin, Request, Joins, Goto, Leave
  <2>3. Holders'
    BY <1>5 DEF Begin, Request, Joins, Goto, Leave
  <2>4. Cached'
    BY <1>5 DEF Begin, Request, Joins, Goto, Leave
  <2>5. Deletions'
    BY <1>5 DEF Begin, Request, Joins, Goto, Leave
  <2>6. Endings'
    BY <1>5 DEF Begin, Request, Joins, Goto, Leave
  <2>7. StrandedIsKnown'
    BY <1>5 DEF Begin, Request, Joins, Goto, Leave
  <2>8. QED
    BY <2>1, <2>2, <2>3, <2>4, <2>5, <2>6, <2>7
<1>6. ASSUME NEW t \in Starters, Create(t) PROVE IInv'
  <2>1. /\ at[t] = "creating" /\ lock = t /\ cache = NoBundle /\ deletion = NoDeletion
        /\ live \subseteq lost
        /\ UNCHANGED <<headless, cache, receipt, deletion, requests, record, run>>
    BY <1>6 DEF Create
  <2>2. CASE /\ made < MaxBoxes /\ made' = made + 1 /\ live' = live \cup {made + 1}
             /\ Goto(t, "starting") /\ own' = [own EXCEPT ![t] = made + 1] /\ UNCHANGED <<lock, lost>>
    <3>1. /\ made + 1 \in 0..MaxBoxes /\ made + 1 # 0 /\ made + 1 \in 1..(made + 1)
          /\ 1..made \subseteq 1..(made + 1)
      BY <2>2
    <3>2. PICK k : k = made + 1
      OBVIOUS
    <3>3. live' \ lost' \subseteq {k}
      BY <2>1, <2>2, <3>2
    <3>4. Typed'
      BY <2>1, <2>2, <3>1 DEF Goto
    <3>5. Locked' /\ Deletions' /\ Endings' /\ StrandedIsKnown'
      BY <2>1, <2>2, <3>1 DEF Goto
    <3>6. Cached'
      BY <2>1, <2>2 DEF Goto
    <3>7. Holders'
      BY <2>1, <2>2, <3>1, <3>2, <3>3 DEF Goto
    <3>8. QED
      BY <3>4, <3>5, <3>6, <3>7
  <2>3. CASE /\ made < MaxBoxes /\ made' = made + 1 /\ live' = live \cup {made + 1}
             /\ lost' = lost \cup {made + 1} /\ Leave(t, "ended") /\ UNCHANGED own
    <3>1. made + 1 \in 0..MaxBoxes /\ made + 1 \in 1..(made + 1) /\ 1..made \subseteq 1..(made + 1)
      BY <2>3
    <3>2. QED
      BY <2>1, <2>3, <3>1 DEF Leave, Goto
  <2>4. CASE Leave(t, "ended") /\ UNCHANGED <<made, live, lost, own>>
    BY <2>1, <2>4 DEF Leave, Goto
  <2>5. QED
    BY <1>6, <2>2, <2>3, <2>4 DEF Create
<1>7. ASSUME NEW t \in Starters, Start(t) PROVE IInv'
  BY <1>7 DEF Start, Request, Joins, Goto, Leave
<1>8. ASSUME NEW t \in Starters, CancelStart(t) PROVE IInv'
  <2>1. CASE at[t] = "aborting"
    <3>1. Typed' /\ Locked' /\ Endings' /\ StrandedIsKnown'
      BY <1>8, <2>1 DEF CancelStart, Left, Unconfirmed, Goto, Leave, Stranded
    <3>2. Holders'
      BY <1>8, <2>1 DEF CancelStart, Left, Unconfirmed, Goto, Leave, Stranded
    <3>3. Cached' /\ Deletions'
      BY <1>8, <2>1 DEF CancelStart, Left, Unconfirmed, Goto, Leave, Stranded
    <3>4. QED
      BY <3>1, <3>2, <3>3
  <2>2. CASE at[t] = "reaping"
    <3>1. /\ deletion' \in {deletion, NoDeletion} /\ (deletion.state = "running" => deletion' = deletion)
          /\ at' = [at EXCEPT ![t] = "ended"] /\ lock' = "none"
          /\ UNCHANGED <<headless, live, made, lost, cache, receipt, requests, own, record, run>>
      BY <1>8, <2>2 DEF CancelStart, Left, Leave, Goto
    <3>2. Typed' /\ Locked' /\ Endings' /\ StrandedIsKnown'
      BY <2>2, <3>1
    <3>3. Holders' /\ Cached'
      BY <2>2, <3>1
    <3>4. Deletions'
      BY <3>1
    <3>5. QED
      BY <3>2, <3>3, <3>4
  <2>3. QED
    BY <1>8, <2>1, <2>2 DEF CancelStart
<1>9. ASSUME NEW t \in Cleaners, Clean(t) PROVE IInv'
  <2>1. Typed'
    BY <1>9 DEF Clean, Due, Answer, Leave, Goto
  <2>2. Locked'
    BY <1>9 DEF Clean, Due, Answer, Leave, Goto
  <2>3. Holders'
    BY <1>9 DEF Clean, Due, Answer, Leave, Goto
  <2>4. Cached'
    BY <1>9 DEF Clean, Due, Answer, Leave, Goto
  <2>5. Deletions'
    BY <1>9 DEF Clean, Due, Answer, Leave, Goto
  <2>6. Endings'
    <3>1. CASE t = "final"
      BY <1>9, <3>1 DEF Clean, Due, Answer, Leave, Goto
    <3>2. CASE t = "quit"
      BY <1>9, <3>2 DEF Clean, Due, Answer, Leave, Goto
    <3>3. CASE t = "outer"
      BY <1>9, <3>3 DEF Clean, Due, Answer, Leave, Goto
    <3>4. QED
      BY <3>1, <3>2, <3>3
  <2>7. StrandedIsKnown'
    BY <1>9 DEF Clean, Due, Answer, Leave, Goto
  <2>8. QED
    BY <2>1, <2>2, <2>3, <2>4, <2>5, <2>6, <2>7
<1>10. ASSUME NEW t \in Cleaners, Close(t) PROVE IInv'
  BY <1>10 DEF Close, Request, Joins, Goto
<1>11. CASE GiveUp
  BY <1>11 DEF GiveUp, Left, Due, Goto
<1>12. CASE Resume
  BY <1>12 DEF Resume
<1>13. CASE UNCHANGED vars
  BY <1>13 DEF vars
<1>14. QED
  BY <1>1, <1>2, <1>3, <1>4, <1>5, <1>6, <1>7, <1>8, <1>9, <1>10, <1>11, <1>12, <1>13 DEF Next

\* The inductive invariant holds in every reachable state.
THEOREM Invariance == Spec => []IInv
  BY InitIInv, NextIInv, PTL DEF Spec

-----------------------------------------------------------------------------
\* A container that was handed over and exists is being created or is cached, and
\* there is never a second one, whatever fails, is cancelled or is given up.
THEOREM SandboxesAreOwned == Spec => []OwnedSandboxes
<1>1. ASSUME IInv PROVE OwnedSandboxes
  <2>1. PICK k : live \ lost \subseteq {k}
    BY <1>1 DEF IInv, Cached, Holders
  <2>2. Cardinality(live \ lost) <= 1
    <3>1. CASE live \ lost = {}
      BY <3>1, FS_EmptySet
    <3>2. CASE live \ lost = {k}
      BY <3>2, FS_Singleton
    <3>3. QED
      BY <2>1, <3>1, <3>2
  <2>3. ASSUME NEW b \in live \ lost PROVE cache.box = b \/ \E s \in Starters : lock = s /\ own[s] = b
    <3>1. CASE \E t \in Tasks : at[t] \in {"starting", "aborting"}
      BY <1>1, <3>1 DEF IInv, Typed, Holders, Locked, Holding, Tasks, Cleaners
    <3>2. CASE live \ lost \subseteq {cache.box}
      BY <3>2
    <3>3. QED
      BY <1>1, <3>1, <3>2 DEF IInv, Cached
  <2>4. QED
    BY <2>2, <2>3 DEF OwnedSandboxes
<1>2. QED
  BY <1>1, Invariance, PTL

\* A container has at most one request to delete it: whoever asks again joins it.
THEOREM DeletionsAreShared == Spec => []OneDeletion
<1>1. IInv => OneDeletion
  BY DEF IInv, Deletions, OneDeletion
<1>2. QED
  BY <1>1, Invariance, PTL

\* What a headless process leaves behind, its last cleanup answered to be there.
THEOREM LeftoversAreKnown == Spec => []StrandedIsKnown
<1>1. IInv => StrandedIsKnown
  BY DEF IInv
<1>2. QED
  BY <1>1, Invariance, PTL
=============================================================================
