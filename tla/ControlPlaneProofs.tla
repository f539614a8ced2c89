------------------------- MODULE ControlPlaneProofs -------------------------
(***************************************************************************)
(* The safety of the control plane's tunnel, for any number of connections *)
(* and any limit.  The invariant ties the three views of a lease together: *)
(* where its worker is, what its fields say, and what the event loop is    *)
(* about to do to it.                                                      *)
(***************************************************************************)
EXTENDS ControlPlane, FiniteSetTheorems, TLAPS

\* A lease is opening exactly while its worker has not come to a result.
OpeningFollowsWorker ==
  \A c \in Conns :
    c \in opening <=> worker[c] \in {"queued", "connecting", "connected", "failed", "disposing"}

\* Only a lease whose worker is done, and that nobody closed, has its channel; what a
\* worker disposes of or releases belongs to a closed lease.
StoredByWorker ==
  \A c \in Conns :
    /\ c \in stored => c \notin closed /\ worker[c] = "done"
    /\ worker[c] \in {"disposing", "releasing"} => c \in closed
    /\ worker[c] \in {"none", "queued", "connecting", "failed"} => channel[c] = "none"
    /\ relay[c] \in {"none", "new"} => worker[c] = "none"

\* The slot of a lease is held while anything is done with it.
SlotHeld ==
  \A c \in Conns :
    c \in InUse \/ c \in opening \/ (relay[c] = "new" /\ c \notin closed) => c \in held

\* What FinishClose relies on.
ClosingSound ==
  /\ closing.drop \subseteq closing.release /\ closing.release \subseteq closing.marked
  /\ closing.marked \subseteq closed
  /\ \A c \in closing.release : worker[c] \in {"none", "done"}
  /\ \A c \in closing.drop : worker[c] = "done"

IInv == /\ TypeOK /\ IsFiniteSet(held) /\ NoOrphanChannel
        /\ OpeningFollowsWorker /\ StoredByWorker /\ SlotHeld /\ ClosingSound

-----------------------------------------------------------------------------
LEMMA InitIInv == Init => IInv
<1>1. IsFiniteSet({}) /\ Cardinality({}) = 0
  BY FS_EmptySet
<1>2. QED
  BY <1>1, ControlPlaneAssumption
     DEF Init, Idle, IInv, TypeOK, NoOrphanChannel, OpeningFollowsWorker, StoredByWorker, SlotHeld,
         ClosingSound, InUse

\* The limit survives every step that does not admit a connection.
LEMMA FewerHeld ==
  ASSUME NEW S, IsFiniteSet(S), Cardinality(S) <= MaxConnections, NEW T \in SUBSET S
  PROVE  IsFiniteSet(T) /\ Cardinality(T) <= MaxConnections
<1>1. IsFiniteSet(T) /\ Cardinality(T) <= Cardinality(S)
  BY FS_Subset
<1>2. Cardinality(S) \in Nat /\ Cardinality(T) \in Nat
  BY <1>1, FS_CardinalityType
<1>3. QED
  BY <1>1, <1>2, ControlPlaneAssumption

LEMMA NextIInv == IInv /\ [Next]_vars => IInv'
<1> SUFFICES ASSUME IInv, [Next]_vars PROVE IInv'
  OBVIOUS
<1> USE DEF IInv, TypeOK, NoOrphanChannel, OpeningFollowsWorker, StoredByWorker, SlotHeld,
            ClosingSound, InUse, leaseVars
<1>1. ASSUME NEW c \in Conns, Connect(c) PROVE IInv'
  BY <1>1 DEF Connect
<1>2. ASSUME NEW c \in Conns, Connected(c) PROVE IInv'
  BY <1>2 DEF Connected
<1>3. ASSUME NEW c \in Conns, HandOver(c) PROVE IInv'
  BY <1>3 DEF HandOver
<1>4. ASSUME NEW c \in Conns, Dispose(c) PROVE IInv'
  BY <1>4 DEF Dispose
<1>5. ASSUME NEW c \in Conns, FailedOpen(c) PROVE IInv'
  BY <1>5 DEF FailedOpen
<1>6. ASSUME NEW c \in Conns, WorkerReleases(c) PROVE IInv'
  <2>1. IsFiniteSet(held') /\ Cardinality(held') <= MaxConnections
    BY <1>6, FewerHeld DEF WorkerReleases
  <2>2. QED
    BY <1>6, <2>1 DEF WorkerReleases
<1>7. CASE FinishClose
  <2>1. IsFiniteSet(held') /\ Cardinality(held') <= MaxConnections
    BY <1>7, FewerHeld DEF FinishClose
  <2>2. QED
    BY <1>7, <2>1 DEF FinishClose, Idle
<1>8. ASSUME NEW c \in Conns, Accept(c) PROVE IInv'
  <2>1. IsFiniteSet(held') /\ Cardinality(held') <= MaxConnections
    <3>1. CASE held' = held
      BY <3>1
    <3>2. CASE held' # held
      <4>1. held' = held \cup {c} /\ ~(Cardinality(held) >= MaxConnections)
        BY <1>8, <3>2 DEF Accept
      <4>2. /\ IsFiniteSet(held \cup {c})
            /\ Cardinality(held \cup {c}) =
                 IF c \in held THEN Cardinality(held) ELSE Cardinality(held) + 1
        <5>1. IsFiniteSet(held)
          OBVIOUS
        <5>2. QED
          BY <5>1, FS_AddElement
      <4>3. Cardinality(held) \in Nat
        BY FS_CardinalityType
      <4>4. QED
        BY <4>1, <4>2, <4>3, ControlPlaneAssumption
    <3>3. QED
      BY <3>1, <3>2
  <2>2. QED
    BY <1>8, <2>1 DEF Accept
<1>9. ASSUME NEW c \in Conns, BeginOpen(c) PROVE IInv'
  BY <1>9 DEF BeginOpen, LoopFree, Idle
<1>10. ASSUME NEW c \in Conns, Opened(c) PROVE IInv'
  BY <1>10 DEF Opened
<1>11. ASSUME NEW c \in Conns, PipeEnds(c) PROVE IInv'
  BY <1>11 DEF PipeEnds
<1>12. ASSUME NEW c \in Conns, Drained(c) PROVE IInv'
  <2>1. CASE c \in closed
    BY <1>12, <2>1 DEF Drained, Mark, Idle, LoopFree
  <2>2. CASE c \notin closed
    BY <1>12, <2>2 DEF Drained, Mark, Idle, LoopFree
  <2>3. QED
    BY <2>1, <2>2
<1>13. ASSUME NEW c \in Conns, NeverRan(c) PROVE IInv'
  BY <1>13 DEF NeverRan
<1>14. CASE Shut
  BY <1>14 DEF Shut
<1>15. ASSUME NEW c \in Conns, CloseLease(c) PROVE IInv'
  <2>1. CASE c \in closed
    BY <1>15, <2>1 DEF CloseLease, Mark, Idle
  <2>2. CASE c \notin closed
    BY <1>15, <2>2 DEF CloseLease, Mark, Idle
  <2>3. QED
    BY <2>1, <2>2
<1>16. CASE CancelTasks
  BY <1>16 DEF CancelTasks
<1>17. CASE UNCHANGED vars
  BY <1>17 DEF vars
<1>18. QED
  BY <1>1, <1>2, <1>3, <1>4, <1>5, <1>6, <1>7, <1>8, <1>9, <1>10, <1>11, <1>12, <1>13, <1>14,
     <1>15, <1>16, <1>17 DEF Next, Worker, Relay, Shutdown

\* The inductive invariant holds in every reachable state.
THEOREM Invariance == Spec => []IInv
  BY InitIInv, NextIInv, PTL DEF Spec

-----------------------------------------------------------------------------
\* Type correctness, and no more leases than slots.
THEOREM TypeCorrect == Spec => []TypeOK
<1>1. IInv => TypeOK
  BY DEF IInv
<1>2. QED
  BY <1>1, Invariance, PTL

\* An open channel always has somebody who is bound to close it.
THEOREM Owned == Spec => []NoOrphanChannel
<1>1. IInv => NoOrphanChannel
  BY DEF IInv
<1>2. QED
  BY <1>1, Invariance, PTL

\* Late workers never take the tunnel over the limit of its listener.
THEOREM Limited == Spec => []WithinLimit
<1>1. ASSUME IInv PROVE WithinLimit
  <2>1. InUse \in SUBSET held
    BY <1>1 DEF IInv, SlotHeld, InUse
  <2>2. IsFiniteSet(held) /\ Cardinality(held) <= MaxConnections
    BY <1>1 DEF IInv, TypeOK
  <2>3. QED
    BY <2>1, <2>2, FewerHeld DEF WithinLimit
<1>2. QED
  BY <1>1, Invariance, PTL

\* A slot comes back only after its channel is gone and its worker has a result.
THEOREM SlotsComeBackIdle == Spec => ReleasedWhenIdle
<1>1. ASSUME IInv, Next, NEW c \in held, c \notin held' PROVE c \notin InUse'
  <2>1. c \in Conns
    BY <1>1 DEF IInv, TypeOK
  <2>2. CASE WorkerReleases(c)
    BY <1>1, <2>1, <2>2
       DEF WorkerReleases, IInv, TypeOK, NoOrphanChannel, StoredByWorker, ClosingSound, InUse,
           OpeningFollowsWorker
  <2>3. CASE FinishClose
    BY <1>1, <2>1, <2>3
       DEF FinishClose, IInv, TypeOK, NoOrphanChannel, StoredByWorker, ClosingSound, InUse, leaseVars
  <2>4. QED
    BY <1>1, <2>1, <2>2, <2>3
       DEF Next, Worker, Relay, Shutdown, Connect, Connected, HandOver, Dispose, FailedOpen,
           WorkerReleases, Accept, BeginOpen, Opened, PipeEnds, Drained, NeverRan, Shut,
           CloseLease, CancelTasks
<1>2. ASSUME IInv, [Next]_vars PROVE [\A c \in held : c \notin held' => c \notin InUse']_vars
  BY <1>1, <1>2 DEF vars
<1>3. QED
  BY <1>2, Invariance, PTL DEF Spec, ReleasedWhenIdle
=============================================================================
