---------------------------- MODULE ControlPlane ----------------------------
(***************************************************************************)
(* The tunnel to the sandbox's control plane                               *)
(* (runtime/docker_control_plane.py): one listener on the event loop,      *)
(* whose connections each hold a lease on one of a few slots while a       *)
(* worker thread opens a channel for them through the Docker daemon.       *)
(* Workers outlive timeouts, cancellation and the tunnel, so a channel may *)
(* arrive when nobody waits for it any more.                               *)
(*                                                                         *)
(* A step of the event loop runs to its next suspension; a lease is closed *)
(* in two steps, for workers run between its lock and its release.         *)
(*   relay[c]    new, opening (awaiting the worker), piping, draining      *)
(*   worker[c]   queued, connecting, connected, failed, disposing,         *)
(*               releasing: the thread in _ChannelLease.open               *)
(*   channel[c]  the exec channel itself: none, open or closed             *)
(***************************************************************************)
EXTENDS Naturals, FiniteSets

CONSTANTS Conns,            \* the connections a client makes, each once
          MaxConnections    \* _MAX_CONNECTIONS

ASSUME ControlPlaneAssumption == MaxConnections \in Nat

VARIABLES held,       \* _leases: the leases that occupy a slot
          closed,     \* the leases whose _closed is set
          opening,    \* the leases whose _opening is set
          stored,     \* the leases whose _channel is set
          relay, worker, channel,
          closing,    \* what the event loop has still to do to the lease it closes
          tunnel,     \* "open", "closing" or "closed"
          todo        \* the leases aclose has still to close

\* No lease is being closed: none is marked, to be dropped or to be released.
Idle == [marked |-> {}, drop |-> {}, release |-> {}]

leaseVars == <<closed, opening, stored>>
vars == <<held, closed, opening, stored, relay, worker, channel, closing, tunnel, todo>>

Init ==
  /\ held = {} /\ closed = {} /\ opening = {} /\ stored = {}
  /\ relay = [c \in Conns |-> "none"] /\ worker = [c \in Conns |-> "none"]
  /\ channel = [c \in Conns |-> "none"]
  /\ closing = Idle /\ tunnel = "open" /\ todo = {}

\* The event loop is not in the middle of a synchronous stretch.
LoopFree == closing = Idle /\ tunnel # "closing"

-----------------------------------------------------------------------------
(* The worker: _ChannelLease.open, in a thread of the executor. *)

Connect(c) ==
  /\ worker[c] = "queued"
  /\ worker' = [worker EXCEPT ![c] = "connecting"]
  /\ UNCHANGED <<held, leaseVars, relay, channel, closing, tunnel, todo>>

Connected(c) ==
  /\ worker[c] = "connecting"
  /\ \/ /\ worker' = [worker EXCEPT ![c] = "connected"]
        /\ channel' = [channel EXCEPT ![c] = "open"]
     \/ worker' = [worker EXCEPT ![c] = "failed"] /\ UNCHANGED channel
  /\ UNCHANGED <<held, leaseVars, relay, closing, tunnel, todo>>

\* Mutant: the channel is handed over to a lease that is closed.
BuggyHandOver(c) ==
  /\ worker[c] = "connected"
  /\ stored' = stored \cup {c} /\ opening' = opening \ {c}
  /\ worker' = [worker EXCEPT ![c] = "done"]
  /\ UNCHANGED <<held, closed, relay, channel, closing, tunnel, todo>>

\* The lease takes the channel, unless it was closed in the meantime.
HandOver(c) ==
  /\ worker[c] = "connected"
  /\ IF c \notin closed
       THEN /\ stored' = stored \cup {c} /\ opening' = opening \ {c}
            /\ worker' = [worker EXCEPT ![c] = "done"]
       ELSE worker' = [worker EXCEPT ![c] = "disposing"] /\ UNCHANGED <<stored, opening>>
  /\ UNCHANGED <<held, closed, relay, channel, closing, tunnel, todo>>

Dispose(c) ==
  /\ worker[c] = "disposing"
  /\ channel' = [channel EXCEPT ![c] = "closed"]
  /\ opening' = opening \ {c}
  /\ worker' = [worker EXCEPT ![c] = "releasing"]
  /\ UNCHANGED <<held, closed, stored, relay, closing, tunnel, todo>>

\* Mutant: a failed open leaves the slot to whoever closed the lease.
BuggyFailedOpen(c) ==
  /\ worker[c] = "failed"
  /\ opening' = opening \ {c}
  /\ worker' = [worker EXCEPT ![c] = "done"]
  /\ UNCHANGED <<held, closed, stored, relay, channel, closing, tunnel, todo>>

FailedOpen(c) ==
  /\ worker[c] = "failed"
  /\ opening' = opening \ {c}
  /\ worker' = [worker EXCEPT ![c] = IF c \in closed THEN "releasing" ELSE "done"]
  /\ UNCHANGED <<held, closed, stored, relay, channel, closing, tunnel, todo>>

WorkerReleases(c) ==
  /\ worker[c] = "releasing"
  /\ held' = held \ {c}
  /\ worker' = [worker EXCEPT ![c] = "done"]
  /\ UNCHANGED <<leaseVars, relay, channel, closing, tunnel, todo>>

-----------------------------------------------------------------------------
(* _ChannelLease.close, on the event loop. *)

\* Mutant: the slot of a lease is released though its worker is still opening.
BuggyMark(c) ==
  /\ closed' = closed \cup {c} /\ stored' = stored \ {c}
  /\ closing' = IF c \in closed THEN Idle
                ELSE [marked |-> {c}, drop |-> {c} \cap stored, release |-> {c}]

\* Under its lock the lease is marked and its channel taken.
Mark(c) ==
  /\ closed' = closed \cup {c} /\ stored' = stored \ {c}
  /\ closing' = IF c \in closed THEN Idle
                ELSE [marked |-> {c}, drop |-> {c} \cap stored, release |-> {c} \ opening]

\* The channel is closed, then the slot released unless a worker owns it.
FinishClose ==
  /\ closing.marked # {}
  /\ channel' = [c \in Conns |-> IF c \in closing.drop THEN "closed" ELSE channel[c]]
  /\ held' = held \ closing.release
  /\ closing' = Idle
  /\ UNCHANGED <<leaseVars, relay, worker, tunnel, todo>>

-----------------------------------------------------------------------------
(* The listener and the relay task of a connection. *)

\* Mutant: one connection too many.
BuggyAccept(c) ==
  /\ LoopFree /\ relay[c] = "none"
  /\ IF tunnel # "open" \/ Cardinality(held) > MaxConnections
       THEN relay' = [relay EXCEPT ![c] = "done"] /\ UNCHANGED held
       ELSE relay' = [relay EXCEPT ![c] = "new"] /\ held' = held \cup {c}
  /\ UNCHANGED <<leaseVars, worker, channel, closing, tunnel, todo>>

Accept(c) ==
  /\ LoopFree /\ relay[c] = "none"
  /\ IF tunnel # "open" \/ Cardinality(held) >= MaxConnections
       THEN relay' = [relay EXCEPT ![c] = "done"] /\ UNCHANGED held
       ELSE relay' = [relay EXCEPT ![c] = "new"] /\ held' = held \cup {c}
  /\ UNCHANGED <<leaseVars, worker, channel, closing, tunnel, todo>>

\* begin_open and the submission to the executor, which may refuse it.
BeginOpen(c) ==
  /\ LoopFree /\ relay[c] = "new"
  /\ \/ /\ c \notin closed
        /\ opening' = opening \cup {c}
        /\ worker' = [worker EXCEPT ![c] = "queued"]
        /\ relay' = [relay EXCEPT ![c] = "opening"]
     \/ relay' = [relay EXCEPT ![c] = "draining"] /\ UNCHANGED <<opening, worker>>
  /\ UNCHANGED <<held, closed, stored, channel, closing, tunnel, todo>>

\* The answer of the worker, the timeout of the wait, or its cancellation.
Opened(c) ==
  /\ LoopFree /\ relay[c] = "opening"
  /\ \/ worker[c] = "done" /\ channel[c] = "open" /\ relay' = [relay EXCEPT ![c] = "piping"]
     \/ relay' = [relay EXCEPT ![c] = "draining"]
  /\ UNCHANGED <<held, leaseVars, worker, channel, closing, tunnel, todo>>

PipeEnds(c) ==
  /\ LoopFree /\ relay[c] = "piping"
  /\ relay' = [relay EXCEPT ![c] = "draining"]
  /\ UNCHANGED <<held, leaseVars, worker, channel, closing, tunnel, todo>>

\* The pumps and the writer are finished: the relay closes its lease.
Drained(c) ==
  /\ LoopFree /\ relay[c] = "draining"
  /\ relay' = [relay EXCEPT ![c] = "done"]
  /\ Mark(c)
  /\ UNCHANGED <<held, opening, worker, channel, tunnel, todo>>

\* A task cancelled before its first step never reaches its finally.
NeverRan(c) ==
  /\ LoopFree /\ tunnel = "closed" /\ relay[c] = "new"
  /\ relay' = [relay EXCEPT ![c] = "done"]
  /\ UNCHANGED <<held, leaseVars, worker, channel, closing, tunnel, todo>>

-----------------------------------------------------------------------------
(* aclose, once: no suspension between the snapshot and the cancellations. *)

Shut ==
  /\ LoopFree /\ tunnel = "open"
  /\ tunnel' = "closing" /\ todo' = held
  /\ UNCHANGED <<held, leaseVars, relay, worker, channel, closing>>

CloseLease(c) ==
  /\ tunnel = "closing" /\ closing = Idle /\ c \in todo
  /\ todo' = todo \ {c}
  /\ Mark(c)
  /\ UNCHANGED <<held, opening, relay, worker, channel, tunnel>>

CancelTasks ==
  /\ tunnel = "closing" /\ closing = Idle /\ todo = {}
  /\ tunnel' = "closed"
  /\ UNCHANGED <<held, leaseVars, relay, worker, channel, closing, todo>>

-----------------------------------------------------------------------------
Worker(c) == \/ Connect(c) \/ Connected(c) \/ HandOver(c) \/ Dispose(c) \/ FailedOpen(c)
             \/ WorkerReleases(c)
Relay(c) == \/ Accept(c) \/ BeginOpen(c) \/ Opened(c) \/ PipeEnds(c) \/ Drained(c)
            \/ NeverRan(c)
Shutdown == CancelTasks \/ \E c \in Conns : CloseLease(c)

Next == (\E c \in Conns : Worker(c) \/ Relay(c)) \/ FinishClose \/ Shut \/ Shutdown

\* Threads run, the daemon's timeouts bound an open, and a synchronous stretch of
\* the event loop comes to its end.  Clients and aclose owe nothing.
Fairness == /\ \A c \in Conns : WF_vars(Worker(c))
            /\ WF_vars(FinishClose) /\ WF_vars(Shutdown)

Spec == Init /\ [][Next]_vars /\ Fairness

-----------------------------------------------------------------------------
TypeOK ==
  /\ held \subseteq Conns /\ Cardinality(held) <= MaxConnections
  /\ closed \subseteq Conns /\ opening \subseteq Conns
  /\ stored \subseteq Conns /\ todo \subseteq Conns
  /\ relay \in [Conns -> {"none", "new", "opening", "piping", "draining", "done"}]
  /\ worker \in [Conns -> {"none", "queued", "connecting", "connected", "failed",
                           "disposing", "releasing", "done"}]
  /\ channel \in [Conns -> {"none", "open", "closed"}]
  /\ closing \in [marked : SUBSET Conns, drop : SUBSET Conns, release : SUBSET Conns]
  /\ tunnel \in {"open", "closing", "closed"}

\* What uses the daemon on behalf of a connection: a worker that opens or disposes
\* of a channel, or an open channel.
InUse == {c \in Conns : channel[c] = "open" \/
                        worker[c] \in {"queued", "connecting", "connected", "disposing"}}

\* However late the workers are, the channels open or being opened stay within the
\* limit of the listener: a lease gives its slot back only after its channel is gone.
WithinLimit == Cardinality(InUse) <= MaxConnections

\* Somebody is bound to close every open channel: the worker that opened it, its
\* lease, or the close that took it from the lease.
NoOrphanChannel ==
  \A c \in Conns : channel[c] = "open" =>
    \/ worker[c] \in {"connected", "disposing"}
    \/ c \in stored /\ c \notin closed
    \/ c \in closing.drop

\* A slot is released once nothing on its behalf is open or being opened.
ReleasedWhenIdle ==
  [][\A c \in held : c \notin held' => c \notin InUse']_vars

\* After aclose every slot comes back and every channel is closed, though no task
\* of the tunnel runs any more.
TunnelDrains == tunnel # "open" ~> held = {} /\ \A c \in Conns : channel[c] # "open"
=============================================================================
