--------------------------- MODULE SandboxSessions ---------------------------
(***************************************************************************)
(* The sandbox of a scan (runtime/session_manager.py): how it is created,  *)
(* cached, deleted and reported, by one process of the engine and by those *)
(* that resume the scan.                                                   *)
(*                                                                         *)
(* Tasks of one event loop share it: the calls of create_or_reuse; "final",*)
(* the cleanup at the end of the scan, which is given up after a while;    *)
(* "quit", the one fired when the user leaves the interface; and "outer",  *)
(* the last one of the process.  Creating and cleaning up hold             *)
(* _CREATION_LOCK from their look into the cache to their end.  A request  *)
(* to delete is a task that outlives those who wait for it.                *)
(***************************************************************************)
EXTENDS Naturals, FiniteSets

CONSTANTS
  Starters,    \* the calls of create_or_reuse in a process
  StartFails,  \* session.start may fail after the backend made the container
  MaxBoxes,    \* containers made in a process
  MaxRuns      \* processes: the first one and those that resume

ASSUME SandboxAssumption ==
  /\ Starters \cap {"final", "quit", "outer", "none"} = {}
  /\ StartFails \in BOOLEAN /\ {MaxBoxes, MaxRuns} \subseteq Nat

VARIABLES
  headless,  \* the scan runs without an interface
  live,      \* the containers this process made that exist
  made,      \* how many it made
  lost,      \* those that it was never given a handle of
  cache,     \* _SESSION_CACHE: the bundle of the scan
  receipt,   \* _CLEANUP_RECEIPTS
  deletion,  \* _PENDING_SANDBOX_DELETES: the request that is joined
  requests,  \* the requests under way, per container
  lock,      \* _CREATION_LOCK
  at,        \* where each task is
  own,       \* the container each task works on
  record,    \* cleanup in run.json
  run        \* which process it is

vars == <<headless, live, made, lost, cache, receipt, deletion, requests, lock, at, own, record, run>>

Cleaners == {"final", "quit", "outer"}
Tasks == Starters \cup Cleaners
Boxes == 1..MaxBoxes
NoBundle == [box |-> 0, stranded |-> FALSE]
NoDeletion == [box |-> 0, state |-> "none"]

Fresh ==
  /\ live = {} /\ made = 0 /\ lost = {} /\ cache = NoBundle /\ receipt = "none"
  /\ deletion = NoDeletion /\ requests = [b \in Boxes |-> 0]
  /\ lock = "none" /\ at = [t \in Tasks |-> "idle"] /\ own = [t \in Tasks |-> 0]

Init == Fresh /\ headless \in BOOLEAN /\ record = "none" /\ run = 1

Goto(t, point) == at' = [at EXCEPT ![t] = point]
Leave(t, how) == Goto(t, how) /\ lock' = "none"
Ended(t) == at[t] \in {"ready", "ended"}

-----------------------------------------------------------------------------
(* Deleting a container. *)

\* Mutant: every caller starts a request of its own.
BuggyJoins == FALSE

Joins == deletion # NoDeletion

\* A request that is already there is joined.
Request(t, b) ==
  /\ Goto(t, IF t \in Cleaners THEN "deleting" ELSE IF cache.stranded THEN "reaping" ELSE "aborting")
  /\ own' = [own EXCEPT ![t] = b]
  /\ IF Joins THEN UNCHANGED <<deletion, requests>>
     ELSE /\ deletion' = [box |-> b, state |-> "running"]
          /\ requests' = [requests EXCEPT ![b] = @ + 1]

\* The daemon answers, or fails before or after it has removed the container.
RequestEnds(b) ==
  /\ requests[b] > 0 /\ requests' = [requests EXCEPT ![b] = @ - 1]
  /\ \E answer \in {"removed", "failed"}, gone \in BOOLEAN :
       /\ answer = "removed" => gone
       /\ live' = IF gone THEN live \ {b} ELSE live
       /\ deletion' = IF deletion.box = b THEN [deletion EXCEPT !.state = answer] ELSE deletion
  /\ UNCHANGED <<headless, made, lost, cache, receipt, lock, at, own, record, run>>

\* set_cleanup_outcome
Settled(prior, outcome) ==
  IF prior = "removed" THEN prior
  ELSE IF prior = "failed" /\ outcome # "removed" THEN prior
  ELSE outcome

Recorded(outcome) == Settled(record, outcome)

\* A cleanup answers: the end of the scan records the answer, and so does the last
\* cleanup of a headless process.
Answer(t, outcome) ==
  /\ Leave(t, "ended")
  /\ record' = IF t = "final" \/ (t = "outer" /\ headless) THEN Recorded(outcome) ELSE record

Waiting(t) == at[t] \in {"deleting", "reaping", "aborting"}

\* The deletion is confirmed. A creation that reaped goes on to create.
Confirmed(t) ==
  /\ Waiting(t) /\ deletion.state = "removed" /\ deletion' = NoDeletion
  /\ \/ /\ at[t] = "deleting" /\ Answer(t, "removed")
        /\ cache' = NoBundle /\ receipt' = "removed"
     \/ /\ at[t] = "reaping" /\ Goto(t, "creating")
        /\ cache' = NoBundle /\ receipt' = "removed" /\ UNCHANGED <<lock, record>>
     \/ at[t] = "aborting" /\ Leave(t, "ended") /\ UNCHANGED <<cache, receipt, record>>
  /\ UNCHANGED <<headless, live, made, lost, requests, own, run>>

\* Mutant: a startup that cannot delete its container forgets it.
BuggyStranded(b) == cache

Stranded(b) == [box |-> b, stranded |-> TRUE]

\* It is not: what is cached stays, and a startup caches what it could not delete.
Unconfirmed(t) ==
  /\ receipt' = "failed"
  /\ cache' = IF at[t] = "aborting" THEN Stranded(own[t]) ELSE cache
  /\ IF at[t] = "deleting" THEN Answer(t, "failed") ELSE Leave(t, "ended") /\ UNCHANGED record

Fails(t) ==
  /\ Waiting(t) /\ deletion.state = "failed" /\ deletion' = NoDeletion
  /\ Unconfirmed(t) /\ UNCHANGED <<headless, live, made, lost, requests, own, run>>

\* Who leaves before the answer leaves the request to be joined, unless it has just ended:
\* then it is dropped, but by a startup only when it failed.
Left(t) ==
  IF deletion.state = "running" \/ (deletion.state = "removed" /\ at[t] = "aborting")
    THEN deletion ELSE NoDeletion

\* The bound of the step.
TimesOut(t) ==
  /\ Waiting(t) /\ deletion.state \in {"running", "removed"} /\ deletion' = Left(t)
  /\ Unconfirmed(t) /\ UNCHANGED <<headless, live, made, lost, requests, own, run>>

-----------------------------------------------------------------------------
(* create_or_reuse *)

\* It looks into the cache under the lock. Nobody asks for a sandbox once the scan ends.
Begin(s) ==
  /\ at[s] = "idle" /\ at["final"] = "idle" /\ lock = "none"
  /\ \/ /\ cache # NoBundle /\ ~cache.stranded /\ Goto(s, "ready")
        /\ UNCHANGED <<lock, own, deletion, requests>>
     \/ cache.stranded /\ lock' = s /\ Request(s, cache.box)
     \/ /\ cache = NoBundle /\ lock' = s /\ Goto(s, "creating")
        /\ UNCHANGED <<own, deletion, requests>>
  /\ UNCHANGED <<headless, live, made, lost, cache, receipt, record, run>>

\* The backend makes a container and hands it over, or fails. A session that does not
\* start is not handed over.
Create(s) ==
  /\ at[s] = "creating"
  /\ \/ /\ made < MaxBoxes /\ made' = made + 1 /\ live' = live \cup {made + 1}
        /\ \/ Goto(s, "starting") /\ own' = [own EXCEPT ![s] = made + 1] /\ UNCHANGED <<lock, lost>>
           \/ StartFails /\ Leave(s, "ended") /\ lost' = lost \cup {made + 1} /\ UNCHANGED own
     \/ Leave(s, "ended") /\ UNCHANGED <<made, live, lost, own>>
  /\ UNCHANGED <<headless, cache, receipt, deletion, requests, record, run>>

\* The rest of the startup succeeds, or fails or is cancelled and owns the deletion.
Start(s) ==
  /\ at[s] = "starting"
  /\ \/ /\ Leave(s, "ready") /\ cache' = [box |-> own[s], stranded |-> FALSE]
        /\ UNCHANGED <<own, deletion, requests>>
     \/ Request(s, own[s]) /\ UNCHANGED <<lock, cache>>
  /\ UNCHANGED <<headless, live, made, lost, receipt, record, run>>

\* Cancelled while it waits for the deletion, a reaping tells nobody.
CancelStart(s) ==
  /\ at[s] \in {"reaping", "aborting"} /\ deletion' = Left(s)
  /\ IF at[s] = "aborting" THEN Unconfirmed(s)
     ELSE Leave(s, "ended") /\ UNCHANGED <<cache, receipt, record>>
  /\ UNCHANGED <<headless, live, made, lost, requests, own, run>>

-----------------------------------------------------------------------------
(* cleanup *)

\* When the cleanups come: at the end of a scan that had its sandbox; any time in the
\* interface; and when everything else is over.
Due(t) ==
  CASE t = "final" -> \E s \in Starters : at[s] = "ready"
    [] t = "quit" -> ~headless
    [] t = "outer" -> /\ \A s \in Starters : Ended(s) \/ Ended("final")
                      /\ (\E s \in Starters : at[s] = "ready") => Ended("final")

\* Without a bundle the answer is that of the last cleanup.
Clean(t) ==
  /\ at[t] = "idle" /\ Due(t) /\ lock = "none"
  /\ IF cache = NoBundle
       THEN Answer(t, IF receipt = "none" THEN "not_found" ELSE receipt) /\ UNCHANGED own
       ELSE Goto(t, "closing") /\ lock' = t /\ own' = [own EXCEPT ![t] = cache.box] /\ UNCHANGED record
  /\ UNCHANGED <<headless, live, made, lost, cache, receipt, deletion, requests, run>>

\* The transport of the proxy is closed, whether that fails or not.
Close(t) ==
  /\ at[t] = "closing" /\ Request(t, own[t])
  /\ UNCHANGED <<headless, live, made, lost, cache, receipt, lock, record, run>>

\* The end of the scan gives its cleanup up, wherever that is, even before it has the lock.
GiveUp ==
  /\ Due("final") /\ ~Ended("final")
  /\ receipt' = IF at["final"] = "idle" THEN receipt ELSE "failed"
  /\ Goto("final", "ended") /\ lock' = IF lock = "final" THEN "none" ELSE lock
  /\ record' = Recorded("failed")
  /\ deletion' = IF at["final"] = "deleting" THEN Left("final") ELSE deletion
  /\ UNCHANGED <<headless, live, made, lost, cache, requests, own, run>>

\* The process ends, or is killed, and the scan is resumed by another one.
Resume ==
  /\ run < MaxRuns /\ run' = run + 1
  /\ live' = {} /\ made' = 0 /\ lost' = {} /\ cache' = NoBundle /\ receipt' = "none"
  /\ deletion' = NoDeletion /\ requests' = [b \in Boxes |-> 0]
  /\ lock' = "none" /\ at' = [t \in Tasks |-> "idle"] /\ own' = [t \in Tasks |-> 0]
  /\ UNCHANGED <<headless, record>>

-----------------------------------------------------------------------------
Next ==
  \/ \E b \in Boxes : RequestEnds(b)
  \/ \E t \in Tasks : Confirmed(t) \/ Fails(t) \/ TimesOut(t)
  \/ \E s \in Starters : Begin(s) \/ Create(s) \/ Start(s) \/ CancelStart(s)
  \/ \E t \in Cleaners : Clean(t) \/ Close(t)
  \/ GiveUp \/ Resume

Spec == Init /\ [][Next]_vars

-----------------------------------------------------------------------------
\* A container that was handed over and exists is known to the one who is creating it,
\* or is in the cache where a later creation or cleanup finds it; and there is never a
\* second one.
OwnedSandboxes ==
  /\ Cardinality(live \ lost) <= 1
  /\ \A b \in live \ lost : cache.box = b \/ \E s \in Starters : lock = s /\ own[s] = b

\* However many give up and try again, a container has one request to delete it.
OneDeletion == \A b \in Boxes : requests[b] <= 1

\* A headless process that is through.
Through == headless /\ Ended("outer")

\* What it leaves behind its last cleanup has answered to be there, though it may have
\* found nothing to delete itself.
StrandedIsKnown == Through /\ live \ lost # {} => receipt = "failed"

\* And it has said so in run.json, where the worker looks.
StrandedIsReported == Through /\ live \ lost # {} => record = "failed"
=============================================================================
