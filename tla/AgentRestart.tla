---------------------------- MODULE AgentRestart ----------------------------
(***************************************************************************)
(* The agents of AgentLoop over a snapshot that outlives the process:      *)
(* every operation of the coordinator writes agents.json before it returns *)
(* (_maybe_snapshot, which has no suspension of its own), the process may  *)
(* die between any two steps, and --resume rebuilds the graph from the     *)
(* file (lifecycle/restore.py) and starts the agents again                 *)
(* (respawn_subagents, start_parked).  A scan that came to its end may be  *)
(* resumed too.  A write of the snapshot is assumed not to fail: the code  *)
(* logs the failure and goes on with the older file.                       *)
(***************************************************************************)
EXTENDS AgentLoop

CONSTANT MaxRestarts
ASSUME RestartAssumption == MaxRestarts \in Nat

VARIABLES disk,   \* what agents.json says
          lives   \* restarts so far

world == <<graph, end, disk, lives>>

-----------------------------------------------------------------------------
(* What a step leaves on disk. *)

\* Mutant: the turns of an agent are not saved.
BuggyKept(g) ==
  [status |-> g.status, kind |-> g.kind, gate |-> g.gate, mail |-> g.mail, pend |-> g.pend,
   recov |-> g.recov, idle |-> g.idle, turns |-> Zero, stopped |-> g.stopped, paused |-> g.paused]

\* AgentCoordinator.snapshot, the flags that restore recomputes left out.
Kept(g) ==
  [status |-> g.status, kind |-> g.kind, gate |-> g.gate, mail |-> g.mail, pend |-> g.pend,
   recov |-> g.recov, idle |-> g.idle, turns |-> g.turns, stopped |-> g.stopped, paused |-> g.paused]

Appending == {"draining", "taking_user", "taking_agents", "took"}

\* Two changes are not written by the operation that makes them: mail just taken for
\* the session, and mark_running's return to the pause.
Unsaved(g, h) ==
  LET taken(a) == h.at[a] \in Appending /\ h.at[a] # g.at[a]
      held(a) == g.paused /\ h.at[a] = "ready" /\ g.at[a] \in Appending
  IN  [h EXCEPT !.mail = [a \in Agents |-> @[a] \/ taken(a)],
                !.pend = [a \in Agents |-> @[a] \/ (taken(a) /\ (g.pend[a] \/ g.at[a] = "dozing"))],
                !.status = [a \in Agents |-> IF held(a) THEN g.status[a] ELSE @[a]]]

\* Mutant: the snapshot is left for a later operation to write.
BuggySaves == disk' \in {disk, Kept(Unsaved(graph, graph'))}

\* A step that changed something has written it. One that changed nothing may have
\* written what there was, or nothing.
Saves ==
  LET now == Kept(Unsaved(graph, graph'))
  IN  disk' \in IF now = Kept(graph) THEN {disk, now} ELSE {now}

-----------------------------------------------------------------------------
(* --resume. *)

\* reset_budget_stops
Reset(statuses, paused) ==
  [a \in Agents |-> IF ~paused /\ statuses[a] = "budget_paused" THEN "waiting" ELSE statuses[a]]

\* Mutant: the pause is taken from the ledger alone.
BuggyPausedAgain(spent) == Interactive /\ spent = "budget"

\* An interactive scan was paused, or pauses where the headless one stops.
PausedAgain(spent) == Interactive /\ (disk.paused \/ spent = "budget")

\* restore and restore_coordinator: spent is what the ledger has reached, "below",
\* the "reserve" or the whole "budget" (which may have been raised since).
Restored(spent) ==
  LET statuses == [a \in Agents |-> IF disk.stopped[a] THEN "stopped" ELSE disk.status[a]]
  IN  [Blank EXCEPT
         !.status = Reset(statuses, PausedAgain(spent)), !.wake = disk.stopped, !.kind = disk.kind,
         !.gate = disk.gate, !.mail = disk.mail, !.pend = disk.pend, !.recov = disk.recov,
         !.idle = disk.idle, !.turns = disk.turns, !.stopped = disk.stopped,
         !.paused = PausedAgain(spent), !.bstop = ~Interactive /\ spent = "budget",
         !.rstop = ~Interactive /\ spent # "below",
         !.at = [a \in Agents |-> "none"], !.parks = [a \in Agents |-> TRUE]]

\* _start_child_runner and run_root_agent: an interactive agent that was not running
\* starts parked.
Started(g, a) ==
  [g EXCEPT !.at[a] = IF Interactive /\ g.status[a] # "running" THEN "check" ELSE "enter",
            !.parks[a] = Interactive]

\* A headless scan starts only the children that were at work.
Respawns(g, a) == g.status[a] \in (IF Interactive THEN Statuses \ {"none"} ELSE Active)

\* respawn_subagents: a child that cannot be started is marked crashed.
Respawn(g, a, broken) ==
  IF a = Root \/ ~Respawns(g, a) THEN g
  ELSE IF a \in broken THEN SetStatus(g, a, "crashed") ELSE Started(g, a)

Respawned(g, broken) ==
  LET respawned[n \in 0..Len(Line)] ==
        IF n = 0 THEN g ELSE Respawn(respawned[n - 1], Line[n], broken)
  IN  respawned[Len(Line)]

\* The process died, or was done, and the scan is resumed: the children first, then
\* the user's instruction if there is one, then the root.
Restart ==
  /\ lives < MaxRestarts /\ lives' = lives + 1
  /\ \E spent \in {"below", "reserve", "budget"}, instructed \in BOOLEAN, broken \in SUBSET Children :
       LET g == Respawned(Restored(spent), broken)
       IN  graph' = Started(IF instructed THEN Send(g, Root, TRUE) ELSE g, Root)
  /\ end' = "no"
  /\ disk' = Kept(graph')

-----------------------------------------------------------------------------
RestartInit == Init /\ disk = Kept(graph) /\ lives = 0

Saved(Step) == Step /\ Saves /\ UNCHANGED lives

RestartNext == Saved(Next) \/ Restart

RestartFairness ==
  /\ \A a \in Agents : WF_world(Saved(Task(a))) /\ WF_world(Saved(Clock(a)))
  /\ WF_world(Saved(Ending))

RestartSpec == RestartInit /\ [][RestartNext]_world /\ RestartFairness

-----------------------------------------------------------------------------
\* No restart gives an agent back a turn of its allowance, and none starts an agent
\* again that the operator or its parent stopped.
RestartsForgetNothing ==
  [][\A a \in Agents :
       /\ graph'.turns[a] >= graph.turns[a]
       /\ graph.stopped[a] => graph'.status[a] = "stopped" /\ graph'.turns[a] = graph.turns[a]]_world

\* Nothing but the operator lifts the pause of an interactive scan, a restart least.
OnlyOperatorResumes ==
  [][Interactive /\ graph.paused /\ ~graph'.paused => OperatorResume]_world

\* Mail that was accepted and that nobody has begun to read is on disk.
MailOnDisk == \A a \in Agents : graph.mail[a] /\ graph.pend[a] => disk.mail[a]

\* send returns FALSE when nothing will ever read the message.
AcceptedMailHasAReader ==
  [][\A a \in Agents : lives' = lives /\ graph'.mail[a] /\ ~graph.mail[a] => graph'.at[a] # "none"]_world

\* "Resume ... once the limit clears": a headless scan that was stopped by the
\* provider's rate limit with turns left, and is resumed, calls the model again before
\* its root returns.
ResumedScanRuns ==
  \A t \in 0..TurnLimit - 1 :
    [](end = "over" /\ graph.status[Root] = "stopped" /\ ~graph.bstop /\ graph.turns[Root] = t
         => [](end = "no" /\ graph.at[Root] = "gone" /\ ~graph.stopped[Root]
                 => graph.turns[Root] > t))
=============================================================================
