------------------------------ MODULE AgentLoop ------------------------------
(***************************************************************************)
(* The tasks that drive the agents (lifecycle/execution.py), the lifecycle *)
(* tools their models call, the operator, and the end of the scan, over    *)
(* the graph of AgentGraph.  A step runs a task from one suspension to the *)
(* next; graph.at[a] is the suspension point:                              *)
(*   enter      run_agent_loop is storing the first input                  *)
(*   draining   the mail is being appended to the session before a cycle   *)
(*   nudging    a tool-required message is being appended                  *)
(*   prep       the session is being prepared, no stream exists yet        *)
(*   ready      between two model calls of a run   call  a call in flight  *)
(*   act        the response was accepted, its tool runs                   *)
(*   finishing  finish_scan is writing the report in a thread              *)
(*   taking_*   a tool is appending the mail; took: after a headless wait  *)
(*   blocked    a headless wait_for_agents                                 *)
(*   ended      the run is over    salvaging  a failed run is being stored *)
(*   check      between cycles     asleep, dozing  in wait_for_message,    *)
(*              without and with a timer                                   *)
(*   gone, raised  the task returned, the root's loop raised               *)
(*   cancelled  the root was cancelled at the deadline                     *)
(***************************************************************************)
EXTENDS AgentGraph

VARIABLES graph,
          end     \* the end of the scan: "no", "cancelling" the children, "over", or
                  \* "abandoned" by a runner that was itself cancelled

vars == <<graph, end>>

Points == {"none", "enter", "draining", "nudging", "prep", "ready", "call", "act",
           "finishing", "taking_user", "taking_agents", "took", "blocked", "ended",
           "salvaging_failed", "salvaging_crashed", "salvaging_stopped", "check", "asleep", "dozing",
           "gone", "raised", "cancelled"}
Done == {"gone", "raised", "cancelled"}

Init == graph = Blank /\ end = "no"

At(g, a, point) == [g EXCEPT !.at[a] = point]

\* An exception that leaves the loop ends a child's task and the root's scan.
Raise(g, a) == At(g, a, IF a = Root THEN "raised" ELSE "gone")
Quit(g, a) == Raise(SetStatus(g, a, "stopped"), a)
Return(g, a) == At(g, a, IF Interactive THEN "check" ELSE "gone")
PauseAt(g, a) == At(PauseForBudget(g, a, TRUE), a, "check")

-----------------------------------------------------------------------------
(* One cycle of _run_until_lifecycle. *)

\* What follows when a run is over: the cycle returns, or is nudged.
AfterCycle(g, a) ==
  IF g.status[a] # "running" THEN Return(ResetRecovery(g, a), a)
  ELSE LET h == [g EXCEPT !.recov[a] = @ + 1]
       IN  IF h.recov[a] < RecoveryLimit THEN At(h, a, "nudging")
           ELSE IF a # Root THEN Return(NotifyTerminal(SetStatus(h, a, "crashed"), a), a)
           ELSE IF Interactive THEN Return(Park(h, a, "stalled"), a)
           ELSE Raise(SetStatus(h, a, "crashed"), a)

\* The head of a cycle: mark_running, unless it was stopped meanwhile.
Start(g, a) ==
  IF g.status[a] = "stopped" THEN AfterCycle(g, a)
  ELSE IF Interactive /\ g.paused THEN PauseAt(MarkRunning(g, a), a)
  ELSE At(MarkRunning(g, a), a, "prep")

Drive(g, a) ==
  IF g.bstop \/ (g.rstop /\ a # Root) THEN Quit(g, a)
  ELSE IF Interactive /\ g.paused THEN PauseAt(g, a)
  ELSE Start(g, a)

\* A run that failed with an error. A headless root fails with it, unless the
\* provider refused the request.
Fail(g, a, s) == AfterCycle(NotifyTerminal(SetStatus(g, a, s), a), a)
Settle(g, a, s) == IF a = Root /\ ~Interactive THEN Raise(g, a) ELSE Fail(g, a, s)

\* consume_pending, then what follows. Nothing is appended for an empty mailbox.
Drain(g, a, busy, then) == IF g.mail[a] THEN At(TakeMail(g, a), a, busy) ELSE then

Enter(a) ==
  /\ graph.at[a] = "enter"
  /\ graph' = IF graph.bstop \/ (graph.rstop /\ a # Root) THEN Quit(graph, a)
              ELSE IF Interactive /\ graph.paused THEN PauseAt(graph, a)
              ELSE Drain(graph, a, "draining", Drive(graph, a))

\* The append succeeds, or the mail goes back and the cycle runs without it.
Drained(a) ==
  /\ graph.at[a] = "draining"
  /\ \E g \in {graph, ReturnMail(graph, a)} : graph' = Drive(g, a)

\* The append succeeds, or its exception leaves the loop.
Nudged(a) ==
  /\ graph.at[a] = "nudging"
  /\ graph' \in {Drive(graph, a), Raise(graph, a)}

\* The budget has no room for a call, or a call has used it up.
OutOfBudget(g, a) ==
  IF Interactive THEN PauseAt(g, a)
  ELSE Raise(TriggerBudgetStop(SetStatus(g, a, "stopped")), a)

\* The stream is created, of an agent that was not stopped or paused meanwhile.
Attach(a) ==
  /\ graph.at[a] = "prep"
  /\ graph' = IF graph.status[a] = "stopped" THEN AfterCycle(graph, a)
              ELSE IF Interactive /\ graph.paused THEN PauseAt(graph, a)
              ELSE At(graph, a, "ready")

\* A model call. The turn is claimed before the budget is asked.
Claimed(g, a) == [g EXCEPT !.turns[a] = @ + 1]

\* Mutant: the pause is not looked at before a model call.
BuggyStartTurn(a) ==
  /\ graph.at[a] = "ready"
  /\ graph' = IF graph.status[a] = "stopped" THEN At(graph, a, "ended")
              ELSE IF graph.turns[a] = TurnLimit THEN At(graph, a, "salvaging_stopped")
              ELSE At(Claimed(graph, a), a, "call")

\* Mutant: one turn too many.
BuggyTurns(a) ==
  /\ graph.at[a] = "ready"
  /\ graph' = IF graph.status[a] = "stopped" THEN At(graph, a, "ended")
              ELSE IF Interactive /\ graph.paused THEN PauseAt(graph, a)
              ELSE IF graph.turns[a] > TurnLimit THEN At(graph, a, "salvaging_stopped")
              ELSE At(Claimed(graph, a), a, "call")

\* A stop cancels the stream after its turn: no other turn begins. None does after the
\* deadline either.
StartTurn(a) ==
  /\ graph.at[a] = "ready"
  /\ \/ graph.status[a] = "stopped" /\ graph' = At(graph, a, "ended")
     \/ /\ graph.status[a] # "stopped"
        /\ graph' \in IF Interactive /\ graph.paused THEN {PauseAt(graph, a)}
                      ELSE IF graph.clock \in {"past", "fired"} THEN {At(graph, a, "salvaging_crashed")}
                      ELSE IF graph.turns[a] = TurnLimit THEN {At(graph, a, "salvaging_stopped")}
                      ELSE {At(Claimed(graph, a), a, "call"), OutOfBudget(Claimed(graph, a), a)}

BudgetReached(a) == graph.at[a] = "call" /\ graph' = OutOfBudget(graph, a)

\* A headless child may not spend the reserve of the root.
ReserveReached(a) ==
  /\ graph.at[a] = "call" /\ a # Root /\ ~Interactive
  /\ graph' = Raise(ClaimReserve(SetStatus(graph, a, "stopped")), a)

\* Spend only grows, so after one child reached the reserve every child does.
Answered(a) ==
  /\ graph.at[a] = "call" /\ (graph.rstop => a = Root)
  /\ graph' \in {At(graph, a, "act"), At(graph, a, "ended")}

CallFails(a) ==
  /\ graph.at[a] = "call"
  /\ graph' \in {At(graph, a, "salvaging_failed"), At(graph, a, "salvaging_crashed"),
                 Start(graph, a)}

\* run_root_agent: after a model error of a headless root the delegate model runs its
\* loop once more, over the same session, mailbox and children.
TakenOver(g, a) ==
  IF a = Root /\ ~Interactive /\ ~g.delegate
    THEN {At([g EXCEPT !.delegate = TRUE], a, "enter")} ELSE {}

Salvaged(a) ==
  \/ /\ graph.at[a] = "salvaging_failed"
     /\ graph' \in {Settle(graph, a, "failed"), Fail(graph, a, "failed")} \cup TakenOver(graph, a)
  \/ graph.at[a] = "salvaging_crashed" /\ graph' = Settle(graph, a, "crashed")
  \/ graph.at[a] = "salvaging_stopped" /\ graph' = Settle(graph, a, "stopped")

EndCycle(a) == graph.at[a] = "ended" /\ graph' = AfterCycle(graph, a)

-----------------------------------------------------------------------------
(* The tools a model calls. *)

UseTool(a) == graph.at[a] = "act" /\ graph' = At(graph, a, "ready")

CreateAgent(a) ==
  /\ graph.at[a] = "act" /\ ~WrappingUp(graph)
  /\ \E b \in Children :
       /\ Parent[b] = a /\ graph.status[b] = "none"
       /\ graph' = At(Register(graph, b), a, "ready")

SendMessage(a) ==
  /\ graph.at[a] = "act"
  /\ \E b \in Agents \ {a} :
       graph.status[b] # "none" /\ graph' = SendNow(At(graph, a, "ready"), b, FALSE)

\* With everything the other has spawned, or alone (cascade=False).
StopAgent(a) ==
  /\ graph.at[a] = "act"
  /\ \E b \in Agents \ {a} :
       /\ graph.status[b] \in Active
       /\ graph' \in {StopTree(At(graph, a, "ready"), b), RequestStop(At(graph, a, "ready"), b, FALSE)}

AgentFinish(a) ==
  /\ graph.at[a] = "act" /\ a # Root
  /\ \E report \in BOOLEAN :
       graph' = At(SetStatus(IF report THEN Report(graph, a) ELSE graph, a, "completed"),
                   a, "ended")

ActiveOthers(g, a) == {b \in Agents \ {a} : g.status[b] \in Active}

\* Mutant: the root finishes whoever is still at work.
BuggyFinishScan(a) ==
  \/ graph.at[a] = "act" /\ a = Root /\ graph' = At(graph, a, "finishing")
  \/ /\ graph.at[a] = "finishing"
     /\ graph' = At(SetStatus(graph, a, "completed"), a, "ended")

\* The report is written in a thread, after the check for active agents.
FinishScan(a) ==
  \/ /\ graph.at[a] = "act" /\ a = Root
     /\ graph' = At(graph, a, IF ActiveOthers(graph, a) = {} \/ graph.rstop
                                THEN "finishing" ELSE "ready")
  \/ /\ graph.at[a] = "finishing"
     /\ graph' \in {At(SetStatus(graph, a, "completed"), a, "ended"),
                    At(graph, a, "ready")}

RespondToUser(a) ==
  /\ graph.at[a] = "act" /\ Interactive
  /\ graph' = IF graph.status[a] = "stopped" THEN At(graph, a, "ready")
              ELSE Drain(graph, a, "taking_user", At(Park(graph, a, "user"), a, "ended"))

Resumed(g, a) == At(MarkRunning(g, a), a, "ready")

\* wait_for_message has returned to a headless wait_for_agents.
Woken(g, a) ==
  IF g.status[a] = "stopped" THEN At(g, a, "ready") ELSE Drain(g, a, "took", Resumed(g, a))

\* Nothing to read: an interactive agent parks, a headless one waits in the tool.
Block(g, a) ==
  IF Interactive THEN At(Park(g, a, "agents"), a, "ended")
  ELSE IF ActiveOthers(g, a) = {} \/ WrappingUp(g) THEN At(g, a, "ready")
  ELSE LET h == Park(g, a, "agents")
       IN  IF Ready(h, a) THEN Woken(h, a) ELSE At([h EXCEPT !.wake[a] = FALSE], a, "blocked")

WaitForAgents(a) ==
  /\ graph.at[a] = "act"
  /\ graph' = IF graph.status[a] = "stopped" THEN At(graph, a, "ready")
              ELSE Drain(graph, a, "taking_agents", Block(graph, a))

\* The tool's append succeeds, or the tool goes on as if there were no mail.
Taken(a) ==
  \/ /\ graph.at[a] \in {"taking_user", "taking_agents", "took"}
     /\ graph' = Resumed(graph, a)
  \/ /\ graph.at[a] = "taking_user"
     /\ graph' = At(Park(ReturnMail(graph, a), a, "user"), a, "ended")
  \/ graph.at[a] = "taking_agents" /\ graph' = Block(ReturnMail(graph, a), a)
  \/ graph.at[a] = "took" /\ graph' = Resumed(ReturnMail(graph, a), a)

BlockedWakes(a) ==
  /\ graph.at[a] = "blocked" /\ graph.wake[a]
  /\ graph' = IF Ready(graph, a) THEN Woken(graph, a)
              ELSE [graph EXCEPT !.wake[a] = FALSE]

\* Mutant: the timeout arms the wait again.
BuggyBlockedTimesOut(a) ==
  graph.at[a] = "blocked" /\ graph' = [graph EXCEPT !.wake[a] = FALSE]

BlockedTimesOut(a) == graph.at[a] = "blocked" /\ graph' = Resumed(graph, a)

-----------------------------------------------------------------------------
(* The loop of an interactive agent between its cycles. *)

Timed(g, a) ==
  g.status[a] = "waiting" /\ ~g.gate[a] /\ g.kind[a] = "agents" /\ g.idle[a] < IdleLimit

Sleep(g, a) ==
  At([g EXCEPT !.wake[a] = FALSE], a, IF Timed(g, a) /\ ~g.paused THEN "dozing" ELSE "asleep")

Continue(g, a) == IF Ready(g, a) THEN At(g, a, "check") ELSE Sleep(g, a)

NextCycle(g, a) == Drain(g, a, "draining", Drive(g, a))

\* wait_for_message returned: a message (or a stop) if woke, otherwise the timer.
Dispatch(g, a, woke) ==
  IF g.status[a] = "stopped" THEN At(g, a, "gone")
  ELSE IF g.bstop \/ (g.rstop /\ a # Root) THEN Quit(g, a)
  ELSE IF g.paused THEN Continue(IF g.status[a] \in Active
                                   THEN PauseForBudget(g, a, FALSE) ELSE g, a)
  ELSE IF g.status[a] = "budget_paused" THEN Continue(g, a)
  ELSE IF g.status[a] \notin Active THEN At(g, a, "gone")
  ELSE IF woke THEN NextCycle([g EXCEPT !.recov[a] = 0, !.idle[a] = 0], a)
  ELSE LET h == [g EXCEPT !.idle[a] = @ + 1]
       IN  IF h.idle[a] >= IdleLimit THEN Continue(NotifyStall(Park(h, a, "stalled"), a), a)
           ELSE NextCycle(Send(h, a, FALSE), a)

Check(a) ==
  /\ graph.at[a] = "check"
  /\ graph' = IF Ready(graph, a) THEN Dispatch(graph, a, TRUE) ELSE Sleep(graph, a)

\* A spurious wake-up keeps the timer the wait began with.
Wake(a) ==
  /\ graph.at[a] \in {"asleep", "dozing"} /\ graph.wake[a]
  /\ graph' = IF Ready(graph, a) THEN Dispatch(graph, a, TRUE)
              ELSE [graph EXCEPT !.wake[a] = FALSE]

TimesOut(a) ==
  /\ graph.at[a] = "dozing" /\ ~graph.paused
  /\ graph' = Dispatch(graph, a, FALSE)

-----------------------------------------------------------------------------
(* The operator, and the end of the scan. *)

UserMessage(a) ==
  /\ Interactive /\ end # "over" /\ Accepts(graph, a, TRUE)
  /\ graph' = SendNow(graph, a, TRUE) /\ UNCHANGED end

OperatorStop(a) ==
  /\ Interactive /\ end # "over" /\ graph.status[a] # "none"
  /\ graph' = StopTree(graph, a) /\ UNCHANGED end

OperatorResume ==
  /\ Interactive /\ end # "over" /\ CanResume(graph)
  /\ graph' = ResumeAll(graph) /\ UNCHANGED end

\* The root's loop is over: the runner cancels what is left of the scan.
RootEnds ==
  /\ end = "no" /\ graph.at[Root] \in Done
  /\ graph' = [graph EXCEPT !.closing = @ \/ graph.at[Root] = "gone"]
  /\ end' = "cancelling"

\* A cancelled task keeps a terminal status; one parked in its loop just returns.
CancelChild(a) ==
  /\ end \in {"cancelling", "abandoned"} /\ a # Root /\ graph.at[a] \notin {"none", "gone"}
  /\ graph' = At(IF graph.at[a] \in {"check", "asleep", "dozing"} THEN graph
                 ELSE RequestStop(graph, a, TRUE), a, "gone")
  /\ UNCHANGED end

\* Mutant: only the root is settled.
BuggyScanOver ==
  /\ end = "cancelling"
  /\ \A a \in Children : graph.at[a] \in {"none", "gone"}
  /\ graph' = SetStatus(graph, Root, "stopped")
  /\ end' = "over"

\* What no task settled is settled for it.
ScanOver ==
  /\ end = "cancelling"
  /\ \A a \in Children : graph.at[a] \in {"none", "gone"}
  /\ LET swept == [graph EXCEPT !.status = [a \in Agents |->
                     IF a # Root /\ @[a] \in Active THEN "stopped" ELSE @[a]]]
     IN  graph' \in IF graph.at[Root] = "cancelled" THEN {SetStatus(swept, Root, "failed")}
                    ELSE IF graph.at[Root] = "raised"
                      THEN {SetStatus(swept, Root, s) : s \in {"stopped", "failed"}}
                    ELSE IF graph.status[Root] \in Active
                      THEN {SetStatus(swept, Root, "completed")} ELSE {swept}
  /\ end' = "over"

(* The runtime allowance of a headless scan (deadline.py, run_cli). *)

Running == ~Interactive /\ end \in {"no", "cancelling"}
ClockTo(time) == [graph EXCEPT !.clock = time]

WrapUp == Running /\ graph.clock = "early" /\ graph' = ClockTo("wrap") /\ UNCHANGED end

\* The agents are told in turn.
WrapSent(g) ==
  LET sent[n \in 0..Len(Line)] == IF n = 0 THEN g ELSE SendWrap(sent[n - 1], Line[n])
  IN  sent[Len(Line)]

NotifyWrap ==
  /\ Running /\ graph.clock = "wrap"
  /\ graph' = WrapSent(ClockTo("told")) /\ UNCHANGED end

Expires == Running /\ graph.clock \in {"wrap", "told"} /\ graph' = ClockTo("past") /\ UNCHANGED end

\* The timeout cancels the runner: in the root's loop or behind it, which is settled as
\* a failure, or while it settles another failure, which it then leaves as it is.
HardStop ==
  /\ Running /\ graph.clock = "past"
  /\ \/ /\ end = "no" => graph.at[Root] # "raised"
        /\ graph' = At(ClockTo("fired"), Root, "cancelled") /\ UNCHANGED end
     \/ /\ end = "cancelling" /\ graph.at[Root] = "raised"
        /\ graph' = ClockTo("fired") /\ end' = "abandoned"

Over ==
  /\ end = "over" \/ (end = "abandoned" /\ \A a \in Children : graph.at[a] \in {"none", "gone"})
  /\ UNCHANGED vars

-----------------------------------------------------------------------------
Turn(a) == \/ Attach(a) \/ StartTurn(a) \/ BudgetReached(a) \/ ReserveReached(a) \/ Answered(a)
           \/ CallFails(a) \/ Salvaged(a) \/ EndCycle(a)
Tool(a) == \/ UseTool(a) \/ CreateAgent(a) \/ SendMessage(a) \/ StopAgent(a)
           \/ AgentFinish(a) \/ FinishScan(a) \/ RespondToUser(a) \/ WaitForAgents(a)
           \/ Taken(a) \/ BlockedWakes(a)
Loop(a) == Enter(a) \/ Drained(a) \/ Nudged(a) \/ Check(a) \/ Wake(a)
Timer(a) == BlockedTimesOut(a) \/ TimesOut(a)

Task(a) == (end = "no" \/ a = Root) /\ (Loop(a) \/ Turn(a) \/ Tool(a)) /\ UNCHANGED end
Clock(a) == (end = "no" \/ a = Root) /\ Timer(a) /\ UNCHANGED end
Deadline == WrapUp \/ NotifyWrap \/ Expires \/ HardStop
Ending == RootEnds \/ (\E a \in Agents : CancelChild(a)) \/ ScanOver

Next == \/ \E a \in Agents : Task(a) \/ Clock(a) \/ UserMessage(a) \/ OperatorStop(a)
        \/ OperatorResume \/ Deadline \/ Ending \/ Over

\* The event loop runs every task that can run, timers fire, a model call and a
\* tool return, and the runner ends the scan. The operator owes nothing.
Fairness == /\ \A a \in Agents : WF_vars(Task(a)) /\ WF_vars(Clock(a))
            /\ WF_vars(Ending)

Spec == Init /\ [][Next]_vars /\ Fairness

-----------------------------------------------------------------------------
TypeOK ==
  /\ graph.status \in [Agents -> Statuses] /\ graph.at \in [Agents -> Points]
  /\ graph.kind \in [Agents -> {"none", "user", "agents", "stalled"}]
  /\ \A f \in {"gate", "wake", "mail", "pend", "told", "stopped", "parks"} :
       graph[f] \in [Agents -> BOOLEAN]
  /\ graph.recov \in [Agents -> 0..RecoveryLimit] /\ graph.idle \in [Agents -> 0..IdleLimit]
  /\ graph.turns \in [Agents -> 0..TurnLimit] /\ graph.notices \in [Agents -> 0..2]
  /\ {graph.paused, graph.bstop, graph.rstop, graph.closing, graph.delegate} \subseteq BOOLEAN
  /\ graph.clock \in {"early", "wrap", "told", "past", "fired"}
  /\ end \in {"no", "cancelling", "over", "abandoned"}

\* wait_for_message clears the event it waits on: an agent that sleeps while it
\* has something to do has been woken since, however the two interleaved.
NoLostWake ==
  \A a \in Agents :
    graph.at[a] \in {"asleep", "dozing", "blocked"} /\ Ready(graph, a) => graph.wake[a]

\* Whoever writes to the graph later, a stopped agent stays stopped and starts no
\* model call.
StopsAreFinal ==
  [][\A a \in Agents : graph.status[a] = "stopped" =>
       graph'.status[a] = "stopped" /\ graph'.turns[a] = graph.turns[a]]_vars

\* No model call starts between a budget pause and the operator's resume.
NoTurnWhilePaused ==
  [][graph.paused => graph'.turns = graph.turns]_vars

\* A resume leaves no agent in the paused status, which nothing else would clear.
NobodyLeftPaused ==
  graph.paused \/ \A a \in Agents : graph.status[a] # "budget_paused"

\* A child that failed or crashed has told its parent since it last began to run,
\* unless the parent can no longer read.
TerminalReported ==
  \A a \in Children :
    graph.status[a] \in Errors /\ ~graph.bstop =>
      graph.notices[a] > 0 \/ Unreachable(graph, Parent[a])

\* Mail of its peers never costs an interactive agent in error its loop: the
\* user can still drive it again.
ErrorsStayDrivable ==
  Interactive /\ end = "no" =>
    \A a \in Agents : graph.status[a] \in Errors => graph.at[a] \notin {"gone", "raised"}

\* A stopped agent's task ends, wherever it was when it was stopped.
StopIsHonoured ==
  \A a \in Agents : graph.stopped[a] ~> graph.at[a] \in {"gone", "raised"}

\* While finish_scan writes the report of a headless scan no agent is at work
\* (but those the reserve is draining): its gate was checked before the thread.
NobodyWorksAtFinish ==
  ~Interactive /\ graph.at[Root] = "finishing" /\ ~graph.rstop => ActiveOthers(graph, Root) = {}

\* The only agents that can be are those a stopped agent spawned in its last turn.
OnlyStraysAtFinish ==
  ~Interactive /\ graph.at[Root] = "finishing" /\ ~graph.rstop =>
    \A b \in ActiveOthers(graph, Root) : \E a \in Children \ {b} : b \in Below(a) /\ graph.stopped[a]

\* A scan that is over leaves no agent that looks at work, unless the deadline fell
\* into the settling itself.
EndedScansAreSettled ==
  end = "over" => \A a \in Agents : graph.status[a] \notin Active /\ graph.at[a] \notin Streaming

\* A headless scan comes to its end: no agents wait for each other for ever.
ScanEnds == <>(end \in {"over", "abandoned"})

\* While the root's loop runs, a headless agent blocked in wait_for_agents can
\* still hear from someone, or already has.
NoHopelessWait ==
  \A a \in Agents :
    graph.at[Root] \notin {"gone", "raised"} /\ graph.at[a] = "blocked" /\ ActiveOthers(graph, a) = {} => graph.wake[a]

\* An agent does not sleep without a timer on mail it is allowed to read.
MailIsReady ==
  \A a \in Agents :
    graph.at[a] = "asleep" /\ graph.mail[a] /\ ~graph.gate[a] /\ ~graph.paused
      => Ready(graph, a)

\* An interactive agent that finished can be driven again by a later message.
FinishedStaysDrivable ==
  Interactive /\ end = "no" =>
    \A a \in Agents : graph.status[a] = "completed" => graph.at[a] # "gone"
=============================================================================
