----------------------------- MODULE AgentGraph -----------------------------
(***************************************************************************)
(* The coordinator of the agent graph (lifecycle/agents.py): the state it  *)
(* owns and its operations, each a function from the graph to the graph.   *)
(* Its lock is never held across a suspension, so an operation is one      *)
(* atomic step and a caller that awaits several of them in a row is too.   *)
(*                                                                         *)
(* graph[f][a] is field f of agent a:                                      *)
(*   status, kind   statuses, wait_kinds                                   *)
(*   gate, wake     user_wake_required and the wake event of its runtime   *)
(*   mail, pend     the mailbox holds something; pending_counts is not 0   *)
(*   recov, idle    recovery_counts, idle_resume_counts                    *)
(*   turns          model_start_counts                                     *)
(*   told, stopped  _parent_notified, _operator_stopped                    *)
(*   parks          resumable: its loop is taken to park for messages      *)
(*   at             where its task is (see AgentLoop); "gone" is done(),   *)
(*                  "none" that this process has started none              *)
(*   notices        history: what its parent received since it last ran    *)
(* and paused, bstop, rstop, closing are the flags of the whole scan;      *)
(* delegate says that the delegate model drives the root, and clock where  *)
(* the runtime of a headless scan is: before or after the wrap-up ("early",*)
(* "wrap"), the agents told of it ("told"), past the deadline ("past"), and*)
(* the scan cancelled for that ("fired"). Without a deadline it is "early".*)
(***************************************************************************)
EXTENDS Naturals, Sequences

CONSTANTS Agents,       \* every agent the scan may have, the root among them
          Line,         \* the agents, each after its parent
          Parent,       \* the parent of each agent but the first of Line
          Interactive,  \* a user is attached, and agents can be re-driven
          TurnLimit, RecoveryLimit, IdleLimit

Root == Line[1]
Children == Agents \ {Root}

ASSUME GraphAssumption ==
  /\ Line \in Seq(Agents) /\ Agents = {Line[i] : i \in 1..Len(Line)} /\ Len(Line) >= 1
  /\ \A i \in 2..Len(Line) : \E j \in 1..(i - 1) : Parent[Line[i]] = Line[j]
  /\ Interactive \in BOOLEAN
  /\ {TurnLimit, RecoveryLimit, IdleLimit} \subseteq Nat \ {0}

\* Every agent is listed once: the ids of the agents are distinct.
ASSUME LineAssumption == \A i, j \in 1..Len(Line) : Line[i] = Line[j] => i = j

Active == {"running", "waiting"}
Errors == {"failed", "crashed"}
Statuses == Active \cup Errors \cup {"none", "completed", "stopped", "budget_paused"}
Streaming == {"ready", "call", "act", "finishing", "taking_user", "taking_agents"}

Fresh == [f \in Agents |-> FALSE]
Zero == [f \in Agents |-> 0]
Blank == [status |-> [a \in Agents |-> IF a = Root THEN "running" ELSE "none"],
          at |-> [a \in Agents |-> IF a = Root THEN "enter" ELSE "none"],
          kind |-> [a \in Agents |-> "none"],
          gate |-> Fresh, wake |-> Fresh, mail |-> Fresh, pend |-> Fresh,
          told |-> Fresh, stopped |-> Fresh, parks |-> [a \in Agents |-> Interactive],
          recov |-> Zero, idle |-> Zero, turns |-> Zero, notices |-> Zero,
          paused |-> FALSE, bstop |-> FALSE, rstop |-> FALSE, closing |-> FALSE, delegate |-> FALSE,
          clock |-> "early"]

WakeAll(g) == [g EXCEPT !.wake = [a \in Agents |-> g.status[a] # "none"]]

-----------------------------------------------------------------------------
(* Messages. *)

Unreachable(g, a) ==
  \/ a # Root /\ g.at[a] = "gone"
  \/ g.status[a] = "stopped"
  \/ g.status[a] \in Errors \cup {"completed"} /\ ~g.parks[a]

Accepts(g, to, user) ==
  /\ user => ~g.bstop /\ ~g.closing
  /\ g.status[to] # "none"
  /\ ~Unreachable(g, to)

\* What a message makes of its target's status. A user's message also releases
\* an agent parked by an error, which a peer's does not.
Received(g, to, user) ==
  IF g.paused /\ (user \/ g.status[to] \in Active \cup {"budget_paused", "completed"})
    THEN "budget_paused"
  ELSE IF g.status[to] = "completed" THEN "running"
  ELSE IF user /\ g.status[to] # "running" THEN "waiting"
  ELSE g.status[to]

\* Mutant: a message to a parked agent does not wake it.
BuggyDeliver(g, to, user) ==
  [g EXCEPT !.status[to] = Received(g, to, user), !.mail[to] = TRUE, !.pend[to] = TRUE,
            !.gate[to] = @ /\ ~user]

Deliver(g, to, user) ==
  [g EXCEPT !.status[to] = Received(g, to, user),
            !.mail[to] = TRUE, !.pend[to] = TRUE,
            !.wake[to] = @ \/ ~g.paused,
            !.gate[to] = @ /\ ~user,
            !.told[to] = @ /\ ~user,
            !.kind[to] = IF user THEN "none" ELSE @,
            !.recov[to] = IF user THEN 0 ELSE @,
            !.idle[to] = IF user THEN 0 ELSE @,
            !.notices[to] = IF user THEN 0 ELSE @]

\* send(..., interrupt=False) and send(...): the latter cancels the target's
\* stream, whose run then ends where it is.
Send(g, to, user) == IF Accepts(g, to, user) THEN Deliver(g, to, user) ELSE g
SendNow(g, to, user) ==
  IF Interactive /\ ~g.paused /\ g.at[to] \in Streaming /\ Accepts(g, to, user)
    THEN [Deliver(g, to, user) EXCEPT !.at[to] = "ended"]
    ELSE Send(g, to, user)

\* The notice of the wrap-up goes only to those at work.
SendWrap(g, to) == IF g.status[to] \in Active THEN Send(g, to, FALSE) ELSE g
WrappingUp(g) == g.clock # "early"

\* A notice that reaches the parent of a.
Counted(g, a) ==
  IF Accepts(g, Parent[a], FALSE) /\ g.notices[a] < 2
    THEN [g EXCEPT !.notices[a] = @ + 1] ELSE g

\* Mutant: a stop alone does not end a wait.
BuggyReady(g, a) ==
  g.bstop \/ (g.rstop /\ a # Root) \/ (g.pend[a] /\ ~g.gate[a] /\ ~g.paused)

Ready(g, a) ==
  \/ g.bstop
  \/ g.rstop /\ a # Root
  \/ g.pend[a] /\ ~g.gate[a] /\ ~g.paused
  \/ g.status[a] = "stopped"

TakeMail(g, a) == [g EXCEPT !.mail[a] = FALSE, !.pend[a] = FALSE]
ReturnMail(g, a) == [g EXCEPT !.mail[a] = TRUE]

-----------------------------------------------------------------------------
(* Status. *)

Register(g, a) == [g EXCEPT !.status[a] = "running", !.at[a] = "enter"]

\* Mutant: a crash does not wait for the user.
BuggySetStatus(g, a, s) ==
  IF g.status[a] = "none" \/ g.stopped[a] THEN g
  ELSE [g EXCEPT !.status[a] = s, !.gate[a] = s = "failed", !.wake[a] = TRUE]

SetStatus(g, a, s) ==
  IF g.status[a] = "none" \/ g.stopped[a] THEN g
  ELSE [g EXCEPT !.status[a] = s, !.gate[a] = s \in Errors, !.wake[a] = TRUE]

\* Mutant: a fresh stint keeps the claim of the last one.
BuggyMarkRunning(g, a) ==
  IF g.status[a] \notin Active THEN g
  ELSE IF g.paused THEN [g EXCEPT !.status[a] = "budget_paused"]
  ELSE [g EXCEPT !.status[a] = "running", !.kind[a] = "none", !.gate[a] = FALSE,
                 !.notices[a] = 0]

MarkRunning(g, a) ==
  IF g.status[a] \notin Active THEN g
  ELSE IF g.paused THEN [g EXCEPT !.status[a] = "budget_paused"]
  ELSE [g EXCEPT !.status[a] = "running", !.kind[a] = "none", !.gate[a] = FALSE,
                 !.told[a] = FALSE, !.notices[a] = 0]

\* Mutant: parking forgets that the agent may have been stopped meanwhile.
BuggyPark(g, a, kind) ==
  [g EXCEPT !.status[a] = "waiting", !.kind[a] = kind, !.gate[a] = FALSE, !.wake[a] = TRUE]

Park(g, a, kind) ==
  IF g.status[a] \in {"none", "stopped"} THEN g
  ELSE [g EXCEPT !.status[a] = "waiting", !.kind[a] = kind, !.gate[a] = FALSE,
                 !.wake[a] = TRUE]

ResetRecovery(g, a) == [g EXCEPT !.recov[a] = 0]

-----------------------------------------------------------------------------
(* Notices to the parent. *)

\* A child that stopped running tells its parent, unless it already did.
NotifyTerminal(g, a) ==
  IF a = Root \/ g.bstop \/ g.told[a] THEN g
  ELSE Send(Counted([g EXCEPT !.told[a] = TRUE], a), Parent[a], FALSE)

NotifyStall(g, a) == IF a = Root THEN g ELSE Send(g, Parent[a], FALSE)

\* The note of an explicit stop does not claim the notice.
NotifyStop(g, a) ==
  IF a = Root \/ g.bstop THEN g ELSE SendNow(Counted(g, a), Parent[a], FALSE)

\* The completion report does, and is skipped when it was claimed.
Report(g, a) ==
  IF g.told[a] THEN g
  ELSE SendNow(Counted([g EXCEPT !.told[a] = TRUE], a), Parent[a], FALSE)

-----------------------------------------------------------------------------
(* Stops and pauses. *)

\* Mutant: the stopped agent is not woken.
BuggyRequestStop(g, a, preserve) ==
  IF g.status[a] = "none" \/ (preserve /\ g.status[a] \notin Active) THEN g
  ELSE NotifyStop([g EXCEPT !.stopped[a] = TRUE, !.status[a] = "stopped"], a)

RequestStop(g, a, preserve) ==
  LET active == g.status[a] \in Active \cup {"budget_paused"}
      sticky == ~preserve \/ active \/ g.status[a] = "stopped"
      marked == IF sticky THEN [g EXCEPT !.stopped[a] = TRUE, !.status[a] = "stopped",
                                         !.wake[a] = TRUE]
                ELSE [g EXCEPT !.wake[a] = TRUE]
  IN  IF g.status[a] = "none" THEN g
      ELSE IF active THEN NotifyStop(marked, a) ELSE marked

\* b and what it spawned. The parents precede their children in Line.
Below(b) ==
  LET under[i \in 0..Len(Line)] ==
        IF i = 0 THEN {}
        ELSE IF Line[i] = b \/ (Line[i] # Root /\ Parent[Line[i]] \in under[i - 1])
          THEN under[i - 1] \cup {Line[i]} ELSE under[i - 1]
  IN  under[Len(Line)]

\* The last n agents of Line are looked at, from the end on.
StopTree(g, b) ==
  LET stopped[n \in 0..Len(Line)] ==
        IF n = 0 THEN g
        ELSE IF Line[Len(Line) - n + 1] \in Below(b)
          THEN RequestStop(stopped[n - 1], Line[Len(Line) - n + 1], FALSE) ELSE stopped[n - 1]
  IN  stopped[Len(Line)]

PauseForBudget(g, a, interrupted) ==
  IF g.status[a] \in {"none", "stopped"} \/ g.bstop \/ g.closing THEN g
  ELSE WakeAll([g EXCEPT !.paused = TRUE,
                         !.status[a] = IF @ = "running" \/ (interrupted /\ @ = "waiting")
                                         THEN "budget_paused" ELSE @])

CanResume(g) == g.paused /\ ~g.closing /\ ~g.bstop /\ g.status[Root] # "stopped"

\* Mutant: only the root is resumed.
BuggyResumeAll(g) ==
  WakeAll([g EXCEPT !.paused = FALSE, !.status[Root] = IF @ = "budget_paused" THEN "waiting" ELSE @,
                    !.mail[Root] = TRUE, !.pend[Root] = TRUE])

ResumeAll(g) ==
  LET held == {a \in Agents : g.status[a] = "budget_paused"}
      filled(box) == [a \in Agents |-> box[a] \/ a \in held]
  IN  WakeAll([g EXCEPT !.paused = FALSE,
                        !.status = [a \in Agents |-> IF a \in held THEN "waiting" ELSE @[a]],
                        !.mail = filled(@), !.pend = filled(@)])

TriggerBudgetStop(g) == WakeAll([g EXCEPT !.bstop = TRUE])

\* The first child to reach the reserve claims the one notice to the root.
ClaimReserve(g) ==
  IF g.rstop THEN g ELSE SendNow(WakeAll([g EXCEPT !.rstop = TRUE]), Root, FALSE)
=============================================================================
