# Formal models of the LyraShield Engine

TLA+ models of the concurrent core of `src/lyrashield`: the scan's money, its
graph of agents, and the resources it holds. TLC checks them on small
instances; for all of it but the agents' loop TLAPS proves the safety properties
for every instance.

`tlc -workers 2 -config X.cfg M` checks module `M`; `tlapm M.tla` checks the
proofs of a proof module. `PROJECT.json` lists the runs, which lines of the
source each definition models, the hazards the properties answer, the mutants
and the theorems.

## The system

A scan is one asyncio process. A root agent and the children it spawns each run
a loop of model calls and tool calls; a coordinator keeps their statuses and
mailboxes; hooks around each model call admit its cost against a budget, whose
record is a journal on disk; findings and usage go to a report state that is
saved after each change; tools run in a Docker sandbox.

| Component (`src/lyrashield/…`) | State it keeps | Operations | Talks to |
|---|---|---|---|
| budget journal, `artifacts/finite_budget.py`, `financial_io.py` | revision, limit, holds, receipts, known floor; one owner per run by `flock` | open, reserve, authorize, settle, checkpoint a callback, raise or restore the limit, write or roll back the projection, poison | hooks reserve and settle; the request guard authorizes; report state saves its ledger |
| request guard, `policy/physical_requests.py` | one admission per physical request | authorize, post once, recover usage from the stream | the journal, the provider |
| budget hooks, `lifecycle/hooks.py` | in-memory reservations, abandoned floors, notices given | on_llm_start, on_llm_end, out-of-band and search reservations, extend | journal, coordinator, report state |
| coordinator, `lifecycle/agents.py` | status, mailbox, pending count, wake event, gate, counters, pause and stop flags | register, send, wait, consume, park, stop, pause, resume, snapshot | every agent loop, tools, operator |
| agent loop, `lifecycle/execution.py` | one task per agent | run a cycle, recover, park, time out, notify the parent | coordinator, hooks, sessions |
| lifecycle tools, `tools/agents_graph`, `tools/finish`, `tools/respond` | none of their own | create, message, wait, stop, finish, respond | coordinator, report state |
| runner and finalization, `lifecycle/{runner,finalize,fallback,root_agent,restore}.py` | the scan's outcome | bring up, run the root, fall back once, cancel, settle, clean up | everything |
| report state, `artifacts/state*.py`, `evidence.py`, `pending_http.py` | run record, findings, usage, artifact revision | record usage, file a finding, save, complete, reconcile HTTP evidence | journal, finish_scan, viewer |
| sandbox, `runtime/session_manager.py`, `docker_control_plane.py` | session cache, pending cleanups, receipts; leases of a tunnel | create or reuse, clean up, reap; accept, open, relay, close | Docker |
| sessions and compaction, `lifecycle/{sessions,compaction}.py` | an agent's stored history | append, rewrite, replace, compact | agent loop |
| triage, `triage/service.py` | candidates in flight | judge each under a semaphore | out-of-band reservations |
| operator and viewer, `interface/` | what is shown | message, stop, resume | coordinator |

What is hard here: two processes and a crash around each durable write; a
failed directory barrier that leaves memory and disk in disagreement; provider
callbacks and settlements in either order; agents suspended at an `await` while
another stops, messages or pauses them; a gate checked before a thread is
started; waits that may be mutual; worker threads that answer after everybody
left. The hazards in `PROJECT.json` give each of these at its line.

What makes each component correct:

- *journal*: no charge escapes the books, a request is posted at most once, the
  bills of a run stay within the highest limit the operator set, limits widen
  only on request, a hold outlives its process;
- *agents*: no wake-up is lost, a stop is final and is obeyed, nothing is spent
  while the scan is paused, a resume leaves nobody behind, a parent hears of its
  child's failure, a headless scan ends and leaves no agent that looks at work;
- *tunnel*: channels never exceed the slots, each has an owner that closes it,
  and everything is given back after the shutdown, whoever is late;
- *report*: a completed record is durable, a terminal status is not lost, an
  artifact revision is all or nothing;
- *sandbox*: one per scan, deleted once, never claimed deleted without proof.

## Modules

| Module | Models |
|---|---|
| `Totals` | sums over the attempts of a budget |
| `SpendPromise` | what the journal promises, without records, files or crashes: money moves from a grant to open holds to charges |
| `FiniteBudget` | the journal, its file, its owner and the requests it admits |
| `BudgetHooks` | the reservations of one scan's or one triage's hooks over the journal, and the search slots |
| `AgentGraph` | the coordinator's operations as functions on one record |
| `AgentLoop` | the tasks, tools, operator, delegate, deadline and the end of the scan over that record |
| `AgentRestart` | `AgentLoop` with the snapshot each step writes, the death of the process and `--resume` |
| `MCAgents`, `MCRestart`, `MCReport` | small instances |
| `FindingStore` | what the report's artifacts promise: a durable map of findings |
| `ReportRevisions` | the report state, its files, and the threads that save, file, revise and finish |
| `SandboxSessions` | creation, deletion and reporting of a scan's sandbox |
| `AgentSessions` | an agent's stored conversation: rewrites, compaction, recoveries, salvage |
| `ControlPlane` | the leases of the sandbox tunnel: event loop against worker threads |
| `TotalsProofs`, `FiniteBudgetProofs`, `BudgetHooksProofs`, `ReportRevisionsProofs`, `SandboxSessionsProofs`, `AgentSessionsProofs`, `ControlPlaneProofs`, `AgentProofs` | theorems |

A definition named `Buggy…` stands before the one it is a faulty version of,
and takes no part in any specification. Each property of a passing run has one: put in place of the
original it makes TLC report that property violated.

### FiniteBudget

`disk` is the record in the file, `known` the revision a live owner has in
memory, and `snap` what a thread read earlier. An operation reads, decides and
commits; a commit writes the next revision, fails before the rename, or fails
after it, when memory keeps the old record and the owner is poisoned
(`FinancialDirectory.replace`). `Crash` may come after any step, and then another
process opens the file: its options may tighten the limit, and only an explicit
increase widens it. `Dispatch` and `Answer` are the one POST of an admission and the
provider's bill.

Assumed of the provider: a bill is at most the quote of its request, and a cost
it reports lies between its charge and the quote. Left out: callbacks without an
attempt, zero quotes, the per-model ledger, and a power loss between a failed
barrier and another process's open. `SettleUnused` takes its snapshot in an
earlier step, as `release_web_search_call` does. Receipts of observed callbacks
are never removed, so a long run fills them and poisons the owner.

### BudgetHooks

The in-memory side of the same budget. A request is a turn of an agent, a direct
call (deduplication, compaction, triage) or a web search; `stage` is how far it
came. The books are sets of requests: `reserved`, the abandoned `floors`, the
open holds `pending` of the journal below. Memory and journal do not change
together: a quote is entered before its hold (a hold the journal refuses, or
cannot read back, leaves the quote behind: stage `refused`), and
`release_web_search_call` takes a search's quote out of memory before the journal
settles it. When that settlement fails, because a callback's checkpoint made its
snapshot stale, its own write fails or the journal is poisoned, a search that was
never sent may stay a hold of the journal that memory counts nowhere, and its slot
stays taken. The journal then refuses what memory admits. Nothing was sent for such a
hold, so `QuotesStayCounted` claims what matters: what was sent and is not settled is
counted, and so is every other hold. Start and end hooks of a turn run in
separate tasks, so an answer is matched to an attempt afterwards (`AttemptOf`):
by the ID bound to it, else by the active attempt of its context, unless the
agent has a floor the answer may belong to. The journal is its floor, its holds
and whether it is poisoned; `FiniteBudget` has the rest of it.

An operator's pause refuses a request before anything has changed, and is left
out. Usage prices a request at its charge, at most its quote. A turn quoted at
nothing whose answer has no usage leaves its hold of zero in the journal, which
is why `QuotesStayCounted` asks for `quote[r] > 0`. Left out: an error of
`save_run_data` after the entry of a search was settled. Costs that provider
callbacks report are in `FiniteBudget`, the errors that end a run after a call in
`AgentLoop`.

### AgentGraph and AgentLoop

The coordinator's lock is never held across a suspension, so each of its
operations, and every stretch of a task between two awaits that really suspend,
is one step. `graph.at[a]` is the suspension a task is in: storing its first
input, appending mail or a nudge to its session, preparing the session, between
model calls, in a call, in a tool, in the thread of `finish_scan`, salvaging a
failed stream, or parked. `check` is an extra stop just before an agent goes to
sleep, where nothing else differs from being about to wait. `end` follows the
runner once the root's loop is over.

Every handler's error paths are there: a failed append puts mail back
(`Drained`, `Taken`), a failed nudge leaves the loop (`Nudged`), a call fails
with a retry or is salvaged into failed, crashed or stopped, a refusal settles
even a headless root. The budget is seen as the hooks report it: it may refuse
any call or be reached after any call (`OutOfBudget`, `BudgetReached`), and the
reserve once reached stays reached.

One check is coarser than the code: a turn is not begun for a stopped agent, in the
same step as `on_llm_start` claims it. In the code the SDK looks at the stop
(`cancel(mode="after_turn")`) when the turn before ends, and `claim_model_turn` looks at
the pause and the deadline only, so a stop that arrives between the two is honoured
one turn later.

Mail is a flag, since `consume_pending` always takes the whole mailbox; `pend` is
the counter beside it. `notices` is a history variable.

A headless root that fails with a model error is driven again by the delegate
model, once (`TakenOver`). A headless scan may have a deadline: at the wrap-up
registrations and waits close and the agents at work are told; after the deadline
no turn begins, and the runner is cancelled wherever it is (`HardStop`): in the
root's loop, behind it, or while it settles another failure. The last leaves the
statuses as they are (`end = "abandoned"`).

Left out: submission ids, `max_agents` (the set of agents is the limit), errors
and conversation ids, several tool calls in one response. A thread of
`finish_scan` that outlives the cancelled root is a thread of `ReportRevisions`.

### AgentRestart

Every operation writes `agents.json` before it returns, so a step of `AgentLoop`
leaves its result on disk (`Saves`), but for two changes that a later operation
writes (`Unsaved`): mail just taken for the session, and the return of
`mark_running` to a pause. The process may die after any step; `Restart` is
`restore`, the recomputed budget flags and `respawn_subagents`, with the budget
where it was, at the reserve or used up, and with children that cannot be started.
A write of the snapshot is taken not to fail (the code logs a failure and goes
on). Mail taken from the box is lost with the process if another agent's snapshot
was written during the append and the session was not.

### ReportRevisions and FindingStore

`mem` is the report state, `disk` the run directory. A save is two steps under
the lock, the projections and `run.json`, and each may fail: `run.json` before or
after it replaced the file, or only its manifest, which is then an old one
(`sound` is false). Other threads see what is there in between. A change of the
report goes through the points of the code: filing adds the finding, then the
revision, then saves, with the lock for the save only, and rolls memory and then
files back without it; a revision and the commit of the HTTP evidence write the
projections, take them over into memory and save, all under the lock, and a commit
reads back what it wrote. `finish_scan` sets the results, then the revision, without
the lock, saves twice, and answers after it looked at the receipt and the memory and
then at the disk. Every thread may step in between.

A rollback restores what memory and files were when the change began, and so takes
back what another thread has done since: findings, revision, a completion. Two
history variables tell when: `overlap` (another thread changed or tried to change
the report while this change was under way, or was within a save when it began) and
`undone` (a rollback went on after that). They restrain no step. The properties hold
however the threads interleave and whatever fails, until such a rollback; from then
on the code keeps none of them, and `report_race` shows it for the projections. The
snapshot a change takes and the two halves of its rollback are not atomic in the
code either; what another thread does in between counts as overlap.

A death leaves what is on disk, and a resume
refuses files that do not fit the manifest (`disk.sound`). `FindingStore` is the
promise: a change takes effect whole or not at all, and what a tool reported
stays. `ReportRevisions` implements it with the findings of the running operation
counted as not yet changed (`Stored`).

Abstracted: the projections are one value; coverage and quality files only make
the manifest stale; `+= 1` on the revision is one step; interrupted stands
for failed; the exporter's failed attempt, which keeps every artifact, is no step.
A restore that fails in the middle (`disk.torn`) leaves older findings on disk
than in memory, beside a receipt that may say true, until they are written again.

### SandboxSessions

One step is a stretch of a task between its waits. `deletion` is the pending
deletion that callers join, `requests` counts what was asked of the daemon, and
`lost` are containers whose handle nobody was given. Calls of `create_or_reuse`
share a process, as its docstring allows, with the cleanup at the end of the
scan, the one of the interface and the last one of the process; `Resume` is a
later process over the same `run.json`. A task cancelled while it waits for the
lock never began. Left out: the texts and counts of receipts, host directories,
the Caido client's close and the steps of a startup, which succeeds or fails as
one.

### AgentSessions

`session` is the conversation in `agents.db`; `at` follows one cycle of the agent
and, inside a rewrite, its database calls (`Clear`, `Store`, and the `ClearAgain`
and `Restore` of a failed one). An item is a kind and the item the provider wants
before it; a summary names the items it stands for. Each item counts one token.
The library stores a turn as a whole, and a failed run's stream may replay part of
one that was not stored (`Turn`, `Unstored`: external). An append whose task was
cancelled goes on in its thread (`late`), so it can land between a compaction's
copy and its replacement, where the comparison catches it, or between the steps of
a rewrite, where nothing does. Left out: redaction and truncation, server-managed
conversations, and which failure is which.

### ControlPlane

One step of the event loop runs to its next suspension; worker threads run in
between, and also between the lock of `_ChannelLease.close` and its release, so
closing a lease takes two steps (`Mark`, `FinishClose`). A connection is made
once. A channel that a relay receives after somebody closed it fails at once and
is counted as drained.

## Runs

| Run | Question | Instance | States |
|---|---|---|---|
| `finite_budget` | does the journal keep its books and implement `SpendPromise`? | 3 attempts, 6 revisions, 2 holds and receipts, quotes up to 2, limits 2 and 4, 2 processes | 2.0 M |
| `agents_interactive` | messages, stops, pauses and resumes at each suspension of two tasks | root and child, 2 turns, recoveries and idle rounds | 390 k |
| `agents_headless` | waits, budget, reserve, delegate, wrap-up, deadline and the end of a scan without a user | root and child, 3 turns | 587 k |
| `agents_restart` | what a death at any step and a resume may forget | root and child, 2 turns, 1 restart | 663 k |
| `budget_hooks` | do late, unlabelled, silent and failed requests stay in the books? | 3 requests of any kind, quotes 0 and 1, 1 agent with 2 runs, limits 3 and 4 | 3.1 M |
| `report_revisions` | are findings kept, projections current and finishes durable? | 2 findings, 2 versions, 3 revisions, 2 failed writes, 1 death | 5.1 M |
| `sandbox_sessions` | one sandbox, one deletion, and none left unseen | 3 creations, 3 cleanups, 3 containers, 2 processes | 149 k |
| `agent_sessions` | is a conversation cut, restored and salvaged without loss, and does a cycle end? | 5 items, 2 kept, 1 screenshot, 1 recovery of each kind, 2 failed calls, 1 stop | 690 k |
| `control_plane` | late workers and a shutdown against the limit | 3 connections, 2 slots | 116 k |
| `restart_rate_limit`, `report_race`, `sandbox_resumed` | three statements of the repository that the code does not keep (below) | as above, as small as shows it | violated |

Bounds. In `finite_budget` two holds and two receipts fill both lists, three
attempts allow an old one to be settled after a new one was admitted, and the
second process meets what the first left. Two agents already have every pair of
suspensions against each other; two turns allow a turn after a recovery, a
resume or a peer's message; the headless run needs three for the root to spawn,
wait and finish. Beyond the runs, the safety of
the interactive graph was explored with three turns (1.5 M states) and that of the
headless chain of three with three turns (9.3 M states), without a violation;
that chain is where `OnlyStraysAtFinish` is
more than the absence of active agents. These two explorations predate the
delegate and the deadline. Three connections on two slots put one
in the queue behind two abandoned workers.

Three requests allow an abandoned attempt, its successor in another run and a
third that would take the room either gave up; the least limit is one above what
a triage's allowance and the prior cost add up to, so that both can refuse first.
Two findings and three revisions let one be filed, rolled back and overtaken by
the other, or filed and then revised, verified or finished; two failed writes are a
save and its rollback, or a save of one thread within the change of another. Three creations reap a stranded sandbox, strand another and
start again; the second process meets the record of the first. In
`agent_sessions` five items hold an opening and any turn, two screenshots, or a turn
behind a summary; a boundary two items from the end falls into every turn; one
failed call starts a restore and the second breaks it.

`report_revisions` (`MCReport`) explores no further once `undone` is true: it stays
true, and all three properties claim nothing from there on, so nothing they say is
left unchecked. Findings are interchangeable, and `SYMMETRY` is sound as no property
of the run is about liveness. `NeverOlder`, which is `CurrentProjections` without
`undone`, fails in `report_race`; `SuccessIsDurable` fails without `undone` as well: a
filing that is rolled back beside a finishing scan takes its completion off the disk
again.

Fairness. `FiniteBudget` has none: everything it says is safety. In `AgentLoop`
each task and each timer is weakly fair, because the event loop runs what is
runnable, a model call and a tool return or time out, and timers fire; the runner
ends the scan. The operator owes nothing. In `ControlPlane` worker threads are
weakly fair (the daemon's requests have timeouts) and so is a synchronous
stretch of the event loop once begun; relays, clients and `aclose` owe nothing.
`AgentRestart` takes the fairness of `AgentLoop` over; only `restart_rate_limit`,
whose property is safety of what is reached, uses it. `BudgetHooks`,
`ReportRevisions` and `SandboxSessions` state safety only, and no fairness. In
`AgentSessions` the cycle is weakly fair: calls of the model and the database return.
`CHECK_DEADLOCK FALSE` is used where a bounded instance runs out of attempts,
revisions, requests, creations or connections; the agents' runs check deadlock.

### What the code does not keep

- `ResumedScanRuns` (`restart_rate_limit`): "Resume with 'lyrashield --resume %s'
  once the limit clears" (`lifecycle/runner.py:398`). The root's status was saved
  as stopped, and a stopped root returns before its first call.
- `NeverOlder` (`report_race`): saves "cannot leave an older projection
  over newer findings" (`README.md:109` of the repository). A finding's rollback
  without the lock brings its revision number back into use while another thread
  is saving that revision.
- `StrandedIsReported` (`sandbox_resumed`): the last cleanup persists its outcome
  "so the worker can fail closed when a sandbox is stranded"
  (`interface/cli.py:320`). After a resume the removal recorded by the earlier
  process stands for the sandbox of this one.

More are stated in the modules without a run; adding them to a cfg shows
them violated:

- `NobodyWorksAtFinish` (`AgentsHeadless.cfg` with the chain of three of `MCAgents`):
  "Cannot finish scan while child agents are still active"
  (`tools/finish/tool.py:526`). A stopped child finishes its turn, and may spawn an
  agent in it, after the gate and before the report is written.
  `OnlyStraysAtFinish` holds: such strays are the only exception.
- `MailIsReady` (`AgentsInteractive.cfg`): after a failed append
  `consume_pending` restores the mailbox but not the pending count, so a later
  wait sleeps on accepted mail.
- `AcceptedMailHasAReader` (`RestartRateLimit.cfg`): "Returns False when nothing
  will ever read the message" (`lifecycle/agents.py:481`). `restore` gives every
  agent a runtime that says it can be woken, also those a headless resume does not
  start again.
- `FinishedStaysDrivable` (`AgentsInteractive.cfg`) and `NoHopelessWait`
  (`AgentsHeadless.cfg`): a message accepted
  while the last cycle prepares its session makes the loop return although "an
  interactive (resumable) agent can be re-driven" (`lifecycle/agents.py:65`); and a
  child that completes without a report leaves a waiting parent in silence.

Also seen: a container whose `session.start` fails is handed to nobody
(`runtime/backends.py:86`), so neither a startup nor a cleanup deletes it (`lost`);
a deadline that falls into the settling of another failure leaves the root
running in `agents.json` (`"abandoned"`); a conversation that is rewritten is cleared first, so a
cancellation, a death or a second failure there loses it
(`lifecycle/sessions.py:163`; `CutOff` of `AgentSessions`); and the salvage of a
failed run compares the length of the conversation with what was read before the
run and nothing else (`lifecycle/execution.py:271`), so that after a rewrite that
could not be restored it may replace a late message by what was read
(`Mistaken`; TLC shows it with `MaxItems = 6` when the exception is dropped).

Seen while modelling, without a property: an explicit stop does not claim the
parent's notice, so two can arrive in a stint; `_exhausted_recovery` says that
interactive runs park, while a child is crashed before it is called;
`stop_agent` says that a stopped agent can be woken again, while stops are
sticky; a message that interrupts a stream counts as a recovery;
`_summarize` says that a refusal of its request by the budget must propagate
(`lifecycle/compaction.py:419`), and `_run_cycle` logs it with every other failure
of a compaction and calls the model (`lifecycle/execution.py:833`).

## Proofs

All proofs follow one scheme: an inductive invariant `IInv`, which TLC checked on
the component's run first, `Init => IInv`, one step per action for
`IInv /\ [Next]_vars => IInv'`, and each property from `IInv`.

*FiniteBudget* (12 theorems, from `BoundsAssumption` only): type correctness,
its other invariants and action properties, and the refinement of
`SpendPromise`. The properties are not inductive by themselves: that spend stays
within the grant needs that every bill is covered by a hold or a settled cost,
which needs to know what a record in memory, a snapshot and the file may differ
in. `IInv` says so part by part: books balance, requests and receipts agree with
the record, charges are covered, counters are bounded, and memory is the file or
one failed commit behind it. Sums over attempts are handled by the lemmas of
`TotalsProofs`, which prove that changing one term changes a sum by the
difference, by least counterexample on the naturals.

*ControlPlane* (5 theorems, from `ControlPlaneAssumption`): type correctness,
the limit, ownership of channels and the release of slots. `IInv` relates where
a worker is to the fields of its lease (`OpeningFollowsWorker`, `StoredByWorker`),
says when a slot must be held (`SlotHeld`), and what the event loop may assume
between the two steps of a close (`ClosingSound`). The limit then follows since
what is in use is a subset of the leases that hold slots.

*BudgetHooks* (5 theorems, from `HooksAssumption`): the inductive invariant, both
properties of the quotes, the allowance and the cap of the searches. The heart of
it is that an answer ends its own attempt or none (`EndsItself`), although
`AttemptOf` guesses the attempt from IDs, contexts and floors. So a request that was
sent leaves memory no sooner than the journal, and only the hold of a search that was
not sent may be in the journal alone. The limit of a scan is therefore the journal's to
keep, which admits what fits its own holds; in a triage, where nothing is searched,
memory counts at least what the journal holds. For the money: what the journal knows is what was spent and is
still owed, settled charges are part of it, and with the open holds it stays within
the allowance. For the searches: those that were sent are a part of the slots and
the entries of searches in flight, as long as the journal works.

*ReportRevisions* (4 theorems, from `RevisionsAssumption` only, for every
interleaving of the threads): what `finish_scan` reported is on disk, projections
taken for current are, and the refinement of `FindingStore`, until a rollback takes
back what another thread had done. That the threads do overlap, and that a change is
then completed without harm, is part of what is proved; the missing lock costs what
comes after `undone`, and nothing else. `IInv` follows a change from its start to its
end or its rollback: memory and each file are one change away from what it began
with at most (`Near`), and as long as there is no overlap what a rollback would
restore is as good as what is there. For a finish, `Checking` says that a completion
which reached the disk although its write failed is not taken for durable: memory has
no receipt for it, and a later receipt is that of another record.
A step of the report is then a step of the map of findings only where a change
ends or a death falls into the middle of one; all others are stutters.

*SandboxSessions* (4 theorems, from `SandboxAssumption`): every sandbox that runs
is owned or on record, one deletion per sandbox runs at a time, and what the last
cleanup left is known. `IInv` says what may be assumed of the holder of the lock at
each of its points, and that the others have not begun or have let go.

*AgentSessions* (3 theorems, from `SessionsAssumption`): no result without its
call, and nothing forgotten, for conversations of every length. `Paired` says of a
conversation that its results answer earlier calls, each call once, that call IDs
differ, and that a call stands right behind its reasoning; `IInv` says it of all
conversations a cycle holds. The step that matters is the compaction:
`CallsWait` proves that the count of open calls is the number of calls before a
position whose results are behind it, so where it is zero no result further on has
its call before (`ClosedAt`); the boundary moves forward over results that cannot
be there, and back over reasoning, which parts nothing either (`SplitIsClean`).
For the second property: what is about to be cleared is in what will be stored
(a summary names what it replaces), or it is the salvage after a failed rewrite.

*Agents* (12 theorems in `AgentProofs`, from `GraphAssumption` and
`LineAssumption`: any agents, any tree, any limits). Five need nothing about where
a task is, so they hold across a death at any step: nobody is left paused, no turn
begins in a pause, accepted mail is on disk, restarts give back no turn and start no
stopped agent again, and the operator alone ends a pause. `Sound` adds to the types
that a requested stop is in the status and that only a pause holds an agent in
`budget_paused`. Most handlers are chains of the coordinator's operations, so each
operation is proved `Calm` once (it keeps `Sound`, begins no turn, lifts no pause,
takes back no stop) and a handler is calm because calm operations compose;
`StartTurn` and `ResumeAll` are the two exceptions, and `StepFlows` says what they
may do. Operations on a whole tree are walks along `Line`, calm by induction on
their length. `RInv` adds what the snapshot must say for the graph that `restore`
makes of it to be sound again.

The other seven (of `AgentLoop`, without restarts) relate an agent to the point its
task is at: the exact bounds of the counters, `NoLostWake`, `TerminalReported`,
`ErrorsStayDrivable`, `EndedScansAreSettled`, `StopsAreFinal` of an interactive scan
(the settling at the deadline of a headless one marks a stopped root as failed) and
`OnlyStraysAtFinish`. Their invariant is `Placed`: every agent is `Local`, which
says point by point what its status, gate, claim, counters and wake event may be.
That a sleeper is awake when it is ready is inductive only with what makes it ready
again; that an error is reported only with the claim (`told`) that no path may set
without a notice; that errors stay in the loop only with the gate, which keeps the
mail of peers from ending the wait; and the limits only with what may still happen
at each count: an agent at its last recovery is parked, in error or stopped, never
on a timer. In the middle of a handler its own agent is out of place. `Near(g, e, X)`
therefore says that all agents but those in X are in theirs, `Cycles` and `Rests`
what the handler knows of its own at that moment, and one lemma per operation
carries this through the handler to its last write (`Fine`). Messages in
between may reach any agent; that they leave it in its place is proved once
(`DeliverStep`, `SendNowStep`). `Steady` says what a step takes back of nobody: a
stop of an interactive scan, an unreachable mailbox, a headless agent's end. Only a
registration and the opening of the report are not steady, so that who is at work
behind a report's gate follows from `Steady`, `NearStep` and `BelowFacts` (what an
agent below another spawned is below it too).

Only model-checked: all liveness (`StopIsHonoured`, `ScanEnds`, `CycleEnds`,
`TunnelDrains`), which is out of the prover's reach. Every other property of the
passing runs has its theorem. Proved
but not in a run: `HoldsHaveCallers`, `WidensOnlyExplicitly` and `PoisonedIsInert`.

## Not modelled

`PROJECT.json` has the list with the reasons. In short: prompts, settings,
rendering, file staging and telemetry have no control of their own to check; the
retained upstream package `src/strix`, the containers, benchmarks and scripts
are not part of the core; finding deduplication and SARIF are functions
of their text.

## Plan

Done: the journal, its hooks, the agents with their restart, deadline and
delegate, their conversations, the report with its evidence, the sandbox and its
tunnel. Left:

1. `Placed` across a restart: what `Restart` makes of an agent at each point of its
   task, and from it the seven theorems for `RestartSpec`.
2. An abstract coordinator (mailboxes, stops and notices without suspension points)
   that `AgentLoop` implements.
