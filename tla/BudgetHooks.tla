---------------------------- MODULE BudgetHooks ----------------------------
(***************************************************************************)
(* The in-memory side of the finite budget (lifecycle/hooks.py): what the  *)
(* model hooks of one scan, or of one triage, hold against the limit while *)
(* requests are in flight, next to the durable journal underneath, which   *)
(* FiniteBudget details and which is here its floor and its open holds.    *)
(*                                                                         *)
(* Three kinds of request share the books: "llm", the agents' turns, whose *)
(* start and end hooks run in separate tasks and are matched afterwards;   *)
(* "direct", the calls made outside an agent run (deduplication,           *)
(* compaction, triage); "search", a web search, which also holds one of a  *)
(* scan's search slots.  All run on one event loop: a stretch under        *)
(* _reservation_lock has no suspension in it and is one step.              *)
(*   stage[r]  free, slot (search only), open: reserved, sent: with the    *)
(*             provider, answered, recorded: settled but still reserved,   *)
(*             failed: not recorded, over: its caller is through with it,  *)
(*             refused: entered in memory, and the journal then failed it  *)
(* Amounts are integer units; a usage report prices a request at its       *)
(* charge, no more than its quote.                                         *)
(***************************************************************************)
EXTENDS Integers, FiniteSets, Totals

CONSTANTS
  Agents,
  MaxRuns,       \* run contexts per agent
  MaxRequest,    \* requests 1..MaxRequest
  Quotes,        \* what a request may be quoted at
  Budgets,       \* limits: the least at first, extensions go up
  PriorCost,     \* spend the journal knows when the hooks are made
  Allowance,     \* _phase_allowance_usd of a triage
  Concurrency,   \* min(MAX_CONCURRENCY, limits.max_concurrency) of a triage
  SearchPrice,   \* what a search costs
  MaxCalls,      \* max_calls_per_scan
  SearchBudget   \* web_search.budget_usd

Requests == 1 .. MaxRequest
Contexts == Agents \X (1..MaxRuns)

ASSUME HooksAssumption ==
  /\ MaxRuns \in Nat \ {0} /\ MaxRequest \in Nat /\ Quotes \subseteq Nat
  /\ Budgets \subseteq Nat /\ Budgets # {} /\ PriorCost \in Nat
  /\ \A b \in Budgets : PriorCost <= b
  /\ Allowance \in Nat /\ Concurrency \in Nat
  /\ SearchPrice \in Nat /\ MaxCalls \in Nat /\ SearchBudget \in Nat

VARIABLES
  phase,      \* "scan", or "triage": hooks of their own, with a phase allowance
  limit,      \* _max_budget_usd, raised together with the journal's
  stage, kind, quote, charge,
  ctx,        \* per llm request, the run context it was started in
  posted,     \* the requests the provider was ever sent
  silent,     \* answers that report no usage
  reserved,   \* _reservations and _agent_reservations
  floors,     \* _abandoned_floors and _agent_abandoned_floors
  durable,    \* _durable_requests and _durable_agents
  active,     \* _active_attempts: per context, 0 for none
  bound,      \* llm answers whose response ID was bound to their attempt
  spent,      \* _committed_cost_floor
  run,        \* per agent, its current run context
  slots,      \* searches counted by _web_search_inflight
  entries,    \* searches listed in run_record["web_search_usage"]
  pending,    \* the journal's open holds
  known,      \* the journal's floor
  healthy     \* the journal is not poisoned

request == <<stage, kind, quote, ctx>>
books == <<reserved, floors, durable, spent>>
matching == <<active, bound, run>>
journal == <<pending, known, healthy>>
search == <<slots, entries>>
vars == <<phase, limit, request, charge, posted, silent, books, matching, journal, search>>

Quoted(S) == Total(MaxRequest, [r \in Requests |-> IF r \in S THEN quote[r] ELSE 0])
Committed == Larger(spent, known) + Quoted(floors)
AgentOf(r) == ctx[r][1]

Init ==
  /\ phase \in {"scan", "triage"}
  /\ limit \in Budgets /\ \A b \in Budgets : limit <= b
  /\ stage = [r \in Requests |-> "free"] /\ kind = [r \in Requests |-> "none"]
  /\ quote = [r \in Requests |-> 0] /\ charge = [r \in Requests |-> 0]
  /\ ctx = [r \in Requests |-> <<>>]
  /\ posted = {} /\ silent = {} /\ reserved = {} /\ floors = {} /\ durable = {}
  /\ active = [c \in Contexts |-> 0] /\ bound = {} /\ run = [a \in Agents |-> 1]
  /\ spent = PriorCost /\ known = PriorCost /\ pending = {} /\ healthy = TRUE
  /\ slots = {} /\ entries = {}

-----------------------------------------------------------------------------
(* Admission.  Under the operator's pause _check_operator_pause refuses before
   anything has changed: as if the request had not been made. *)

\* Requests are numbered in the order they begin.
Fresh(r) == stage[r] = "free" /\ \A s \in Requests : s < r => stage[s] # "free"

Fits(q) == Committed + Quoted(reserved) + q <= limit

\* Mutant: the phase allowance looks at what was committed, not at what is reserved.
BuggyFitsPhase(q) == phase = "triage" => Larger(0, Committed - PriorCost) + q <= Allowance

\* The phase allowance bounds what a triage adds to the spend it began with.
FitsPhase(q) ==
  phase = "triage" => Larger(0, Committed - PriorCost) + Quoted(reserved) + q <= Allowance

\* BudgetJournal.reserve: refused when poisoned, or without room of its own.
JournalAdmits(q) == healthy /\ known + Quoted(pending) + q <= limit

\* The journal refuses the hold; or writes it and cannot read itself back, and is
\* poisoned.
JournalFailsHold(r, q) ==
  \/ ~JournalAdmits(q) /\ UNCHANGED <<pending, healthy>>
  \/ JournalAdmits(q) /\ pending' = pending \union {r} /\ healthy' = FALSE

\* The quote joins the others in the books first.  When the journal then fails, the
\* caller sees the error, and the quote stays entered.
Enter(r, q, others) ==
  /\ quote' = [quote EXCEPT ![r] = q]
  /\ reserved' = others \union {r}
  /\ \/ /\ JournalAdmits(q) /\ stage' = [stage EXCEPT ![r] = "open"]
        /\ pending' = pending \union {r} /\ durable' = durable \union {r}
        /\ UNCHANGED healthy
     \/ /\ JournalFailsHold(r, q) /\ stage' = [stage EXCEPT ![r] = "refused"]
        /\ UNCHANGED durable
  /\ UNCHANGED known

\* on_llm_start of agent a's next turn.  An attempt of its context still reserved
\* was abandoned: its quote becomes a floor, whether or not the new one fits.
StartLlm(a, r, q) ==
  LET c == <<a, run[a]>>
      displaced == reserved \intersect {active[c]}
  IN
  /\ phase = "scan" /\ Fresh(r)
  /\ floors' = floors \union displaced
  /\ IF Fits(q)
       THEN /\ Enter(r, q, reserved \ displaced)
            /\ kind' = [kind EXCEPT ![r] = "llm"] /\ ctx' = [ctx EXCEPT ![r] = c]
            /\ active' = IF stage'[r] = "open" THEN [active EXCEPT ![c] = r] ELSE active
       ELSE reserved' = reserved \ displaced /\ UNCHANGED <<request, durable, journal, active>>
  /\ UNCHANGED <<phase, limit, charge, posted, silent, spent, bound, run, search>>

\* reserve_out_of_band_request; a triage runs a few of them at a time.
ReserveDirect(r, q) ==
  /\ Fresh(r) /\ Fits(q) /\ FitsPhase(q)
  /\ phase = "triage" =>
       Cardinality({s \in Requests : kind[s] = "direct" /\ stage[s] \notin {"over", "refused"}}) < Concurrency
  /\ Enter(r, q, reserved)
  /\ kind' = [kind EXCEPT ![r] = "direct"]
  /\ UNCHANGED <<phase, limit, charge, ctx, posted, silent, floors, spent, matching, search>>

\* reserve_web_search_slot: the slot and its price, before anything can suspend.
TakeSlot(r) ==
  /\ phase = "scan" /\ Fresh(r)
  /\ Cardinality(slots \union entries) < MaxCalls
  /\ Quoted(slots \union entries) + SearchPrice <= SearchBudget
  /\ stage' = [stage EXCEPT ![r] = "slot"] /\ kind' = [kind EXCEPT ![r] = "search"]
  /\ quote' = [quote EXCEPT ![r] = SearchPrice] /\ slots' = slots \union {r}
  /\ UNCHANGED <<phase, limit, charge, ctx, posted, silent, books, matching, journal, entries>>

\* reserve_web_search_call.  Whatever refuses it (the operator's pause, the limit,
\* the journal, a cancellation), the tool gives slot and quote back unsent.
ReserveSearch(r) ==
  /\ stage[r] = "slot"
  /\ \/ /\ Fits(quote[r]) /\ JournalAdmits(quote[r])
        /\ stage' = [stage EXCEPT ![r] = "open"] /\ reserved' = reserved \union {r}
        /\ pending' = pending \union {r} /\ durable' = durable \union {r}
        /\ UNCHANGED <<healthy, slots>>
     \/ /\ stage' = [stage EXCEPT ![r] = "over"] /\ slots' = slots \ {r}
        /\ \/ UNCHANGED <<pending, healthy>>
           \/ Fits(quote[r]) /\ JournalFailsHold(r, quote[r])
        /\ UNCHANGED <<reserved, durable>>
  /\ UNCHANGED <<quote, known>>
  /\ UNCHANGED <<phase, limit, kind, charge, ctx, posted, silent, floors, spent, matching, entries>>

-----------------------------------------------------------------------------
(* The provider. *)

\* The journal authorizes one submission of an open hold.  The provider will
\* bill it, whether or not its answer is ever seen.
Send(r) ==
  /\ stage[r] = "open" /\ healthy /\ r \in pending \intersect durable
  /\ stage' = [stage EXCEPT ![r] = "sent"]
  /\ posted' = posted \union {r}
  /\ \E c \in 0..quote[r] : charge' = [charge EXCEPT ![r] = c]
  /\ UNCHANGED <<phase, limit, kind, quote, ctx, silent, books, matching, journal, search>>

\* The answer may report no usage; that of a turn may carry an ID, which the
\* model wrapper binds to the attempt (bind_model_response).
Answer(r) ==
  /\ stage[r] = "sent"
  /\ stage' = [stage EXCEPT ![r] = "answered"]
  /\ silent' \in {silent, silent \union ({r} \ {s \in Requests : kind[s] = "search"})}
  /\ bound' \in {bound, bound \union ({r} \intersect {s \in Requests : kind[s] = "llm"})}
  /\ UNCHANGED <<phase, limit, kind, quote, ctx, charge, posted, books, active, run, journal, search>>

-----------------------------------------------------------------------------
(* Settlement. *)

\* Mutant: an answer without an ID is taken for the active attempt's, always.
BuggyAttemptOf(r) == IF r \in bound THEN r ELSE active[ctx[r]]

\* The attempt the end hook takes an answer for, 0 for none: the bound one, or
\* the active one, unless the agent has a floor the answer may belong to.
AttemptOf(r) ==
  IF r \in bound THEN r
  ELSE IF \E f \in floors : kind[f] = "llm" /\ ctx[f][1] = ctx[r][1] THEN 0
  ELSE active[ctx[r]]

\* BudgetJournal.settle of hold k at cost.
Settle(k, cost) ==
  /\ known' = known + cost /\ pending' = pending \ {k}
  /\ UNCHANGED healthy

\* The settlement raises: the journal is poisoned; or it writes it, cannot read itself
\* back, and is.
SettleFails(k, cost) ==
  \/ ~healthy /\ UNCHANGED journal
  \/ healthy /\ known' = known + cost /\ pending' = pending \ {k} /\ healthy' = FALSE

\* Its snapshot is taken without _report_artifacts_lock: a callback's checkpoint in
\* between makes it stale, and the settlement is refused by a journal that works.
BareSettleFails(k) == SettleFails(k, 0) \/ UNCHANGED journal

\* Mutant: the reported usage of an abandoned attempt leaves its estimate in place.
BuggyReported(r, k) ==
  /\ healthy /\ k \in durable
  /\ Settle(k, charge[r]) /\ durable' = durable \ {k}
  /\ reserved' = reserved \ {k} /\ floors' = floors
  /\ spent' = spent + charge[r]
  /\ active' = [active EXCEPT ![ctx[r]] = IF @ = k THEN 0 ELSE @]

\* on_llm_end with usage: the hold is settled, and usage replaces the estimate.
Reported(r, k) ==
  /\ healthy /\ k \in durable
  /\ Settle(k, charge[r]) /\ durable' = durable \ {k}
  /\ reserved' = reserved \ {k} /\ floors' = floors \ {k}
  /\ spent' = spent + charge[r]
  /\ active' = [active EXCEPT ![ctx[r]] = IF @ = k THEN 0 ELSE @]

\* on_llm_end without usage: the quote stays counted, as a floor.
Unreported(r, k) ==
  /\ reserved' = reserved \ {k}
  /\ floors' = floors \union {x \in reserved : x = k /\ quote[x] > 0}
  /\ active' = IF k \in reserved /\ quote[k] = 0 /\ active[ctx[r]] = k
                 THEN [active EXCEPT ![ctx[r]] = 0] ELSE active
  /\ UNCHANGED <<durable, spent, journal>>

\* on_llm_end, at any time after the answer.  Usage that matches no admission,
\* or that the journal cannot settle, is an error and changes nothing.
EndLlm(r) ==
  LET k == AttemptOf(r) IN
  /\ stage[r] = "answered" /\ kind[r] = "llm"
  /\ stage' = [stage EXCEPT ![r] = "over"]
  /\ \/ r \notin silent /\ Reported(r, k)
     \/ r \in silent /\ Unreported(r, k)
     \/ /\ r \notin silent /\ UNCHANGED <<books, active>>
        /\ IF k \in durable THEN SettleFails(k, charge[r]) ELSE UNCHANGED journal
  /\ silent' = silent \ {r} /\ bound' = bound \ {r}
  /\ UNCHANGED <<phase, limit, kind, quote, ctx, charge, posted, run, search>>

\* record_out_of_band_response, as the answer of a direct call returns.  When the
\* journal fails it, the release records again, fails too, and releases nothing.
Record(r) ==
  /\ stage[r] = "answered" /\ kind[r] = "direct" /\ r \notin silent
  /\ \/ /\ healthy /\ Settle(r, charge[r]) /\ durable' = durable \ {r}
        /\ stage' = [stage EXCEPT ![r] = "recorded"]
     \/ /\ SettleFails(r, charge[r]) /\ stage' = [stage EXCEPT ![r] = "over"]
        /\ UNCHANGED durable
  /\ UNCHANGED <<phase, limit, kind, quote, ctx, charge, posted, silent, reserved, floors, spent, matching, search>>

\* release_out_of_band_request in the caller's finally: after the usage was
\* recorded, or because the request failed, was cancelled or reported none.
ReleaseDirect(r) ==
  /\ kind[r] = "direct" /\ stage[r] \in {"open", "sent", "answered", "recorded"}
  /\ stage' = [stage EXCEPT ![r] = "over"]
  /\ \/ /\ stage[r] = "recorded"
        /\ reserved' = reserved \ {r} /\ spent' = spent + charge[r]
        /\ UNCHANGED <<floors, durable, journal>>
     \/ /\ stage[r] # "recorded" /\ quote[r] > 0
        /\ reserved' = reserved \ {r} /\ floors' = floors \union {r}
        /\ UNCHANGED <<spent, durable, journal>>
     \/ /\ stage[r] # "recorded" /\ quote[r] = 0 /\ healthy
        /\ Settle(r, 0) /\ durable' = durable \ {r} /\ reserved' = reserved \ {r}
        /\ UNCHANGED <<floors, spent>>
     \/ /\ stage[r] # "recorded" /\ quote[r] = 0
        /\ BareSettleFails(r) /\ UNCHANGED books
  /\ silent' = silent \ {r}
  /\ UNCHANGED <<phase, limit, kind, quote, ctx, charge, posted, matching, search>>

\* commit_web_search_call: the slot becomes an entry at the quoted price.  It is
\* given back first, and stays so when the journal then fails the entry.
CommitSearch(r) ==
  /\ stage[r] = "answered" /\ kind[r] = "search"
  /\ slots' = slots \ {r}
  /\ \/ /\ healthy /\ Settle(r, quote[r]) /\ entries' = entries \union {r}
        /\ stage' = [stage EXCEPT ![r] = "recorded"]
     \/ /\ SettleFails(r, quote[r]) /\ stage' = [stage EXCEPT ![r] = "failed"]
        /\ UNCHANGED entries
  /\ UNCHANGED <<phase, limit, kind, quote, ctx, charge, posted, silent, books, matching>>

\* Mutant: a failed search gives its slot back even after it was sent.
BuggySlotsAfter(r) == slots \ {r}

\* Only a search that was never sent gives its slot back.
SlotsAfter(r) == IF stage[r] = "open" THEN slots \ {r} ELSE slots

\* release_web_search_call, in the tool's finally or after the commit: at the price
\* when committed, at nothing when never sent, as a floor when it was sent or was not
\* authorized.  The quote leaves the books first: when the journal then fails the
\* settlement, it is in none of them, whatever the journal holds, and the slot stays
\* taken.
ReleaseSearch(r) ==
  /\ kind[r] = "search" /\ stage[r] \in {"open", "sent", "answered", "recorded", "failed"}
  /\ stage' = [stage EXCEPT ![r] = "over"]
  /\ reserved' = reserved \ {r}
  /\ \/ /\ stage[r] = "recorded" /\ healthy
        /\ spent' = spent + quote[r] /\ durable' = durable \ {r}
        /\ UNCHANGED <<floors, journal, slots>>
     \/ /\ stage[r] = "open" /\ healthy
        /\ Settle(r, 0) /\ durable' = durable \ {r} /\ slots' = SlotsAfter(r)
        /\ UNCHANGED <<floors, spent>>
     \/ /\ \/ stage[r] = "recorded" /\ ~healthy /\ UNCHANGED journal
           \/ stage[r] = "open" /\ BareSettleFails(r)
        /\ UNCHANGED <<floors, spent, durable, slots>>
     \/ /\ \/ stage[r] \in {"sent", "answered", "failed"} /\ slots' = SlotsAfter(r)
           \/ stage[r] = "open" /\ ~healthy /\ UNCHANGED slots
        /\ floors' = floors \union {r}
        /\ UNCHANGED <<spent, durable, journal>>
  /\ UNCHANGED <<phase, limit, kind, quote, ctx, charge, posted, silent, matching, entries>>

-----------------------------------------------------------------------------
(* The rest of the scan. *)

\* A cycle of agent a ends, however it ends, and its driver starts another.
NextRun(a) ==
  /\ run[a] < MaxRuns /\ run' = [run EXCEPT ![a] = @ + 1]
  /\ UNCHANGED <<phase, limit, request, charge, posted, silent, books, active, bound, journal, search>>

\* extend_budget: journal first, then the hooks, in one stretch.
ExtendBudget ==
  /\ healthy /\ \E b \in Budgets : b > limit /\ limit' = b
  /\ UNCHANGED <<phase, request, charge, posted, silent, books, matching, journal, search>>

\* Some write of the journal fails: it is poisoned for good.
JournalFails ==
  /\ healthy /\ healthy' = FALSE
  /\ UNCHANGED <<phase, limit, request, charge, posted, silent, books, matching, pending, known, search>>

Next ==
  \/ \E r \in Requests, q \in Quotes :
       \/ \E a \in Agents : StartLlm(a, r, q)
       \/ ReserveDirect(r, q)
  \/ \E r \in Requests :
       \/ TakeSlot(r) \/ ReserveSearch(r) \/ Send(r) \/ Answer(r)
       \/ EndLlm(r) \/ Record(r) \/ ReleaseDirect(r) \/ CommitSearch(r) \/ ReleaseSearch(r)
  \/ \E a \in Agents : NextRun(a)
  \/ ExtendBudget \/ JournalFails

Spec == Init /\ [][Next]_vars

-----------------------------------------------------------------------------
(* Properties. *)

\* Every variable keeps its type.
TypeOK ==
  /\ phase \in {"scan", "triage"} /\ limit \in Budgets
  /\ stage \in [Requests -> {"free", "slot", "open", "sent", "answered", "recorded", "failed", "over", "refused"}]
  /\ kind \in [Requests -> {"none", "llm", "direct", "search"}]
  /\ quote \in [Requests -> Nat] /\ charge \in [Requests -> Nat]
  /\ ctx \in [Requests -> Contexts \union {<<>>}]
  /\ posted \subseteq Requests /\ silent \subseteq Requests /\ reserved \subseteq Requests /\ floors \subseteq Requests
  /\ durable \subseteq Requests /\ bound \subseteq Requests
  /\ active \in [Contexts -> 0..MaxRequest] /\ run \in [Agents -> 1..MaxRuns]
  /\ spent \in Nat /\ known \in Nat /\ pending \subseteq Requests /\ healthy \in BOOLEAN
  /\ slots \subseteq Requests /\ entries \subseteq Requests

\* Requests the provider may still bill at a price nobody has heard of.
InFlight == {r \in Requests : stage[r] = "sent"}

\* Whatever the provider was sent and is not settled is counted in memory at its quote,
\* and so is every other hold of the journal but that of a search that was not sent:
\* no answer, late, unlabelled or without usage, no failure of the journal and no
\* repeated start takes another attempt's quote out of the books.
QuotesStayCounted ==
  \A r \in pending \union InFlight :
    quote[r] > 0 /\ (kind[r] = "search" => r \in posted) => r \in reserved \union floors

\* An estimate is replaced by the usage that arrives for it, never added to it: as long
\* as the journal works, a quote in the books has its hold, or is one the journal never
\* took, or belongs to a caller about to release it, and is counted once.
NoGhostQuotes ==
  healthy => /\ reserved \intersect floors = {}
             /\ \A r \in reserved \union floors : r \in pending \/ stage[r] \in {"recorded", "refused"}
             /\ spent <= known

\* What the provider bills stays within the operator's limit; what it bills for a
\* triage, within the phase's allowance.
SpendWithinAllowance ==
  /\ PriorCost + Total(MaxRequest, charge) <= limit
  /\ phase = "triage" => Total(MaxRequest, charge) <= Allowance

\* No more searches are sent than the scan is allowed, those that failed included.
SearchesWithinCap ==
  LET searches == {r \in posted : kind[r] = "search"}
  IN  Cardinality(searches) <= MaxCalls /\ Quoted(searches) <= SearchBudget
=============================================================================
