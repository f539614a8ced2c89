---------------------------- MODULE FiniteBudget ----------------------------
(***************************************************************************)
(* The finite budget journal (artifacts/finite_budget.py), the physical    *)
(* dispatch it admits (policy/physical_requests.py, tools/web_search) and  *)
(* the reports that settle it (artifacts/state.py).                        *)
(*                                                                         *)
(* One run directory holds one financial record, owned by at most one      *)
(* process (an flock on the activation stamp).  The owner reserves a quote *)
(* durably, posts the request once, and settles the hold at the reported   *)
(* cost.  The provider charges on its own time, the process may die or a   *)
(* write may fail anywhere in between, and another process may then reopen *)
(* the record.                                                             *)
(*                                                                         *)
(* Amounts are integer units.  disk.quote and disk.cost keep, next to the  *)
(* fields of the guard, the quote and the settled cost of attempts that    *)
(* have left the pending list; no action reads them after that.            *)
(***************************************************************************)
EXTENDS Integers, FiniteSets, Totals

CONSTANTS
  MaxAttempt,    \* attempts 1..MaxAttempt; the code's next_attempt bound is 2^63 - 1
  MaxRevision,   \* the code's bound on revision is 2^63 - 1
  MaxPending,    \* MAX_PENDING: open holds, and observed receipts
  MaxQuote,      \* the most one request may be quoted at
  Limits,        \* limits the operator may set
  MaxOpens,      \* processes that ever open the journal
  PriorCost,     \* llm_usage.cost already in the record at activation
  Reports        \* contents the rest of run.json may have

Attempts == 1 .. MaxAttempt
Quotes == 1 .. MaxQuote

ASSUME BoundsAssumption ==
  /\ MaxAttempt \in Nat \ {0} /\ MaxRevision \in Nat /\ MaxPending \in Nat
  /\ MaxQuote \in Nat /\ MaxOpens \in Nat /\ PriorCost \in Nat
  /\ Limits \subseteq Nat \ {0} /\ Reports # {}

VARIABLES
  files,       \* "legacy": neither file; "stamp": activation broke off; "active"
  disk,        \* run.json: the financial guard, and the report beside it
  owner,       \* "none", "live" or "poisoned": the BudgetJournal of the owning process
  known,       \* the revision of the owner's in-memory record
  dispatched,  \* BudgetJournal._dispatched: admissions already consumed
  held,        \* attempts a caller in the owning process was handed
  snap,        \* the record as some thread last read it
  opens,       \* processes that opened the journal so far
  granted,     \* the highest limit the operator set
  posts,       \* per attempt: physical POSTs sent
  answered,    \* per attempt: POSTs the provider has completed
  charge,      \* per attempt: what the provider billed for them
  reported     \* the sum of the costs handed to the usage ledger

process == <<owner, known, dispatched, held, snap>>
provider == <<posts, answered, charge>>
vars == <<files, disk, process, opens, granted, provider, reported>>

Zeros == [a \in Attempts |-> 0]

Records ==
  [report: Reports, limit: Nat, floor: Nat, usage: Nat, next: 1..(MaxAttempt + 1), revision: 0..MaxRevision,
   pending: SUBSET Attempts, quote: [Attempts -> Nat], cost: [Attempts -> Nat],
   observed: SUBSET Attempts, open: SUBSET Attempts, credit: [Attempts -> Nat]]

\* The record before activation: no limit, no attempt, the known spend.
Blank(r) ==
  [report |-> r, limit |-> 0, floor |-> PriorCost, usage |-> PriorCost, next |-> 1,
   revision |-> 0, pending |-> {}, quote |-> Zeros, cost |-> Zeros,
   observed |-> {}, open |-> {}, credit |-> Zeros]

Init ==
  /\ files = "legacy"
  /\ \E r \in Reports : disk = Blank(r)
  /\ snap = disk
  /\ owner = "none" /\ known = 0 /\ dispatched = {} /\ held = {}
  /\ opens = 0 /\ granted = 0
  /\ posts = Zeros /\ answered = Zeros /\ charge = Zeros
  /\ reported = PriorCost

-----------------------------------------------------------------------------
(***************************************************************************)
(* Reading and writing the record.  Definitions named Buggy... are the     *)
(* mutants PROJECT.json lists: none of them is part of Spec.               *)
(***************************************************************************)

\* _current: the owner is usable and the file still holds what it last wrote.
Current == owner = "live" /\ known = disk.revision

\* _commit: the new record is written, synced and renamed into place.
Commit(new) ==
  /\ new.revision <= MaxRevision
  /\ disk' = new /\ known' = new.revision
  /\ UNCHANGED owner

\* _commit followed by the report save of the same handler, which may fail in
\* turn and poison the owner behind the committed record.
CommitAndSave(new) ==
  /\ new.revision <= MaxRevision
  /\ \E r \in Reports : disk' = [new EXCEPT !.report = r]
  /\ known' = new.revision
  /\ owner' \in {"live", "poisoned"}

\* _commit failing before the rename, or at the directory barrier after it:
\* the file holds the old or the new record, and the owner is poisoned.
CommitFails(new) ==
  /\ new.revision <= MaxRevision
  /\ disk' \in {disk, new}
  /\ owner' = "poisoned" /\ known' = known

Write(new) == Commit(new) \/ CommitFails(new)

\* The quotes still held, per attempt, and their sum.
Holds(d) == [a \in Attempts |-> IF a \in d.pending THEN d.quote[a] ELSE 0]
Held(d) == Total(MaxAttempt, Holds(d))

BuggyCommitted(d) == Larger(d.floor, d.usage)
\* What reserve counts against the limit: known spend and every open hold.
Committed(d) == Larger(d.floor, d.usage) + Held(d)

BuggyFits(d, q) == Committed(d) <= d.limit
Fits(d, q) == Committed(d) + q <= d.limit

BuggyRoomForHold(d) == Cardinality(d.pending) < MaxPending /\ d.revision < MaxRevision
RoomForHold(d) ==
  /\ Cardinality(d.pending) < MaxPending
  /\ d.next <= MaxAttempt /\ d.revision < MaxRevision

BuggyTightened(d, l) ==
  IF l < d.limit THEN [d EXCEPT !.limit = l, !.revision = @ + 1, !.pending = {}] ELSE d
\* A saved limit under an ordinary option l: it may only go down.
Tightened(d, l) == IF l < d.limit THEN [d EXCEPT !.limit = l, !.revision = @ + 1] ELSE d

\* require_resumable: no provider charge is uncertain.
Resumable(d) == d.pending = {}

\* restore_projection: the older report under the current finances.
Restored(old, now) == [now EXCEPT !.report = old.report]

\* The record reserve writes: attempt d.next is handed out with a hold of q.
Reserved(d, q) ==
  [d EXCEPT !.next = d.next + 1, !.revision = @ + 1,
            !.pending = @ \union {d.next}, !.quote[d.next] = q]

BuggySettled(d, a, actual, usage) ==
  [d EXCEPT !.pending = @ \ {a}, !.open = @ \ {a}, !.cost[a] = actual, !.usage = usage,
            !.floor = Larger(@ + actual, usage), !.revision = @ + 1]
\* The record settle writes: the hold leaves the pending list, its receipt is
\* marked settled, and the floor rises by what the callback did not cover.
Settled(d, a, actual, usage) ==
  LET credit == IF a \in d.observed THEN d.credit[a] ELSE 0
  IN  [d EXCEPT !.pending = @ \ {a}, !.open = @ \ {a}, !.cost[a] = actual, !.usage = usage,
                !.floor = Larger(@ + Larger(0, actual - credit), usage), !.revision = @ + 1]

\* The record checkpoint_known writes: the callback's cost joins the ledger, and
\* what it added to the floor becomes the credit of its settlement.
Observed(d, a, c) ==
  LET floor == Larger(d.floor, d.usage + c)
  IN  [d EXCEPT !.observed = @ \union {a}, !.open = @ \union {a}, !.usage = @ + c,
                !.floor = floor, !.credit[a] = Smaller(c, floor - d.floor), !.revision = @ + 1]

-----------------------------------------------------------------------------
(***************************************************************************)
(* Ownership.                                                              *)
(***************************************************************************)

\* BudgetJournal.__init__ on a run that was never activated: the stamp is
\* written and synced first, then the first guarded record.
Activate ==
  /\ files = "legacy" /\ owner = "none" /\ opens < MaxOpens
  /\ opens' = opens + 1
  /\ \E l \in Limits :
       /\ granted' = l
       /\ \/ files' = "active" /\ disk' = [disk EXCEPT !.limit = l] /\ owner' = "live"
          \/ files' = "stamp" /\ UNCHANGED <<disk, owner>>
          \/ files' = "active" /\ disk' = [disk EXCEPT !.limit = l] /\ UNCHANGED owner
  /\ known' = 0 /\ snap' = disk'
  /\ UNCHANGED <<dispatched, held, provider, reported>>

\* own_journal on an activated run: a higher limit is refused, a lower one is
\* made durable, and only then does require_resumable turn away an owner while
\* a provider charge is uncertain.  The new owner reads the record at once.
Open ==
  /\ files = "active" /\ owner = "none" /\ opens < MaxOpens
  /\ opens' = opens + 1
  /\ \E l \in Limits :
       LET new == Tightened(disk, l)
       IN  /\ l <= disk.limit /\ new.revision <= MaxRevision
           /\ \/ /\ Resumable(new)
                 /\ disk' = new /\ owner' = "live" /\ known' = new.revision
              \/ disk' \in {disk, new} /\ UNCHANGED <<owner, known>>
  /\ snap' = disk'
  /\ UNCHANGED <<files, dispatched, held, granted, provider, reported>>

\* The owning process dies or closes the journal: the lock goes with it, and
\* so does everything in memory.  The provider keeps what it was sent.
Crash ==
  /\ owner # "none"
  /\ owner' = "none" /\ known' = 0 /\ dispatched' = {} /\ held' = {} /\ snap' = disk
  /\ UNCHANGED <<files, disk, opens, granted, provider, reported>>

\* _current cannot read or verify the record, or checkpoint_known meets a
\* receipt beyond MaxPending: the owner is poisoned and nothing is written.
Poison ==
  /\ owner = "live"
  /\ owner' = "poisoned"
  /\ UNCHANGED <<files, disk, known, dispatched, held, snap, opens, granted, provider, reported>>

\* increase_limit: an explicit operator decision, never a decrease.
IncreaseLimit ==
  /\ Current
  /\ \E l \in Limits :
       /\ l >= disk.limit
       /\ Write([disk EXCEPT !.limit = l, !.revision = @ + 1])
       /\ granted' = Larger(granted, l)
  /\ UNCHANGED <<files, dispatched, held, snap, opens, provider, reported>>

\* restore_limit on the owner this process already has.
RestoreLimit ==
  /\ Current
  /\ \E l \in Limits : l < disk.limit /\ Write(Tightened(disk, l))
  /\ UNCHANGED <<files, dispatched, held, snap, opens, granted, provider, reported>>

-----------------------------------------------------------------------------
(***************************************************************************)
(* Admission and dispatch.                                                 *)
(***************************************************************************)

\* reserve: the hold is on disk before its id is handed to the caller.
Reserve ==
  /\ Current /\ RoomForHold(disk)
  /\ \E q \in Quotes :
       /\ Fits(disk, q)
       /\ \/ Commit(Reserved(disk, q)) /\ held' = held \union {disk.next}
          \/ CommitFails(Reserved(disk, q)) /\ UNCHANGED held
  /\ UNCHANGED <<files, dispatched, snap, opens, granted, provider, reported>>

BuggyUnconsumed(a) == a \in disk.pending
\* authorize: the admission is durable and was not consumed before.
Unconsumed(a) == a \in disk.pending /\ a \notin dispatched

\* authorize and, with no await in between, the POST it admits.
Dispatch(a) ==
  /\ Current /\ a \in held /\ Unconsumed(a)
  /\ dispatched' = dispatched \union {a}
  /\ posts' = [posts EXCEPT ![a] = @ + 1]
  /\ UNCHANGED <<files, disk, owner, known, held, snap, opens, granted, answered, charge, reported>>

\* The provider completes a POST and bills at most its quote (the request
\* carries a hard output cap), whether or not its sender still exists.
Answer(a) ==
  /\ answered[a] < posts[a]
  /\ answered' = [answered EXCEPT ![a] = @ + 1]
  /\ \E c \in 0..disk.quote[a] : charge' = [charge EXCEPT ![a] = @ + c]
  /\ UNCHANGED <<files, disk, process, opens, granted, posts, reported>>

-----------------------------------------------------------------------------
(***************************************************************************)
(* Reports.                                                                *)
(***************************************************************************)

\* The sum of the reported costs the record carries once a write ends.
Report(c) == reported' = IF disk'.revision = disk.revision THEN reported ELSE reported + c

\* record_sdk_usage for a response with usage: its cost is priced between the
\* charge and the quote, and the ledger adds it unless a callback already did
\* or the model has no rate.
Settle(a) ==
  /\ Current
  /\ a \in held /\ a \in disk.pending /\ answered[a] > 0
  /\ a \in disk.observed => a \in disk.open
  /\ \E actual \in charge[a]..disk.quote[a] :
     \E est \in (IF a \in disk.observed THEN {0} ELSE {0, actual}) :
       LET new == Settled(disk, a, actual, disk.usage + est)
       IN  /\ \/ CommitAndSave(new) /\ dispatched' = dispatched \ {a}
              \/ CommitFails(new) /\ UNCHANGED dispatched
           /\ Report(est)
  /\ UNCHANGED <<files, held, snap, opens, granted, provider>>

\* A thread reads the record: snapshot() releases the lock as it returns.
TakeSnapshot ==
  /\ Current
  /\ snap' = disk
  /\ UNCHANGED <<files, disk, owner, known, dispatched, held, opens, granted, provider, reported>>

BuggyFresh(d) == TRUE
\* The compare of settle and write_projection: the record has not moved on.
Fresh(d) == snap.revision = d.revision

BuggyUnposted(a) == TRUE
\* web_search: "dispatched" was never set, so the admission is provably unused.
Unposted(a) == posts[a] = 0

\* release_web_search_call of an unused admission: settle at no cost, with the
\* snapshot taken a lock section earlier.
SettleUnused(a) ==
  /\ Current
  /\ a \in held /\ a \in disk.pending /\ Unposted(a) /\ Fresh(disk)
  /\ Write(Settled(disk, a, 0, snap.usage))
  /\ UNCHANGED <<files, dispatched, held, snap, opens, granted, provider, reported>>

\* record_observed_llm_cost: the provider callback of an answered request, kept
\* once per response while the receipts have room.
ObserveCost(a) ==
  /\ Current
  /\ a \in held /\ answered[a] > 0 /\ charge[a] > 0
  /\ a \notin disk.observed /\ Cardinality(disk.observed) < MaxPending
  /\ Write(Observed(disk, a, charge[a]))
  /\ Report(charge[a])
  /\ UNCHANGED <<files, dispatched, held, snap, opens, granted, provider>>

\* write_projection: a report saved over finances it has not changed.
SaveReport ==
  /\ Current /\ Fresh(disk)
  /\ \E r \in Reports : Write([disk EXCEPT !.report = r])
  /\ UNCHANGED <<files, dispatched, held, snap, opens, granted, provider, reported>>

\* restore_projection: a rollback to an older report, by the owner or, when the
\* run has none, by a temporary one.
RollBack ==
  /\ \/ Current /\ Write(Restored(snap, disk))
     \/ /\ files = "active" /\ owner = "none"
        /\ disk' \in {disk, Restored(snap, disk)} /\ UNCHANGED <<owner, known>>
  /\ UNCHANGED <<files, dispatched, held, snap, opens, granted, provider, reported>>

Next ==
  \/ Activate \/ Open \/ Crash \/ Poison \/ IncreaseLimit \/ RestoreLimit
  \/ Reserve \/ TakeSnapshot \/ SaveReport \/ RollBack
  \/ \E a \in Attempts :
       Dispatch(a) \/ Answer(a) \/ Settle(a) \/ SettleUnused(a) \/ ObserveCost(a)

Spec == Init /\ [][Next]_vars

-----------------------------------------------------------------------------
(***************************************************************************)
(* Properties.                                                             *)
(***************************************************************************)

\* Every variable keeps its type, revisions and attempt numbers their bounds.
TypeOK ==
  /\ files \in {"legacy", "stamp", "active"}
  /\ disk \in Records /\ snap \in Records
  /\ owner \in {"none", "live", "poisoned"} /\ known \in Nat
  /\ dispatched \subseteq Attempts /\ held \subseteq Attempts
  /\ opens \in 0..MaxOpens /\ granted \in Nat /\ reported \in Nat
  /\ posts \in [Attempts -> Nat] /\ answered \in [Attempts -> Nat]
  /\ charge \in [Attempts -> Nat]

\* The most attempt a may still be found to have cost, from the record alone.
Exposure(a) == IF a \in disk.pending THEN disk.quote[a] ELSE disk.cost[a]

\* Whatever the provider billed for an attempt is in the record, as the attempt's
\* open hold or as its settled cost, at every moment: across a crash between the
\* POST and its report, a failed write, and a release of an unused admission.
ChargesAreCovered == \A a \in Attempts : charge[a] <= Exposure(a)

\* The bills of all attempts together, with the spend known before, never pass
\* the highest limit the operator set, however reservations, reports, callbacks,
\* crashes and limit changes interleave.
SpendWithinGrant ==
  PriorCost + Total(MaxAttempt, charge) <= Larger(granted, PriorCost)

\* An admission pays for one POST: a provider retry, a replay after a failed
\* write or a second process never sends an attempt again.
SinglePost == \A a \in Attempts : posts[a] <= 1

\* How much of the floor came from callbacks whose response is not settled.
OpenCredit(d) == [a \in Attempts |-> IF a \in d.open THEN d.credit[a] ELSE 0]

\* The known floor is the prior spend, each settled cost once, and the credit of
\* callbacks not settled yet: a callback and its settlement are never counted
\* twice and never lost, in either order.
FloorCountsOnce ==
  disk.floor = PriorCost + Total(MaxAttempt, disk.cost) + Total(MaxAttempt, OpenCredit(disk))

\* No reported cost is lost from the public ledger: a settlement computed from a
\* snapshot the record has moved past never overwrites a later report.
LedgerKeepsReports == disk.usage = reported

\* A live owner sees no hold of another process: each open hold has a caller in
\* this process, so paid work never resumes over an uncertain charge.
HoldsHaveCallers == owner = "live" => disk.pending \subseteq held

\* The saved limit rises only when the operator raises it: a restart, an ordinary
\* option or a rollback of the report never widens it.
WidensOnlyExplicitly == [][disk'.limit > disk.limit => Activate \/ IncreaseLimit]_vars

\* An open hold leaves the record only at the hand of the live process that was
\* given it; a crash, a reopen, a tightened limit or a rollback keeps it.
HoldsSurvive ==
  [][\A a \in disk.pending \ disk'.pending : owner = "live" /\ a \in held]_vars

\* Once a write failed, the owner neither writes the record nor posts again.
PoisonedIsInert == [][owner = "poisoned" => UNCHANGED <<disk, posts>>]_vars

\* The journal implements the promise made to the operator.
Promise == INSTANCE SpendPromise WITH exposure <- [a \in Attempts |-> Exposure(a)]
KeepsPromise == Promise!Spec
=============================================================================
