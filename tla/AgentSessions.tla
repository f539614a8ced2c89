---------------------------- MODULE AgentSessions ----------------------------
(***************************************************************************)
(* The stored conversation of one agent (lifecycle/sessions.py) and its    *)
(* compaction (lifecycle/compaction.py), as the cycles of the agent use    *)
(* them (lifecycle/execution.py).                                          *)
(*                                                                         *)
(* A cycle bounds the screenshots, compacts a long conversation, remembers *)
(* what it read and calls the model.  A run that fails may be repeated on  *)
(* a conversation without screenshots, without secrets or with an older    *)
(* part replaced by a summary; a run that fails for good is salvaged.  All *)
(* of these rewrite the conversation: they read it, clear it and store the *)
(* new one, three calls of the database that other writes can fall between.*)
(***************************************************************************)
EXTENDS Naturals, Sequences, FiniteSets

CONSTANTS
  Keep,            \* context.keep_tokens, each item counting one
  Room,            \* the tokens a conversation may have before it is compacted
  MinItems,        \* _MIN_ITEMS_TO_COMPACT
  MaxImages,       \* max_context_images
  MaxStrips,       \* screenshots are removed so often in a cycle
  MaxCompactions,  \* _MAX_COMPACTIONS_PER_CYCLE
  MaxFilters,      \* _MAX_CONTENT_FILTER_RETRIES
  MaxItems,        \* bound: items ever stored
  MaxFaults,       \* bound: database calls that fail
  MaxStops         \* bound: cancellations and deaths

ASSUME SessionsAssumption ==
  /\ {Keep, Room, MaxImages, MaxStrips, MaxCompactions, MaxFilters, MaxItems, MaxFaults, MaxStops} \subseteq Nat
  /\ MinItems \in Nat \ {0}

VARIABLES
  session,  \* the items in agents.db
  at,       \* where the cycle is
  read,     \* pre_run_items: what it read before the run
  copy,     \* the items a compaction summarises
  work,     \* the rewrite under way: its old and new items, where it leads
  forced,   \* the compaction answers an overflow
  tries,    \* the recoveries of this cycle, per reason
  late,     \* a message whose append goes on after its task was cancelled
  made,     \* how many items came to be
  faults,   \* database calls that failed
  stops     \* cancellations and deaths

vars == <<session, at, read, copy, work, forced, tries, late, made, faults, stops>>

Reasons == {"image", "overflow", "filter"}
Limit == [image |-> MaxStrips, overflow |-> MaxCompactions, filter |-> MaxFilters]
NoTries == [r \in Reasons |-> 0]
NoWork == [old |-> <<>>, new |-> <<>>, next |-> "idle", failed |-> "idle"]

\* An item names the one the provider wants before it: a result its call, a call the
\* reasoning it came from.  A summary names the items it stands for.
Item(id, kind, tie) == [id |-> id, kind |-> kind, tie |-> tie, covers |-> {}]

Init ==
  /\ session = <<Item(1, "text", 0)>> /\ made = 1
  /\ at = "idle" /\ read = <<>> /\ copy = <<>> /\ work = NoWork /\ forced = FALSE
  /\ tries = NoTries /\ late = <<>>
  /\ faults = 0 /\ stops = 0

Fault == faults < MaxFaults /\ faults' = faults + 1
NoFault == faults' = faults

\* What a cycle holds in its locals goes with it.
CycleOver == read' = <<>> /\ copy' = <<>> /\ tries' = NoTries /\ forced' = FALSE

Positions(s) == 0..Len(s)
Before(s, n) == SubSeq(s, 1, n)
After(s, n) == SubSeq(s, n + 1, Len(s))
Ids(s) == (UNION {{s[i].id} \cup s[i].covers : i \in DOMAIN s}) \ {0}

-----------------------------------------------------------------------------
(* Compaction: what is kept, and the summary of the rest. *)

IsOutput(item) == item.kind \in {"output", "shot", "elided"}

\* Calls before position n that wait for their result; results without a call do not
\* count below zero.
OpenCallsAt(s) ==
  LET open[n \in Positions(s)] ==
        IF n = 0 THEN 0
        ELSE CASE s[n].kind = "call" -> open[n - 1] + 1
               [] IsOutput(s[n]) /\ open[n - 1] > 0 -> open[n - 1] - 1
               [] OTHER -> open[n - 1]
  IN open

Least(S) == CHOOSE n \in S : \A k \in S : n <= k
Greatest(S) == CHOOSE n \in S : \A k \in S : n >= k

\* Mutant: the tail may begin between a call and its result, or after a reasoning.
BuggySelectSplit(s) == IF Len(s) > Keep THEN Len(s) - Keep ELSE 0

\* How many items go into the summary.  The newest Keep stay, then the boundary moves:
\* back to where no call is open, on past results, back over reasoning.
SelectSplit(s) ==
  LET recent == IF Len(s) > Keep THEN Len(s) - Keep ELSE 0
      open == OpenCallsAt(s)
      closed == Greatest({n \in 0..recent : open[n] = 0})
      past == Least({n \in closed..Len(s) : n = Len(s) \/ ~IsOutput(s[n + 1])})
  IN Greatest({n \in 0..past : n = 0 \/ s[n].kind # "reasoning"})

Summary(s) == [id |-> 0, kind |-> "text", tie |-> 0, covers |-> Ids(s)]
Compacted(s) == <<Summary(Before(s, SelectSplit(s)))>> \o After(s, SelectSplit(s))

\* maybe_compact up to the call of the model: long enough, over the room or forced, and
\* something to summarise.
Compactable(s, force) ==
  /\ Len(s) >= MinItems
  /\ force \/ Len(s) > Room
  /\ SelectSplit(s) > 0

-----------------------------------------------------------------------------
(* Rewriting: read, clear, store; the old items come back when the store fails. *)

\* A rewrite of the items old to new begins; it goes on at next, or at failed.
Rewrite(old, new, next, failed) ==
  /\ at' = "clear"
  /\ work' = [old |-> old, new |-> new, next |-> next, failed |-> failed]

Return(point) == at' = point /\ work' = NoWork

Clear ==
  /\ at = "clear"
  /\ \/ NoFault /\ session' = <<>> /\ at' = "store" /\ UNCHANGED work
     \/ Fault /\ Return(work.failed) /\ UNCHANGED session
  /\ UNCHANGED <<read, copy, forced, tries, late, made, stops>>

Store ==
  /\ at = "store"
  /\ \/ NoFault /\ session' = session \o work.new /\ Return(work.next)
     \/ Fault /\ at' = "clear again" /\ UNCHANGED <<session, work>>
  /\ UNCHANGED <<read, copy, forced, tries, late, made, stops>>

\* The restore of the old items clears once more what came in between.
ClearAgain ==
  /\ at = "clear again"
  /\ \/ NoFault /\ session' = <<>> /\ at' = "restore" /\ UNCHANGED work
     \/ Fault /\ Return(work.failed) /\ UNCHANGED session
  /\ UNCHANGED <<read, copy, forced, tries, late, made, stops>>

\* Mutant: nothing is stored again.
BuggyRestored(w) == <<>>
Restored(w) == w.old

Restore ==
  /\ at = "restore"
  /\ Return(work.failed)
  /\ \/ NoFault /\ session' = session \o Restored(work)
     \/ Fault /\ UNCHANGED session
  /\ UNCHANGED <<read, copy, forced, tries, late, made, stops>>

Rewriting == at \in {"clear", "store", "clear again", "restore"}

-----------------------------------------------------------------------------
(* A cycle, up to the call of the model. *)

Begin ==
  /\ at = "idle"
  /\ at' = "images"
  /\ UNCHANGED <<session, read, copy, work, forced, tries, late, made, faults, stops>>

Shots(s) == {i \in DOMAIN s : s[i].kind = "shot"}
Elided(s, S) == [i \in DOMAIN s |-> IF i \in S THEN [s[i] EXCEPT !.kind = "elided"] ELSE s[i]]

\* enforce_image_budget: only the newest screenshots stay.  A failure is logged.
EnforceImageBudget ==
  /\ at = "images"
  /\ LET old == {i \in Shots(session) : Cardinality({j \in Shots(session) : j > i}) >= MaxImages}
     IN \/ NoFault /\ old = {} /\ at' = "compact" /\ UNCHANGED work
        \/ NoFault /\ old # {} /\ Rewrite(session, Elided(session, old), "compact", "compact")
        \/ Fault /\ at' = "compact" /\ UNCHANGED work
  /\ read' = <<>>
  /\ UNCHANGED <<session, copy, forced, tries, late, made, stops>>

\* Where a compaction leads: the proactive one to the call in any case, the forced one
\* to another turn of the cycle or to the end of it.
AfterCompaction(done) == IF ~forced THEN "call" ELSE IF done THEN "images" ELSE "salvage"

\* The copy that is summarised.
Compact ==
  /\ at = "compact"
  /\ IF Compactable(session, forced)
     THEN at' = "summary" /\ copy' = session /\ UNCHANGED forced
     ELSE at' = AfterCompaction(FALSE) /\ forced' = FALSE /\ UNCHANGED copy
  /\ UNCHANGED <<session, read, work, tries, late, made, faults, stops>>

\* Mutant: the history is not compared with the copy that was summarised.
BuggyUnchangedSince(items) == TRUE
UnchangedSince(items) == session = items

\* The summary arrives, or there is none: the model failed or refused, the answer was
\* incomplete, the budget refused the request, there was no room for it.
Summarise ==
  /\ at = "summary"
  /\ \/ UnchangedSince(copy)
        /\ Rewrite(session, Compacted(copy), AfterCompaction(TRUE), AfterCompaction(FALSE))
     \/ at' = AfterCompaction(FALSE) /\ UNCHANGED work
  /\ copy' = <<>> /\ forced' = FALSE
  /\ UNCHANGED <<session, read, tries, late, made, faults, stops>>

\* What a salvage will put before the replay; a failed read counts as nothing.
Call ==
  /\ at = "call" /\ at' = "running"
  /\ \/ NoFault /\ read' = session
     \/ Fault /\ read' = <<>>
  /\ UNCHANGED <<session, copy, work, forced, tries, late, made, stops>>

-----------------------------------------------------------------------------
(* A run of the model, and what a failed one leads to. *)

\* What a turn of the model adds: a screenshot, parallel calls, a call with reasoning.
Turn(n) ==
  {<<Item(n, "call", 0), Item(n + 1, "shot", n)>>,
   <<Item(n, "call", 0), Item(n + 1, "call", 0), Item(n + 2, "output", n), Item(n + 3, "output", n + 1)>>,
   <<Item(n, "reasoning", 0), Item(n + 1, "call", n), Item(n + 2, "output", n + 1)>>}

\* The library stores whole turns; the part of a turn that a failure left unstored is
\* known to the stream, with or without the result of its call.
Unstored(n) ==
  {<<>>, <<Item(n, "reasoning", 0), Item(n + 1, "call", n)>>,
   <<Item(n, "call", 0), Item(n + 1, "output", n)>>}

Fits(items) == made + Len(items) <= MaxItems

StoreTurn ==
  /\ at = "running"
  /\ \E items \in Turn(made + 1) : Fits(items) /\ session' = session \o items /\ made' = made + Len(items)
  /\ UNCHANGED <<at, read, copy, work, forced, tries, late, faults, stops>>

Message == <<Item(made + 1, "text", 0)>>

\* consume_pending, between cycles and by the tools of a run.  A message that cannot be
\* stored goes back to the mailbox.
Hear ==
  /\ at \in {"idle", "running"} /\ Fits(Message)
  /\ session' = session \o Message /\ made' = made + 1
  /\ UNCHANGED <<at, read, copy, work, forced, tries, late, faults, stops>>

\* A message cancels the stream while one of its tools stores an earlier message: the
\* task is gone, its lock is free and the database call goes on in its thread.
Interrupt ==
  /\ at = "running" /\ late = <<>> /\ Fits(Message)
  /\ late' = Message /\ made' = made + 1 /\ at' = "idle" /\ CycleOver
  /\ UNCHANGED <<session, work, faults, stops>>

LateAppend ==
  /\ late # <<>>
  /\ session' = session \o late /\ late' = <<>>
  /\ UNCHANGED <<at, read, copy, work, forced, tries, made, faults, stops>>

\* The run ends, is refused by the budget, or the cycle finds that the agent is stopped
\* or the scan paused, before it calls the model or repeats the turn.
Finish ==
  /\ at \in {"images", "running"} /\ at' = "idle" /\ CycleOver
  /\ UNCHANGED <<session, work, late, made, faults, stops>>

\* Mutant: a compaction after an overflow is not counted.
BuggyCounted(reason) == IF reason = "overflow" THEN tries ELSE [tries EXCEPT ![reason] = @ + 1]

\* A recovery is counted when it begins: one that comes to nothing ends the cycle, or
\* is counted as well (the content filter).
Counted(reason) == [tries EXCEPT ![reason] = @ + 1]

Recovers(reason) == tries[reason] < Limit[reason] /\ tries' = Counted(reason)

\* The provider rejects screenshots, and there are some to remove.
RejectImages ==
  /\ at = "running" /\ Recovers("image") /\ Shots(session) # {}
  /\ Rewrite(session, Elided(session, Shots(session)), "images", "salvage")
  /\ UNCHANGED <<session, read, copy, forced, late, made, faults, stops>>

\* The context overflows: the compaction is forced.
Overflow ==
  /\ at = "running" /\ Recovers("overflow")
  /\ at' = "compact" /\ forced' = TRUE
  /\ UNCHANGED <<session, read, copy, work, late, made, faults, stops>>

\* A content filter blocks: the secrets that are found are redacted, which leaves the
\* items what they are here; the turn is repeated in any case, with a caution that is
\* one more message.
ContentFilter ==
  /\ at = "running" /\ Recovers("filter")
  /\ \/ Rewrite(session, session, "images", "images")
     \/ at' = "images" /\ UNCHANGED work
  /\ UNCHANGED <<session, read, copy, forced, late, made, faults, stops>>

\* Any other failure, or one whose recoveries are used up.
Fail ==
  /\ at = "running" /\ at' = "salvage"
  /\ UNCHANGED <<session, read, copy, work, forced, tries, late, made, faults, stops>>

\* _salvage_stream_to_session: what was read before the run and the replay of it, unless
\* the conversation has another length by now.
Salvage ==
  /\ at = "salvage"
  /\ \E items \in Unstored(made + 1) :
       /\ Fits(items)
       /\ IF items # <<>> /\ Len(session) = Len(read)
          THEN Rewrite(session, read \o items, "idle", "idle") /\ made' = made + Len(items)
          ELSE at' = "idle" /\ UNCHANGED <<work, made>>
  /\ CycleOver
  /\ UNCHANGED <<session, late, faults, stops>>

-----------------------------------------------------------------------------
\* The task is cancelled or the process dies: the database call under way is done or
\* not, the rest of a rewrite is not.  Afterwards the agent starts from what is stored.
Stop ==
  /\ at # "idle" /\ stops < MaxStops /\ stops' = stops + 1
  /\ Return("idle") /\ CycleOver /\ late' = <<>>
  /\ \/ UNCHANGED session
     \/ at \in {"clear", "clear again"} /\ session' = <<>>
     \/ at = "store" /\ session' = session \o work.new
     \/ at = "restore" /\ session' = session \o work.old
     \/ late # <<>> /\ session' = session \o late
  /\ UNCHANGED <<made, faults>>

Cycle ==
  \/ EnforceImageBudget \/ Compact \/ Summarise \/ Call
  \/ Clear \/ Store \/ ClearAgain \/ Restore
  \/ StoreTurn \/ Finish \/ RejectImages \/ Overflow \/ ContentFilter \/ Fail \/ Salvage

Next == Begin \/ Cycle \/ Hear \/ Interrupt \/ LateAppend \/ Stop

\* The event loop runs the cycle; calls of the model and of the database return.
Spec == Init /\ [][Next]_vars /\ WF_vars(Cycle)

-----------------------------------------------------------------------------
\* The provider never gets a result without its call, or a call without the reasoning
\* it came from, however the conversation was cut.
PairsStayTogether ==
  \A i \in DOMAIN session : session[i].tie # 0 => \E j \in 1..i - 1 : session[j].id = session[i].tie

\* A rewrite is cut off: by a stop, by a failure when its failure is undone, or by a
\* message between its steps.
CutOff ==
  \/ Stop /\ (Rewriting \/ late # <<>>)
  \/ at \in {"clear again", "restore"} /\ faults' # faults
  \/ at \in {"clear", "clear again"} /\ session \notin {work.old, <<>>}

\* A rewrite that failed left another conversation, as long as what was read before the
\* run: the salvage, which compares lengths, stores what was read in its place.
Mistaken ==
  /\ at = "store" /\ work.next = "idle" /\ faults > 0
  /\ Before(work.new, Len(work.old)) # work.old

Known == Ids(session \o late \o work.old)

\* What the agent was told or did stays in its conversation or under a summary, through
\* every rewrite, failed store, recovery and salvage that is not cut off or mistaken.
NothingIsForgotten == [][Known \subseteq Known' \/ CutOff \/ Mistaken]_vars

\* A cycle ends: a failure it recovers from does not bring it back for ever.
CycleEnds == at = "images" ~> at = "idle"
=============================================================================
