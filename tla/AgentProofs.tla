---------------------------- MODULE AgentProofs -----------------------------
(***************************************************************************)
(* Theorems about AgentLoop and AgentRestart, for every set of agents,     *)
(* every tree of parents and every limit.  First what holds whatever the   *)
(* tasks of the agents are at: the stop for the budget, the stops of the   *)
(* operator and the snapshot.                                              *)
(*                                                                         *)
(*   Sound: the graph has its types, a stop that was asked for is the      *)
(*   agent's status until it is taken back, and nobody is held when        *)
(*   nothing is paused.                                                    *)
(*   Calm: an operation keeps the graph sound, starts no turn, lifts no    *)
(*   pause and takes back no stop.  Calm operations compose (CalmTwice),   *)
(*   so that every handler but two is calm because its parts are.          *)
(*   Flows: a turn is started by StartTurn alone, where nothing is paused  *)
(*   and the agent is not stopped; a pause is lifted by ResumeAll alone.   *)
(*                                                                         *)
(* Then what relates an agent to the point its task is at.                 *)
(*                                                                         *)
(*   Local: what the fields of an agent are at each point of its task.     *)
(*   Near(g, e, X): the graph is sound and every agent but those in X is in*)
(*   its place.  A handler takes its own agent out, changes it, sends      *)
(*   messages that leave all others in place, and puts it back.            *)
(*   Amid, Cycles, Rests: what a handler knows of its agent until then.    *)
(*   Steady: what no step but a registration and the opening of the report *)
(*   takes back.                                                           *)
(*   Placed: every agent is in its place.  It is inductive (NearStep).     *)
(*                                                                         *)
(* The operations on a whole tree (StopTree, WrapSent, Respawned, Below)   *)
(* are taken apart as walks along Line, by induction on the length walked. *)
(* RInv adds what the snapshot says, and needs nothing about `at`: a       *)
(* process may die between any two steps.                                  *)
(***************************************************************************)
EXTENDS AgentRestart, TotalsProofs

Fields == {"status", "at", "kind", "gate", "wake", "mail", "pend", "told", "stopped", "parks", "recov",
           "idle", "turns", "notices", "paused", "bstop", "rstop", "closing", "delegate", "clock"}

\* The types of the record, with every counter below what AgentGraph allows it.
Typed(g) ==
  /\ DOMAIN g = Fields
  /\ g.status \in [Agents -> Statuses] /\ g.at \in [Agents -> Points]
  /\ g.kind \in [Agents -> {"none", "user", "agents", "stalled"}]
  /\ g.gate \in [Agents -> BOOLEAN] /\ g.wake \in [Agents -> BOOLEAN]
  /\ g.mail \in [Agents -> BOOLEAN] /\ g.pend \in [Agents -> BOOLEAN]
  /\ g.told \in [Agents -> BOOLEAN] /\ g.stopped \in [Agents -> BOOLEAN]
  /\ g.parks \in [Agents -> BOOLEAN]
  /\ g.recov \in [Agents -> Nat] /\ g.idle \in [Agents -> Nat]
  /\ g.turns \in [Agents -> 0..TurnLimit] /\ g.notices \in [Agents -> 0..2]
  /\ g.paused \in BOOLEAN /\ g.bstop \in BOOLEAN /\ g.rstop \in BOOLEAN
  /\ g.closing \in BOOLEAN /\ g.delegate \in BOOLEAN
  /\ g.clock \in {"early", "wrap", "told", "past", "fired"}

\* Only the fields in F may differ.
Keeps(g, h, F) == DOMAIN h = Fields /\ \A f \in Fields \ F : h[f] = g[f]

\* The ranges of the operations' arguments, under a name: the prover then treats a
\* member like any other value.
Kinds == {"user", "agents", "stalled"}
Flags == BOOLEAN
Ends == {"failed", "crashed", "completed", "stopped"}

\* Every update of the record keeps its types. One lemma an update: what it changes,
\* then the types.
LEMMA DeliverTyped ==
  ASSUME NEW g, Typed(g), NEW a \in Agents, NEW user \in Flags
  PROVE  Typed(Deliver(g, a, user))
<1> DEFINE h == Deliver(g, a, user)
<1>1. /\ Keeps(g, h, {"status", "mail", "pend", "wake", "gate", "told", "kind", "recov", "idle", "notices"})
      /\ h.status = [g.status EXCEPT ![a] = Received(g, a, user)]
      /\ h.mail = [g.mail EXCEPT ![a] = TRUE]
      /\ h.pend = [g.pend EXCEPT ![a] = TRUE]
      /\ h.wake = [g.wake EXCEPT ![a] = @ \/ ~g.paused]
      /\ h.gate = [g.gate EXCEPT ![a] = @ /\ ~user]
      /\ h.told = [g.told EXCEPT ![a] = @ /\ ~user]
      /\ h.kind = [g.kind EXCEPT ![a] = IF user THEN "none" ELSE @]
      /\ h.recov = [g.recov EXCEPT ![a] = IF user THEN 0 ELSE @]
      /\ h.idle = [g.idle EXCEPT ![a] = IF user THEN 0 ELSE @]
      /\ h.notices = [g.notices EXCEPT ![a] = IF user THEN 0 ELSE @]
  BY DEF Deliver, Flags, Typed, Fields, Keeps
<1> HIDE DEF h
<1>2. Received(g, a, user) \in Statuses /\ user \in BOOLEAN
  BY DEF Statuses, Active, Errors, Points, Kinds, Received, Typed, Flags
<1>3. h.notices \in [Agents -> 0..2] /\ h.status \in [Agents -> Statuses]
  BY <1>1, <1>2 DEF Typed, Keeps, Fields
<1>4. h.paused = g.paused /\ h.turns = g.turns
  BY <1>1 DEF Keeps, Fields
<1>5. Typed(h)
  BY <1>1, <1>2, <1>3, <1>4 DEF Typed, Keeps, Fields
<1>6. QED
  BY <1>5 DEF h

LEMMA CountedTyped ==
  ASSUME NEW g, Typed(g), NEW a \in Agents
  PROVE  Typed(Counted(g, a))
<1> DEFINE h == Counted(g, a)
<1>1. /\ Keeps(g, h, {"notices"})
      /\ h.notices = [g.notices EXCEPT ![a] = IF Accepts(g, Parent[a], FALSE) /\ @ < 2 THEN @ + 1 ELSE @]
  BY DEF Counted, Typed, Fields, Keeps
<1> HIDE DEF h
<1>2. h.notices \in [Agents -> 0..2]
  <2>1. g.notices[a] \in 0..2
    BY DEF Typed
  <2>2. g.notices[a] < 2 => g.notices[a] + 1 \in 0..2
    BY <2>1
  <2>3. (IF Accepts(g, Parent[a], FALSE) /\ g.notices[a] < 2 THEN g.notices[a] + 1 ELSE g.notices[a]) \in 0..2
    BY <2>1, <2>2
  <2>4. QED
    BY <1>1, <2>3 DEF Typed
<1>3. Typed(h)
  BY <1>1, <1>2 DEF Typed, Keeps, Fields
<1>4. QED
  BY <1>3 DEF h

LEMMA TakeMailTyped ==
  ASSUME NEW g, Typed(g), NEW a \in Agents
  PROVE  Typed(TakeMail(g, a))
<1> DEFINE h == TakeMail(g, a)
<1>1. /\ Keeps(g, h, {"mail", "pend"})
      /\ h.mail = [g.mail EXCEPT ![a] = FALSE]
      /\ h.pend = [g.pend EXCEPT ![a] = FALSE]
  BY DEF TakeMail, Typed, Fields, Keeps
<1> HIDE DEF h
<1>2. Typed(h)
  BY <1>1 DEF Typed, Keeps, Fields
<1>3. QED
  BY <1>2 DEF h

LEMMA ReturnMailTyped ==
  ASSUME NEW g, Typed(g), NEW a \in Agents
  PROVE  Typed(ReturnMail(g, a))
<1> DEFINE h == ReturnMail(g, a)
<1>1. /\ Keeps(g, h, {"mail"})
      /\ h.mail = [g.mail EXCEPT ![a] = TRUE]
  BY DEF ReturnMail, Typed, Fields, Keeps
<1> HIDE DEF h
<1>2. Typed(h)
  BY <1>1 DEF Typed, Keeps, Fields
<1>3. QED
  BY <1>2 DEF h

LEMMA SetStatusTyped ==
  ASSUME NEW g, Typed(g), NEW a \in Agents, NEW s \in Ends, ~(g.status[a] = "none" \/ g.stopped[a])
  PROVE  Typed(SetStatus(g, a, s))
<1> DEFINE h == SetStatus(g, a, s)
<1>1. /\ Keeps(g, h, {"status", "gate", "wake"})
      /\ h.status = [g.status EXCEPT ![a] = s]
      /\ h.gate = [g.gate EXCEPT ![a] = s \in Errors]
      /\ h.wake = [g.wake EXCEPT ![a] = TRUE]
  BY DEF SetStatus, Typed, Fields, Keeps
<1> HIDE DEF h
<1>2. s \in Statuses
  BY DEF Statuses, Active, Errors, Points, Kinds, Ends
<1>3. h.notices \in [Agents -> 0..2] /\ h.status \in [Agents -> Statuses]
  BY <1>1, <1>2 DEF Typed, Keeps, Fields
<1>4. h.paused = g.paused /\ h.turns = g.turns
  BY <1>1 DEF Keeps, Fields
<1>5. Typed(h)
  BY <1>1, <1>2, <1>3, <1>4 DEF Typed, Keeps, Fields
<1>6. QED
  BY <1>5 DEF h

LEMMA ParkTyped ==
  ASSUME NEW g, Typed(g), NEW a \in Agents, NEW k \in Kinds, g.status[a] \notin {"none", "stopped"}
  PROVE  Typed(Park(g, a, k))
<1> DEFINE h == Park(g, a, k)
<1>1. /\ Keeps(g, h, {"status", "kind", "gate", "wake"})
      /\ h.status = [g.status EXCEPT ![a] = "waiting"]
      /\ h.kind = [g.kind EXCEPT ![a] = k]
      /\ h.gate = [g.gate EXCEPT ![a] = FALSE]
      /\ h.wake = [g.wake EXCEPT ![a] = TRUE]
  BY DEF Park, Typed, Fields, Keeps
<1> HIDE DEF h
<1>2. "waiting" \in Statuses /\ k \in {"none", "user", "agents", "stalled"}
  BY DEF Statuses, Active, Errors, Points, Kinds
<1>3. Typed(h)
  BY <1>1, <1>2 DEF Typed, Keeps, Fields
<1>4. QED
  BY <1>3 DEF h

LEMMA RunningTyped ==
  ASSUME NEW g, Typed(g), NEW a \in Agents, g.status[a] \in Active, ~g.paused
  PROVE  Typed(MarkRunning(g, a))
<1> DEFINE h == MarkRunning(g, a)
<1>1. /\ Keeps(g, h, {"status", "kind", "gate", "told", "notices"})
      /\ h.status = [g.status EXCEPT ![a] = "running"]
      /\ h.kind = [g.kind EXCEPT ![a] = "none"]
      /\ h.gate = [g.gate EXCEPT ![a] = FALSE]
      /\ h.told = [g.told EXCEPT ![a] = FALSE]
      /\ h.notices = [g.notices EXCEPT ![a] = 0]
  BY DEF MarkRunning, Typed, Fields, Keeps
<1> HIDE DEF h
<1>2. "running" \in Statuses /\ 0 \in 0..2
  BY DEF Statuses, Active, Errors, Points, Kinds
<1>3. h.notices \in [Agents -> 0..2] /\ h.status \in [Agents -> Statuses]
  BY <1>1, <1>2 DEF Typed, Keeps, Fields
<1>4. h.paused = g.paused /\ h.turns = g.turns
  BY <1>1 DEF Keeps, Fields
<1>5. Typed(h)
  BY <1>1, <1>2, <1>3, <1>4 DEF Typed, Keeps, Fields
<1>6. QED
  BY <1>5 DEF h

LEMMA HeldTyped ==
  ASSUME NEW g, Typed(g), NEW a \in Agents, g.status[a] \in Active, g.paused
  PROVE  Typed(MarkRunning(g, a))
<1> DEFINE h == MarkRunning(g, a)
<1>1. /\ Keeps(g, h, {"status"})
      /\ h.status = [g.status EXCEPT ![a] = "budget_paused"]
  BY DEF MarkRunning, Typed, Fields, Keeps
<1> HIDE DEF h
<1>2. "budget_paused" \in Statuses
  BY DEF Statuses, Active, Errors, Points, Kinds
<1>3. h.notices \in [Agents -> 0..2] /\ h.status \in [Agents -> Statuses]
  BY <1>1, <1>2 DEF Typed, Keeps, Fields
<1>4. h.paused = g.paused /\ h.turns = g.turns
  BY <1>1 DEF Keeps, Fields
<1>5. Typed(h)
  BY <1>1, <1>2, <1>3, <1>4 DEF Typed, Keeps, Fields
<1>6. QED
  BY <1>5 DEF h

LEMMA AtTyped ==
  ASSUME NEW g, Typed(g), NEW a \in Agents, NEW p \in Points
  PROVE  Typed(At(g, a, p))
<1> DEFINE h == At(g, a, p)
<1>1. /\ Keeps(g, h, {"at"})
      /\ h.at = [g.at EXCEPT ![a] = p]
  BY DEF At, Typed, Fields, Keeps
<1> HIDE DEF h
<1>2. Typed(h)
  BY <1>1 DEF Typed, Keeps, Fields
<1>3. QED
  BY <1>2 DEF h

LEMMA RegisterTyped ==
  ASSUME NEW g, Typed(g), NEW a \in Agents
  PROVE  Typed(Register(g, a))
<1> DEFINE h == Register(g, a)
<1>1. /\ Keeps(g, h, {"status", "at"})
      /\ h.status = [g.status EXCEPT ![a] = "running"]
      /\ h.at = [g.at EXCEPT ![a] = "enter"]
  BY DEF Register, Typed, Fields, Keeps
<1> HIDE DEF h
<1>2. "running" \in Statuses /\ "enter" \in Points
  BY DEF Statuses, Active, Errors, Points, Kinds
<1>3. Typed(h)
  BY <1>1, <1>2 DEF Typed, Keeps, Fields
<1>4. QED
  BY <1>3 DEF h

LEMMA StopTyped ==
  ASSUME NEW g, Typed(g), NEW a \in Agents
  PROVE  Typed([g EXCEPT !.stopped[a] = TRUE, !.status[a] = "stopped", !.wake[a] = TRUE])
<1> DEFINE h == [g EXCEPT !.stopped[a] = TRUE, !.status[a] = "stopped", !.wake[a] = TRUE]
<1>1. /\ Keeps(g, h, {"stopped", "status", "wake"})
      /\ h.stopped = [g.stopped EXCEPT ![a] = TRUE]
      /\ h.status = [g.status EXCEPT ![a] = "stopped"]
      /\ h.wake = [g.wake EXCEPT ![a] = TRUE]
  BY DEF Active, Typed, Fields, Keeps
<1> HIDE DEF h
<1>2. "stopped" \in Statuses
  BY DEF Statuses, Active, Errors, Points, Kinds
<1>3. Typed(h)
  BY <1>1, <1>2 DEF Typed, Keeps, Fields
<1>4. QED
  BY <1>3 DEF h

LEMMA ToldTyped ==
  ASSUME NEW g, Typed(g), NEW a \in Agents
  PROVE  Typed([g EXCEPT !.told[a] = TRUE])
<1> DEFINE h == [g EXCEPT !.told[a] = TRUE]
<1>1. /\ Keeps(g, h, {"told"})
      /\ h.told = [g.told EXCEPT ![a] = TRUE]
  BY DEF Active, Typed, Fields, Keeps
<1> HIDE DEF h
<1>2. Typed(h)
  BY <1>1 DEF Typed, Keeps, Fields
<1>3. QED
  BY <1>2 DEF h

LEMMA WakeTyped ==
  ASSUME NEW g, Typed(g), NEW a \in Agents
  PROVE  Typed([g EXCEPT !.wake[a] = TRUE])
<1> DEFINE h == [g EXCEPT !.wake[a] = TRUE]
<1>1. /\ Keeps(g, h, {"wake"})
      /\ h.wake = [g.wake EXCEPT ![a] = TRUE]
  BY DEF Active, Typed, Fields, Keeps
<1> HIDE DEF h
<1>2. Typed(h)
  BY <1>1 DEF Typed, Keeps, Fields
<1>3. QED
  BY <1>2 DEF h

LEMMA ArmTyped ==
  ASSUME NEW g, Typed(g), NEW a \in Agents
  PROVE  Typed([g EXCEPT !.wake[a] = FALSE])
<1> DEFINE h == [g EXCEPT !.wake[a] = FALSE]
<1>1. /\ Keeps(g, h, {"wake"})
      /\ h.wake = [g.wake EXCEPT ![a] = FALSE]
  BY DEF Active, Typed, Fields, Keeps
<1> HIDE DEF h
<1>2. Typed(h)
  BY <1>1 DEF Typed, Keeps, Fields
<1>3. QED
  BY <1>2 DEF h

LEMMA IdleTyped ==
  ASSUME NEW g, Typed(g), NEW a \in Agents
  PROVE  Typed([g EXCEPT !.idle[a] = @ + 1])
<1> DEFINE h == [g EXCEPT !.idle[a] = @ + 1]
<1>1. /\ Keeps(g, h, {"idle"})
      /\ h.idle = [g.idle EXCEPT ![a] = @ + 1]
  BY DEF Active, Typed, Fields, Keeps
<1> HIDE DEF h
<1>2. Typed(h)
  BY <1>1 DEF Typed, Keeps, Fields
<1>3. QED
  BY <1>2 DEF h

LEMMA RecovTyped ==
  ASSUME NEW g, Typed(g), NEW a \in Agents
  PROVE  Typed([g EXCEPT !.recov[a] = @ + 1])
<1> DEFINE h == [g EXCEPT !.recov[a] = @ + 1]
<1>1. /\ Keeps(g, h, {"recov"})
      /\ h.recov = [g.recov EXCEPT ![a] = @ + 1]
  BY DEF Active, Typed, Fields, Keeps
<1> HIDE DEF h
<1>2. Typed(h)
  BY <1>1 DEF Typed, Keeps, Fields
<1>3. QED
  BY <1>2 DEF h

LEMMA ResetTyped ==
  ASSUME NEW g, Typed(g), NEW a \in Agents
  PROVE  Typed(ResetRecovery(g, a))
<1> DEFINE h == ResetRecovery(g, a)
<1>1. /\ Keeps(g, h, {"recov"})
      /\ h.recov = [g.recov EXCEPT ![a] = 0]
  BY DEF ResetRecovery, Typed, Fields, Keeps
<1> HIDE DEF h
<1>2. Typed(h)
  BY <1>1 DEF Typed, Keeps, Fields
<1>3. QED
  BY <1>2 DEF h

LEMMA ReadTyped ==
  ASSUME NEW g, Typed(g), NEW a \in Agents
  PROVE  Typed([g EXCEPT !.recov[a] = 0, !.idle[a] = 0])
<1> DEFINE h == [g EXCEPT !.recov[a] = 0, !.idle[a] = 0]
<1>1. /\ Keeps(g, h, {"recov", "idle"})
      /\ h.recov = [g.recov EXCEPT ![a] = 0]
      /\ h.idle = [g.idle EXCEPT ![a] = 0]
  BY DEF Active, Typed, Fields, Keeps
<1> HIDE DEF h
<1>2. Typed(h)
  BY <1>1 DEF Typed, Keeps, Fields
<1>3. QED
  BY <1>2 DEF h

\* The four operations that go through all the agents at once.
LEMMA WakeAllEffect ==
  ASSUME NEW g, Typed(g)
  PROVE  LET h == WakeAll(g) IN
         Keeps(g, h, {"wake"}) /\ h.wake = [b \in Agents |-> g.status[b] # "none"]
BY DEF WakeAll, Typed, Fields, Keeps

LEMMA WakeAllTyped ==
  ASSUME NEW g, Typed(g)
  PROVE  Typed(WakeAll(g))
<1> DEFINE h == WakeAll(g)
<1>1. /\ Keeps(g, h, {"wake"})
      /\ h.wake = [b \in Agents |-> g.status[b] # "none"]
  BY DEF WakeAll, Typed, Fields, Keeps
<1> HIDE DEF h
<1>2. Typed(h)
  BY <1>1 DEF Typed, Keeps, Fields
<1>3. QED
  BY <1>2 DEF h

LEMMA BudgetStopEffect ==
  ASSUME NEW g, Typed(g)
  PROVE  LET h == TriggerBudgetStop(g) IN
         /\ Keeps(g, h, {"wake", "bstop"})
         /\ h.wake = [b \in Agents |-> g.status[b] # "none"]
         /\ h.bstop = TRUE
<1> DEFINE k == [g EXCEPT !.bstop = TRUE]
           h == WakeAll(k)
<1>1. /\ Keeps(g, k, {"bstop"})
      /\ k.bstop = TRUE
  BY DEF Typed, Fields, Keeps
<1>2. h = TriggerBudgetStop(g)
  BY DEF TriggerBudgetStop
<1> HIDE DEF k
<1>3. Typed(k)
  BY <1>1 DEF Typed, Keeps, Fields, Statuses, Active
<1>4. Typed(h) /\ Keeps(k, h, {"wake"}) /\ h.wake = [b \in Agents |-> k.status[b] # "none"]
  BY <1>3, WakeAllEffect, WakeAllTyped
<1> HIDE DEF h
<1>5. \A b \in Agents : (k.status[b] # "none") = (g.status[b] # "none")
  BY <1>1 DEF Keeps, Fields, Typed
<1>6. Keeps(g, h, {"wake", "bstop"})
      /\ h.wake = [b \in Agents |-> g.status[b] # "none"]
      /\ h.bstop = TRUE
  BY <1>1, <1>4, <1>5 DEF Keeps, Fields
<1>7. QED
  BY <1>2, <1>6

LEMMA BudgetStopTyped ==
  ASSUME NEW g, Typed(g)
  PROVE  Typed(TriggerBudgetStop(g))
<1> DEFINE k == [g EXCEPT !.bstop = TRUE]
           h == WakeAll(k)
<1>1. /\ Keeps(g, k, {"bstop"})
      /\ k.bstop = TRUE
  BY DEF Typed, Fields, Keeps
<1>2. h = TriggerBudgetStop(g)
  BY DEF TriggerBudgetStop
<1> HIDE DEF k
<1>3. Typed(k)
  BY <1>1 DEF Typed, Keeps, Fields, Statuses, Active
<1>4. Typed(h) /\ Keeps(k, h, {"wake"}) /\ h.wake = [b \in Agents |-> k.status[b] # "none"]
  BY <1>3, WakeAllEffect, WakeAllTyped
<1> HIDE DEF h
<1>5. \A b \in Agents : (k.status[b] # "none") = (g.status[b] # "none")
  BY <1>1 DEF Keeps, Fields, Typed
<1>6. Keeps(g, h, {"wake", "bstop"})
      /\ h.wake = [b \in Agents |-> g.status[b] # "none"]
      /\ h.bstop = TRUE
  BY <1>1, <1>4, <1>5 DEF Keeps, Fields
<1>7. QED
  BY <1>2, <1>4

LEMMA ReserveEffect ==
  ASSUME NEW g, Typed(g)
  PROVE  LET h == WakeAll([g EXCEPT !.rstop = TRUE]) IN
         /\ Keeps(g, h, {"wake", "rstop"})
         /\ h.wake = [b \in Agents |-> g.status[b] # "none"]
         /\ h.rstop = TRUE
<1> DEFINE k == [g EXCEPT !.rstop = TRUE]
           h == WakeAll(k)
<1>1. /\ Keeps(g, k, {"rstop"})
      /\ k.rstop = TRUE
  BY DEF Typed, Fields, Keeps
<1>2. h = WakeAll([g EXCEPT !.rstop = TRUE])
  BY DEF Active
<1> HIDE DEF k
<1>3. Typed(k)
  BY <1>1 DEF Typed, Keeps, Fields, Statuses, Active
<1>4. Typed(h) /\ Keeps(k, h, {"wake"}) /\ h.wake = [b \in Agents |-> k.status[b] # "none"]
  BY <1>3, WakeAllEffect, WakeAllTyped
<1> HIDE DEF h
<1>5. \A b \in Agents : (k.status[b] # "none") = (g.status[b] # "none")
  BY <1>1 DEF Keeps, Fields, Typed
<1>6. Keeps(g, h, {"wake", "rstop"})
      /\ h.wake = [b \in Agents |-> g.status[b] # "none"]
      /\ h.rstop = TRUE
  BY <1>1, <1>4, <1>5 DEF Keeps, Fields
<1>7. QED
  BY <1>2, <1>6

LEMMA ReserveTyped ==
  ASSUME NEW g, Typed(g)
  PROVE  Typed(WakeAll([g EXCEPT !.rstop = TRUE]))
<1> DEFINE k == [g EXCEPT !.rstop = TRUE]
           h == WakeAll(k)
<1>1. /\ Keeps(g, k, {"rstop"})
      /\ k.rstop = TRUE
  BY DEF Typed, Fields, Keeps
<1>2. h = WakeAll([g EXCEPT !.rstop = TRUE])
  BY DEF Active
<1> HIDE DEF k
<1>3. Typed(k)
  BY <1>1 DEF Typed, Keeps, Fields, Statuses, Active
<1>4. Typed(h) /\ Keeps(k, h, {"wake"}) /\ h.wake = [b \in Agents |-> k.status[b] # "none"]
  BY <1>3, WakeAllEffect, WakeAllTyped
<1> HIDE DEF h
<1>5. \A b \in Agents : (k.status[b] # "none") = (g.status[b] # "none")
  BY <1>1 DEF Keeps, Fields, Typed
<1>6. Keeps(g, h, {"wake", "rstop"})
      /\ h.wake = [b \in Agents |-> g.status[b] # "none"]
      /\ h.rstop = TRUE
  BY <1>1, <1>4, <1>5 DEF Keeps, Fields
<1>7. QED
  BY <1>2, <1>4

LEMMA PauseEffect ==
  ASSUME NEW g, Typed(g), NEW a \in Agents, NEW i \in Flags, ~(g.status[a] \in {"none", "stopped"} \/ g.bstop \/ g.closing)
  PROVE  LET h == PauseForBudget(g, a, i) IN
         /\ Keeps(g, h, {"status", "wake", "paused"})
         /\ h.status = [g.status EXCEPT ![a] = IF @ = "running" \/ (i /\ @ = "waiting") THEN "budget_paused" ELSE @]
         /\ h.wake = [b \in Agents |-> g.status[b] # "none"]
         /\ h.paused = TRUE
<1> DEFINE k == [g EXCEPT !.paused = TRUE,
                         !.status[a] = IF @ = "running" \/ (i /\ @ = "waiting")
                                         THEN "budget_paused" ELSE @]
           h == WakeAll(k)
<1>1. /\ Keeps(g, k, {"status", "paused"})
      /\ k.status = [g.status EXCEPT ![a] = IF @ = "running" \/ (i /\ @ = "waiting") THEN "budget_paused" ELSE @]
      /\ k.paused = TRUE
  BY DEF Typed, Fields, Keeps
<1>2. h = PauseForBudget(g, a, i)
  BY DEF PauseForBudget
<1> HIDE DEF k
<1>3. Typed(k)
  BY <1>1 DEF Typed, Keeps, Fields, Statuses, Active
<1>4. Typed(h) /\ Keeps(k, h, {"wake"}) /\ h.wake = [b \in Agents |-> k.status[b] # "none"]
  BY <1>3, WakeAllEffect, WakeAllTyped
<1> HIDE DEF h
<1>5. \A b \in Agents : (k.status[b] # "none") = (g.status[b] # "none")
  BY <1>1 DEF Keeps, Fields, Typed
<1>6. Keeps(g, h, {"status", "wake", "paused"})
      /\ h.status = [g.status EXCEPT ![a] = IF @ = "running" \/ (i /\ @ = "waiting") THEN "budget_paused" ELSE @]
      /\ h.wake = [b \in Agents |-> g.status[b] # "none"]
      /\ h.paused = TRUE
  BY <1>1, <1>4, <1>5 DEF Keeps, Fields
<1>7. QED
  BY <1>2, <1>6

LEMMA PauseTyped ==
  ASSUME NEW g, Typed(g), NEW a \in Agents, NEW i \in Flags, ~(g.status[a] \in {"none", "stopped"} \/ g.bstop \/ g.closing)
  PROVE  Typed(PauseForBudget(g, a, i))
<1> DEFINE k == [g EXCEPT !.paused = TRUE,
                         !.status[a] = IF @ = "running" \/ (i /\ @ = "waiting")
                                         THEN "budget_paused" ELSE @]
           h == WakeAll(k)
<1>1. /\ Keeps(g, k, {"status", "paused"})
      /\ k.status = [g.status EXCEPT ![a] = IF @ = "running" \/ (i /\ @ = "waiting") THEN "budget_paused" ELSE @]
      /\ k.paused = TRUE
  BY DEF Typed, Fields, Keeps
<1>2. h = PauseForBudget(g, a, i)
  BY DEF PauseForBudget
<1> HIDE DEF k
<1>3. Typed(k)
  BY <1>1 DEF Typed, Keeps, Fields, Statuses, Active
<1>4. Typed(h) /\ Keeps(k, h, {"wake"}) /\ h.wake = [b \in Agents |-> k.status[b] # "none"]
  BY <1>3, WakeAllEffect, WakeAllTyped
<1> HIDE DEF h
<1>5. \A b \in Agents : (k.status[b] # "none") = (g.status[b] # "none")
  BY <1>1 DEF Keeps, Fields, Typed
<1>6. Keeps(g, h, {"status", "wake", "paused"})
      /\ h.status = [g.status EXCEPT ![a] = IF @ = "running" \/ (i /\ @ = "waiting") THEN "budget_paused" ELSE @]
      /\ h.wake = [b \in Agents |-> g.status[b] # "none"]
      /\ h.paused = TRUE
  BY <1>1, <1>4, <1>5 DEF Keeps, Fields
<1>7. QED
  BY <1>2, <1>4

\* The flags of the scan.
LEMMA DelegateTyped ==
  ASSUME NEW g, Typed(g)
  PROVE  Typed([g EXCEPT !.delegate = TRUE])
<1> DEFINE h == [g EXCEPT !.delegate = TRUE]
<1>1. /\ Keeps(g, h, {"delegate"})
      /\ h.delegate = TRUE
  BY DEF Active, Typed, Fields, Keeps
<1> HIDE DEF h
<1>2. Typed(h)
  BY <1>1 DEF Typed, Keeps, Fields
<1>3. QED
  BY <1>2 DEF h

LEMMA ClockTyped ==
  ASSUME NEW g, Typed(g), NEW t \in {"wrap", "told", "past", "fired"}
  PROVE  Typed([g EXCEPT !.clock = t])
<1> DEFINE h == [g EXCEPT !.clock = t]
<1>1. /\ Keeps(g, h, {"clock"})
      /\ h.clock = t
  BY DEF Active, Typed, Fields, Keeps
<1> HIDE DEF h
<1>2. Typed(h)
  BY <1>1 DEF Typed, Keeps, Fields
<1>3. QED
  BY <1>2 DEF h

LEMMA ClosingTyped ==
  ASSUME NEW g, Typed(g)
  PROVE  Typed([g EXCEPT !.closing = @ \/ g.at[Root] = "gone"])
<1> DEFINE h == [g EXCEPT !.closing = @ \/ g.at[Root] = "gone"]
<1>1. /\ Keeps(g, h, {"closing"})
      /\ h.closing = (g.closing \/ g.at[Root] = "gone")
  BY DEF Active, Typed, Fields, Keeps
<1> HIDE DEF h
<1>2. Typed(h)
  BY <1>1 DEF Typed, Keeps, Fields
<1>3. QED
  BY <1>2 DEF h

-----------------------------------------------------------------------------
(* What every reachable graph has, whatever its tasks do. *)

\* Types; the budget flags of a headless scan and the pause of an interactive one
\* exclude each other; a stop that was asked for is in the status; and only a pause
\* holds an agent in "budget_paused".
Sound(g) ==
  /\ Typed(g)
  /\ Interactive => ~g.bstop /\ ~g.rstop
  /\ g.paused => Interactive
  /\ \A a \in Agents : g.stopped[a] => g.status[a] = "stopped"
  /\ ~g.paused => \A a \in Agents : g.status[a] # "budget_paused"

\* An operation that starts no turn, lifts no pause and takes back no stop.
Calm(g, h) ==
  /\ Sound(h) /\ h.turns = g.turns
  /\ g.paused => h.paused
  /\ \A a \in Agents : g.stopped[a] => h.stopped[a]

\* Calm is reflexive on sound graphs, and transitive.
LEMMA CalmItself == ASSUME NEW g, Sound(g) PROVE Calm(g, g)
BY DEF Calm

LEMMA CalmTwice == ASSUME NEW g, NEW h, NEW k, Calm(g, h), Calm(h, k) PROVE Calm(g, k)
BY DEF Calm

\* The updates again, one lemma each: calm, from the types and the few fields that
\* Sound speaks of.
LEMMA DeliverCalm ==
  ASSUME NEW g, Sound(g), NEW a \in Agents, NEW user \in Flags, g.status[a] # "stopped"
  PROVE  Calm(g, Deliver(g, a, user))
<1> DEFINE h == Deliver(g, a, user)
<1>1. Typed(g)
  BY DEF Sound
<1>2. /\ Keeps(g, h, {"status", "mail", "pend", "wake", "gate", "told", "kind", "recov", "idle", "notices"})
      /\ h.status = [g.status EXCEPT ![a] = Received(g, a, user)]
  BY <1>1 DEF Deliver, Flags, Typed, Fields, Keeps
<1>3. Typed(h)
  BY <1>1, DeliverTyped
<1> HIDE DEF h
<1>4. Calm(g, h)
  BY <1>2, <1>3 DEF Typed, Sound, Calm, Keeps, Fields, Active, Received
<1>5. QED
  BY <1>4 DEF h

LEMMA CountedCalm ==
  ASSUME NEW g, Sound(g), NEW a \in Agents
  PROVE  Calm(g, Counted(g, a))
<1> DEFINE h == Counted(g, a)
<1>1. Typed(g)
  BY DEF Sound
<1>2. Keeps(g, h, {"notices"})
  BY <1>1 DEF Counted, Typed, Fields, Keeps
<1>3. Typed(h)
  BY <1>1, CountedTyped
<1> HIDE DEF h
<1>4. Calm(g, h)
  BY <1>2, <1>3 DEF Typed, Sound, Calm, Keeps, Fields, Active
<1>5. QED
  BY <1>4 DEF h

LEMMA TakeMailCalm ==
  ASSUME NEW g, Sound(g), NEW a \in Agents
  PROVE  Calm(g, TakeMail(g, a))
<1> DEFINE h == TakeMail(g, a)
<1>1. Typed(g)
  BY DEF Sound
<1>2. Keeps(g, h, {"mail", "pend"})
  BY <1>1 DEF TakeMail, Typed, Fields, Keeps
<1>3. Typed(h)
  BY <1>1, TakeMailTyped
<1> HIDE DEF h
<1>4. Calm(g, h)
  BY <1>2, <1>3 DEF Typed, Sound, Calm, Keeps, Fields, Active
<1>5. QED
  BY <1>4 DEF h

LEMMA ReturnMailCalm ==
  ASSUME NEW g, Sound(g), NEW a \in Agents
  PROVE  Calm(g, ReturnMail(g, a))
<1> DEFINE h == ReturnMail(g, a)
<1>1. Typed(g)
  BY DEF Sound
<1>2. Keeps(g, h, {"mail"})
  BY <1>1 DEF ReturnMail, Typed, Fields, Keeps
<1>3. Typed(h)
  BY <1>1, ReturnMailTyped
<1> HIDE DEF h
<1>4. Calm(g, h)
  BY <1>2, <1>3 DEF Typed, Sound, Calm, Keeps, Fields, Active
<1>5. QED
  BY <1>4 DEF h

LEMMA SetStatusCalm ==
  ASSUME NEW g, Sound(g), NEW a \in Agents, NEW s \in Ends
  PROVE  Calm(g, SetStatus(g, a, s))
<1> DEFINE h == SetStatus(g, a, s)
<1>1. Typed(g)
  BY DEF Sound
<1>2. CASE g.status[a] = "none" \/ g.stopped[a]
  <2>1. h = g
    BY <1>2 DEF SetStatus
  <2>2. QED
    BY <2>1, CalmItself
<1>3. CASE ~(g.status[a] = "none" \/ g.stopped[a])
  <2>1. Keeps(g, h, {"status", "gate", "wake"}) /\ h.status = [g.status EXCEPT ![a] = s]
    BY <1>1, <1>3 DEF SetStatus, Typed, Fields, Keeps
  <2>2. Typed(h)
    BY <1>1, <1>3, SetStatusTyped
  <2> HIDE DEF h
  <2>3. Calm(g, h)
    BY <1>3, <2>1, <2>2 DEF Typed, Sound, Calm, Keeps, Fields, Active, Ends
  <2>4. QED
    BY <2>3 DEF h
<1>4. QED
  BY <1>2, <1>3

LEMMA ParkCalm ==
  ASSUME NEW g, Sound(g), NEW a \in Agents, NEW k \in Kinds
  PROVE  Calm(g, Park(g, a, k))
<1> DEFINE h == Park(g, a, k)
<1>1. Typed(g)
  BY DEF Sound
<1>2. CASE g.status[a] \in {"none", "stopped"}
  <2>1. h = g
    BY <1>2 DEF Park
  <2>2. QED
    BY <2>1, CalmItself
<1>3. CASE ~(g.status[a] \in {"none", "stopped"})
  <2>1. /\ Keeps(g, h, {"status", "kind", "gate", "wake"})
        /\ h.status = [g.status EXCEPT ![a] = "waiting"]
    BY <1>1, <1>3 DEF Park, Typed, Fields, Keeps
  <2>2. Typed(h)
    BY <1>1, <1>3, ParkTyped
  <2> HIDE DEF h
  <2>3. Calm(g, h)
    BY <1>3, <2>1, <2>2 DEF Typed, Sound, Calm, Keeps, Fields, Active
  <2>4. QED
    BY <2>3 DEF h
<1>4. QED
  BY <1>2, <1>3

LEMMA MarkRunningCalm ==
  ASSUME NEW g, Sound(g), NEW a \in Agents
  PROVE  Calm(g, MarkRunning(g, a))
<1> DEFINE h == MarkRunning(g, a)
<1>1. Typed(g)
  BY DEF Sound
<1>2. CASE g.status[a] \notin Active
  BY <1>2, CalmItself DEF MarkRunning
<1>3. CASE g.status[a] \in Active /\ g.paused
  <2>1. Keeps(g, h, {"status"}) /\ h.status = [g.status EXCEPT ![a] = "budget_paused"]
    BY <1>1, <1>3 DEF MarkRunning, Typed, Fields, Keeps
  <2>2. Typed(h)
    BY <1>1, <1>3, HeldTyped
  <2> HIDE DEF h
  <2>3. Calm(g, h)
    BY <1>3, <2>1, <2>2 DEF Typed, Sound, Calm, Keeps, Fields, Active
  <2>4. QED
    BY <2>3 DEF h
<1>4. CASE g.status[a] \in Active /\ ~g.paused
  <2>1. /\ Keeps(g, h, {"status", "kind", "gate", "told", "notices"})
        /\ h.status = [g.status EXCEPT ![a] = "running"]
    BY <1>1, <1>4 DEF MarkRunning, Typed, Fields, Keeps
  <2>2. Typed(h)
    BY <1>1, <1>4, RunningTyped
  <2> HIDE DEF h
  <2>3. Calm(g, h)
    BY <1>4, <2>1, <2>2 DEF Typed, Sound, Calm, Keeps, Fields, Active
  <2>4. QED
    BY <2>3 DEF h
<1>5. QED
  BY <1>2, <1>3, <1>4

LEMMA AtCalm ==
  ASSUME NEW g, Sound(g), NEW a \in Agents, NEW p \in Points
  PROVE  Calm(g, At(g, a, p))
<1> DEFINE h == At(g, a, p)
<1>1. Typed(g)
  BY DEF Sound
<1>2. Keeps(g, h, {"at"})
  BY <1>1 DEF At, Typed, Fields, Keeps
<1>3. Typed(h)
  BY <1>1, AtTyped
<1> HIDE DEF h
<1>4. Calm(g, h)
  BY <1>2, <1>3 DEF Typed, Sound, Calm, Keeps, Fields, Active
<1>5. QED
  BY <1>4 DEF h

LEMMA RegisterCalm ==
  ASSUME NEW g, Sound(g), NEW a \in Agents, g.status[a] = "none"
  PROVE  Calm(g, Register(g, a))
<1> DEFINE h == Register(g, a)
<1>1. Typed(g)
  BY DEF Sound
<1>2. Keeps(g, h, {"status", "at"}) /\ h.status = [g.status EXCEPT ![a] = "running"]
  BY <1>1 DEF Register, Typed, Fields, Keeps
<1>3. Typed(h)
  BY <1>1, RegisterTyped
<1> HIDE DEF h
<1>4. Calm(g, h)
  BY <1>2, <1>3 DEF Typed, Sound, Calm, Keeps, Fields, Active
<1>5. QED
  BY <1>4 DEF h

LEMMA StopCalm ==
  ASSUME NEW g, Sound(g), NEW a \in Agents
  PROVE  Calm(g, [g EXCEPT !.stopped[a] = TRUE, !.status[a] = "stopped", !.wake[a] = TRUE])
<1> DEFINE h == [g EXCEPT !.stopped[a] = TRUE, !.status[a] = "stopped", !.wake[a] = TRUE]
<1>1. Typed(g)
  BY DEF Sound
<1>2. /\ Keeps(g, h, {"stopped", "status", "wake"})
      /\ h.stopped = [g.stopped EXCEPT ![a] = TRUE]
      /\ h.status = [g.status EXCEPT ![a] = "stopped"]
  BY <1>1 DEF Active, Typed, Fields, Keeps
<1>3. Typed(h)
  BY <1>1, StopTyped
<1> HIDE DEF h
<1>4. Calm(g, h)
  BY <1>2, <1>3 DEF Typed, Sound, Calm, Keeps, Fields, Active
<1>5. QED
  BY <1>4 DEF h

LEMMA ToldCalm ==
  ASSUME NEW g, Sound(g), NEW a \in Agents
  PROVE  Calm(g, [g EXCEPT !.told[a] = TRUE])
<1> DEFINE h == [g EXCEPT !.told[a] = TRUE]
<1>1. Typed(g)
  BY DEF Sound
<1>2. Keeps(g, h, {"told"})
  BY <1>1 DEF Active, Typed, Fields, Keeps
<1>3. Typed(h)
  BY <1>1, ToldTyped
<1> HIDE DEF h
<1>4. Calm(g, h)
  BY <1>2, <1>3 DEF Typed, Sound, Calm, Keeps, Fields, Active
<1>5. QED
  BY <1>4 DEF h

LEMMA WakeCalm ==
  ASSUME NEW g, Sound(g), NEW a \in Agents
  PROVE  Calm(g, [g EXCEPT !.wake[a] = TRUE])
<1> DEFINE h == [g EXCEPT !.wake[a] = TRUE]
<1>1. Typed(g)
  BY DEF Sound
<1>2. Keeps(g, h, {"wake"})
  BY <1>1 DEF Active, Typed, Fields, Keeps
<1>3. Typed(h)
  BY <1>1, WakeTyped
<1> HIDE DEF h
<1>4. Calm(g, h)
  BY <1>2, <1>3 DEF Typed, Sound, Calm, Keeps, Fields, Active
<1>5. QED
  BY <1>4 DEF h

LEMMA ArmCalm ==
  ASSUME NEW g, Sound(g), NEW a \in Agents
  PROVE  Calm(g, [g EXCEPT !.wake[a] = FALSE])
<1> DEFINE h == [g EXCEPT !.wake[a] = FALSE]
<1>1. Typed(g)
  BY DEF Sound
<1>2. Keeps(g, h, {"wake"})
  BY <1>1 DEF Active, Typed, Fields, Keeps
<1>3. Typed(h)
  BY <1>1, ArmTyped
<1> HIDE DEF h
<1>4. Calm(g, h)
  BY <1>2, <1>3 DEF Typed, Sound, Calm, Keeps, Fields, Active
<1>5. QED
  BY <1>4 DEF h

LEMMA IdleCalm ==
  ASSUME NEW g, Sound(g), NEW a \in Agents
  PROVE  Calm(g, [g EXCEPT !.idle[a] = @ + 1])
<1> DEFINE h == [g EXCEPT !.idle[a] = @ + 1]
<1>1. Typed(g)
  BY DEF Sound
<1>2. Keeps(g, h, {"idle"})
  BY <1>1 DEF Active, Typed, Fields, Keeps
<1>3. Typed(h)
  BY <1>1, IdleTyped
<1> HIDE DEF h
<1>4. Calm(g, h)
  BY <1>2, <1>3 DEF Typed, Sound, Calm, Keeps, Fields, Active
<1>5. QED
  BY <1>4 DEF h

LEMMA RecovCalm ==
  ASSUME NEW g, Sound(g), NEW a \in Agents
  PROVE  Calm(g, [g EXCEPT !.recov[a] = @ + 1])
<1> DEFINE h == [g EXCEPT !.recov[a] = @ + 1]
<1>1. Typed(g)
  BY DEF Sound
<1>2. Keeps(g, h, {"recov"})
  BY <1>1 DEF Active, Typed, Fields, Keeps
<1>3. Typed(h)
  BY <1>1, RecovTyped
<1> HIDE DEF h
<1>4. Calm(g, h)
  BY <1>2, <1>3 DEF Typed, Sound, Calm, Keeps, Fields, Active
<1>5. QED
  BY <1>4 DEF h

LEMMA ResetCalm ==
  ASSUME NEW g, Sound(g), NEW a \in Agents
  PROVE  Calm(g, ResetRecovery(g, a))
<1> DEFINE h == ResetRecovery(g, a)
<1>1. Typed(g)
  BY DEF Sound
<1>2. Keeps(g, h, {"recov"})
  BY <1>1 DEF ResetRecovery, Typed, Fields, Keeps
<1>3. Typed(h)
  BY <1>1, ResetTyped
<1> HIDE DEF h
<1>4. Calm(g, h)
  BY <1>2, <1>3 DEF Typed, Sound, Calm, Keeps, Fields, Active
<1>5. QED
  BY <1>4 DEF h

LEMMA ReadCalm ==
  ASSUME NEW g, Sound(g), NEW a \in Agents
  PROVE  Calm(g, [g EXCEPT !.recov[a] = 0, !.idle[a] = 0])
<1> DEFINE h == [g EXCEPT !.recov[a] = 0, !.idle[a] = 0]
<1>1. Typed(g)
  BY DEF Sound
<1>2. Keeps(g, h, {"recov", "idle"})
  BY <1>1 DEF Active, Typed, Fields, Keeps
<1>3. Typed(h)
  BY <1>1, ReadTyped
<1> HIDE DEF h
<1>4. Calm(g, h)
  BY <1>2, <1>3 DEF Typed, Sound, Calm, Keeps, Fields, Active
<1>5. QED
  BY <1>4 DEF h

LEMMA WakeAllCalm ==
  ASSUME NEW g, Sound(g)
  PROVE  Calm(g, WakeAll(g))
<1> DEFINE h == WakeAll(g)
<1>1. Typed(g)
  BY DEF Sound
<1>2. Keeps(g, h, {"wake"})
  BY <1>1 DEF WakeAll, Typed, Fields, Keeps
<1>3. Typed(h)
  BY <1>1, WakeAllTyped
<1> HIDE DEF h
<1>4. Calm(g, h)
  BY <1>2, <1>3 DEF Typed, Sound, Calm, Keeps, Fields, Active
<1>5. QED
  BY <1>4 DEF h

LEMMA BudgetStopCalm ==
  ASSUME NEW g, Sound(g), ~Interactive
  PROVE  Calm(g, TriggerBudgetStop(g))
<1> DEFINE h == TriggerBudgetStop(g)
<1>1. Typed(g)
  BY DEF Sound
<1>2. Keeps(g, h, {"wake", "bstop"}) /\ h.bstop = TRUE
  BY <1>1, BudgetStopEffect
<1>3. Typed(h)
  BY <1>1, BudgetStopTyped
<1> HIDE DEF h
<1>4. Calm(g, h)
  BY <1>2, <1>3 DEF Typed, Sound, Calm, Keeps, Fields, Active
<1>5. QED
  BY <1>4 DEF h

LEMMA ReserveCalm ==
  ASSUME NEW g, Sound(g), ~Interactive
  PROVE  Calm(g, WakeAll([g EXCEPT !.rstop = TRUE]))
<1> DEFINE h == WakeAll([g EXCEPT !.rstop = TRUE])
<1>1. Typed(g)
  BY DEF Sound
<1>2. Keeps(g, h, {"wake", "rstop"}) /\ h.rstop = TRUE
  BY <1>1, ReserveEffect
<1>3. Typed(h)
  BY <1>1, ReserveTyped
<1> HIDE DEF h
<1>4. Calm(g, h)
  BY <1>2, <1>3 DEF Typed, Sound, Calm, Keeps, Fields, Active
<1>5. QED
  BY <1>4 DEF h

LEMMA PauseCalm ==
  ASSUME NEW g, Sound(g), NEW a \in Agents, NEW i \in Flags, Interactive
  PROVE  Calm(g, PauseForBudget(g, a, i))
<1> DEFINE k == [g EXCEPT !.paused = TRUE,
                          !.status[a] = IF @ = "running" \/ (i /\ @ = "waiting")
                                          THEN "budget_paused" ELSE @]
           h == PauseForBudget(g, a, i)
<1>1. Typed(g)
  BY DEF Sound
<1>2. CASE g.status[a] \in {"none", "stopped"} \/ g.bstop \/ g.closing
  <2>1. h = g
    BY <1>2 DEF PauseForBudget
  <2>2. QED
    BY <2>1, CalmItself
<1>3. CASE ~(g.status[a] \in {"none", "stopped"} \/ g.bstop \/ g.closing)
  <2>1. h = WakeAll(k)
    BY <1>3 DEF PauseForBudget
  <2>2. /\ Keeps(g, k, {"status", "paused"}) /\ k.paused = TRUE
        /\ k.status \in [Agents -> Statuses]
        /\ \A b \in Agents : b # a \/ g.status[b] # "running" => k.status[b] \in {g.status[b], "budget_paused"}
        /\ k.status[a] \in {g.status[a], "budget_paused"}
        /\ \A b \in Agents \ {a} : k.status[b] = g.status[b]
    BY <1>1, <1>3 DEF Typed, Fields, Keeps, Flags, Statuses
  <2>3. Typed(h)
    BY <1>1, <1>3, PauseTyped
  <2> HIDE DEF k
  <2>4. Typed(k)
    BY <1>1, <2>2 DEF Typed, Keeps, Fields
  <2>5. Keeps(k, h, {"wake"})
    BY <2>1, <2>4, WakeAllEffect
  <2> HIDE DEF h
  <2>6. Calm(g, h)
    BY <1>3, <2>2, <2>3, <2>5 DEF Typed, Sound, Calm, Keeps, Fields
  <2>7. QED
    BY <2>6 DEF h
<1>4. QED
  BY <1>2, <1>3

LEMMA DelegateCalm ==
  ASSUME NEW g, Sound(g)
  PROVE  Calm(g, [g EXCEPT !.delegate = TRUE])
<1> DEFINE h == [g EXCEPT !.delegate = TRUE]
<1>1. Typed(g)
  BY DEF Sound
<1>2. Keeps(g, h, {"delegate"})
  BY <1>1 DEF Active, Typed, Fields, Keeps
<1>3. Typed(h)
  BY <1>1, DelegateTyped
<1> HIDE DEF h
<1>4. Calm(g, h)
  BY <1>2, <1>3 DEF Typed, Sound, Calm, Keeps, Fields, Active
<1>5. QED
  BY <1>4 DEF h

LEMMA ClockCalm ==
  ASSUME NEW g, Sound(g), NEW t \in {"wrap", "told", "past", "fired"}
  PROVE  Calm(g, [g EXCEPT !.clock = t])
<1> DEFINE h == [g EXCEPT !.clock = t]
<1>1. Typed(g)
  BY DEF Sound
<1>2. Keeps(g, h, {"clock"})
  BY <1>1 DEF Active, Typed, Fields, Keeps
<1>3. Typed(h)
  BY <1>1, ClockTyped
<1> HIDE DEF h
<1>4. Calm(g, h)
  BY <1>2, <1>3 DEF Typed, Sound, Calm, Keeps, Fields, Active
<1>5. QED
  BY <1>4 DEF h

LEMMA ClosingCalm ==
  ASSUME NEW g, Sound(g)
  PROVE  Calm(g, [g EXCEPT !.closing = @ \/ g.at[Root] = "gone"])
<1> DEFINE h == [g EXCEPT !.closing = @ \/ g.at[Root] = "gone"]
<1>1. Typed(g)
  BY DEF Sound
<1>2. Keeps(g, h, {"closing"})
  BY <1>1 DEF Active, Typed, Fields, Keeps
<1>3. Typed(h)
  BY <1>1, ClosingTyped
<1> HIDE DEF h
<1>4. Calm(g, h)
  BY <1>2, <1>3 DEF Typed, Sound, Calm, Keeps, Fields, Active
<1>5. QED
  BY <1>4 DEF h

-----------------------------------------------------------------------------
(* The operations that are built from others. *)

LEMMA CalmSound == ASSUME NEW g, NEW h, Calm(g, h) PROVE Sound(h)
BY DEF Calm

LEMMA RootKnown == ASSUME GraphAssumption PROVE Root \in Agents
BY DEF GraphAssumption, Root

LEMMA ParentKnown ==
  ASSUME GraphAssumption, NEW a \in Agents, a # Root
  PROVE  Parent[a] \in Agents
<1>1. PICK i \in 1..Len(Line) : a = Line[i]
  BY DEF GraphAssumption
<1>2. i \in 2..Len(Line)
  BY <1>1 DEF GraphAssumption, Root
<1>3. PICK j \in 1..(i - 1) : Parent[Line[i]] = Line[j]
  BY <1>2 DEF GraphAssumption
<1>4. j \in 1..Len(Line)
  BY <1>2, <1>3 DEF GraphAssumption
<1>5. QED
  BY <1>1, <1>3, <1>4 DEF GraphAssumption

\* A message: accepted, it is delivered; refused, it changes nothing.
LEMMA SendCalm ==
  ASSUME NEW g, Sound(g), NEW a \in Agents, NEW user \in Flags
  PROVE  Calm(g, Send(g, a, user))
<1>1. CASE Accepts(g, a, user)
  <2>1. g.status[a] # "stopped"
    BY <1>1 DEF Accepts, Unreachable
  <2>2. Calm(g, Deliver(g, a, user))
    BY <2>1, DeliverCalm
  <2>3. QED
    BY <1>1, <2>2 DEF Send
<1>2. CASE ~Accepts(g, a, user)
  BY <1>2, CalmItself DEF Send
<1>3. QED
  BY <1>1, <1>2

LEMMA SendNowCalm ==
  ASSUME NEW g, Sound(g), NEW a \in Agents, NEW user \in Flags
  PROVE  Calm(g, SendNow(g, a, user))
<1>1. CASE Interactive /\ ~g.paused /\ g.at[a] \in Streaming /\ Accepts(g, a, user)
  <2>1. g.status[a] # "stopped"
    BY <1>1 DEF Accepts, Unreachable
  <2>2. Calm(g, Deliver(g, a, user))
    BY <2>1, DeliverCalm
  <2>3. Calm(Deliver(g, a, user), At(Deliver(g, a, user), a, "ended"))
    BY <2>2, CalmSound, AtCalm DEF Points
  <2>4. SendNow(g, a, user) = At(Deliver(g, a, user), a, "ended")
    BY <1>1 DEF SendNow, At
  <2>5. QED
    BY <2>2, <2>3, <2>4, CalmTwice
<1>2. CASE ~(Interactive /\ ~g.paused /\ g.at[a] \in Streaming /\ Accepts(g, a, user))
  <2>1. SendNow(g, a, user) = Send(g, a, user)
    BY <1>2 DEF SendNow
  <2>2. QED
    BY <2>1, SendCalm
<1>3. QED
  BY <1>1, <1>2

\* The message of a peer.
LEMMA PeerCalm ==
  ASSUME NEW g, Sound(g), NEW a \in Agents
  PROVE  Calm(g, Send(g, a, FALSE)) /\ Calm(g, SendNow(g, a, FALSE))
BY SendCalm, SendNowCalm DEF Flags

LEMMA SendWrapCalm ==
  ASSUME NEW g, Sound(g), NEW a \in Agents
  PROVE  Calm(g, SendWrap(g, a))
BY PeerCalm, CalmItself DEF SendWrap

\* The notices a child sends to its parent, and its report.
LEMMA NotifyTerminalCalm ==
  ASSUME GraphAssumption, NEW g, Sound(g), NEW a \in Agents
  PROVE  Calm(g, NotifyTerminal(g, a))
<1>1. CASE a = Root \/ g.bstop \/ g.told[a]
  BY <1>1, CalmItself DEF NotifyTerminal
<1>2. CASE ~(a = Root \/ g.bstop \/ g.told[a])
  <2> DEFINE h == [g EXCEPT !.told[a] = TRUE]
             k == Counted(h, a)
  <2>1. Parent[a] \in Agents
    BY <1>2, ParentKnown
  <2>2. Calm(g, h) /\ Sound(h)
    BY ToldCalm, CalmSound
  <2>3. NotifyTerminal(g, a) = Send(k, Parent[a], FALSE)
    BY <1>2 DEF NotifyTerminal
  <2> HIDE DEF h
  <2>4. Calm(h, k) /\ Sound(k)
    BY <2>2, CountedCalm, CalmSound
  <2> HIDE DEF k
  <2>5. Calm(k, Send(k, Parent[a], FALSE))
    BY <2>1, <2>4, PeerCalm
  <2>6. QED
    BY <2>2, <2>3, <2>4, <2>5, CalmTwice
<1>3. QED
  BY <1>1, <1>2

LEMMA NotifyStallCalm ==
  ASSUME GraphAssumption, NEW g, Sound(g), NEW a \in Agents
  PROVE  Calm(g, NotifyStall(g, a))
BY CalmItself, ParentKnown, PeerCalm DEF NotifyStall

LEMMA NotifyStopCalm ==
  ASSUME GraphAssumption, NEW g, Sound(g), NEW a \in Agents
  PROVE  Calm(g, NotifyStop(g, a))
<1>1. CASE a = Root \/ g.bstop
  BY <1>1, CalmItself DEF NotifyStop
<1>2. CASE ~(a = Root \/ g.bstop)
  <2> DEFINE k == Counted(g, a)
  <2>1. Parent[a] \in Agents
    BY <1>2, ParentKnown
  <2>2. Calm(g, k) /\ Sound(k)
    BY CountedCalm, CalmSound
  <2>3. NotifyStop(g, a) = SendNow(k, Parent[a], FALSE)
    BY <1>2 DEF NotifyStop
  <2> HIDE DEF k
  <2>4. Calm(k, SendNow(k, Parent[a], FALSE))
    BY <2>1, <2>2, PeerCalm
  <2>5. QED
    BY <2>2, <2>3, <2>4, CalmTwice
<1>3. QED
  BY <1>1, <1>2

LEMMA ReportCalm ==
  ASSUME GraphAssumption, NEW g, Sound(g), NEW a \in Agents, a # Root
  PROVE  Calm(g, Report(g, a))
<1>1. CASE g.told[a]
  BY <1>1, CalmItself DEF Report
<1>2. CASE ~g.told[a]
  <2> DEFINE h == [g EXCEPT !.told[a] = TRUE]
             k == Counted(h, a)
  <2>1. Parent[a] \in Agents
    BY ParentKnown
  <2>2. Calm(g, h) /\ Sound(h)
    BY ToldCalm, CalmSound
  <2>3. Report(g, a) = SendNow(k, Parent[a], FALSE)
    BY <1>2 DEF Report
  <2> HIDE DEF h
  <2>4. Calm(h, k) /\ Sound(k)
    BY <2>2, CountedCalm, CalmSound
  <2> HIDE DEF k
  <2>5. Calm(k, SendNow(k, Parent[a], FALSE))
    BY <2>1, <2>4, PeerCalm
  <2>6. QED
    BY <2>2, <2>3, <2>4, <2>5, CalmTwice
<1>3. QED
  BY <1>1, <1>2

\* A stop of one agent.
LEMMA RequestStopCalm ==
  ASSUME GraphAssumption, NEW g, Sound(g), NEW a \in Agents, NEW preserve
  PROVE  Calm(g, RequestStop(g, a, preserve))
<1> DEFINE s == [g EXCEPT !.stopped[a] = TRUE, !.status[a] = "stopped", !.wake[a] = TRUE]
           w == [g EXCEPT !.wake[a] = TRUE]
<1>1. RequestStop(g, a, preserve) \in {g, s, w, NotifyStop(s, a), NotifyStop(w, a)}
  BY DEF RequestStop
<1>2. Calm(g, s) /\ Sound(s) /\ Calm(g, w) /\ Sound(w)
  BY StopCalm, WakeCalm, CalmSound
<1> HIDE DEF s, w
<1>3. Calm(g, NotifyStop(s, a)) /\ Calm(g, NotifyStop(w, a))
  BY <1>2, NotifyStopCalm, CalmTwice
<1>4. QED
  BY <1>1, <1>2, <1>3, CalmItself

-----------------------------------------------------------------------------
(* The operations on a tree of agents, which go through Line. *)

\* Step n of StopTree, of WrapSent, of Respawned, and of Below, where h is a set of agents.
Step(kind, x, h, n) ==
  IF kind = "stop"
    THEN IF Line[Len(Line) - n + 1] \in Below(x)
           THEN RequestStop(h, Line[Len(Line) - n + 1], FALSE) ELSE h
  ELSE IF kind = "wrap" THEN SendWrap(h, Line[n])
  ELSE IF kind = "below"
    THEN IF Line[n] = x \/ (Line[n] # Root /\ Parent[Line[n]] \in h) THEN h \cup {Line[n]} ELSE h
  ELSE Respawn(h, Line[n], x)

\* The values such an operation passes through.
Walk(kind, x, g, s) ==
  s = [n \in 0..Len(Line) |-> IF n = 0 THEN g ELSE Step(kind, x, s[n - 1], n)]

\* s walks from g for the first k steps.
Walks(kind, x, g, s, k) ==
  /\ s = [n \in 0..Len(Line) |-> s[n]]
  /\ s[0] = g
  /\ \A n \in 1..k : s[n] = Step(kind, x, s[n - 1], n)

\* Line lists agents only.
LEMMA LineLength == ASSUME GraphAssumption PROVE Len(Line) \in Nat /\ \A n \in 1..Len(Line) : Line[n] \in Agents
BY DEF GraphAssumption

\* Walks exist: one extends by a step at a time.
LEMMA WalkExists ==
  ASSUME GraphAssumption, NEW kind, NEW x, NEW g
  PROVE  \E s : Walk(kind, x, g, s)
<1> DEFINE N == Len(Line)
           S == {k \in 0..N : \E s : Walks(kind, x, g, s, k)}
<1>1. N \in Nat
  BY LineLength
<1> HIDE DEF N
<1>2. 0 \in S
  <2>1. Walks(kind, x, g, [n \in 0..N |-> g], 0)
    BY <1>1 DEF Walks, N
  <2>2. QED
    BY <1>1, <2>1
<1>3. ASSUME NEW k \in 1..N, k - 1 \in S PROVE k \in S
  <2>1. PICK s : Walks(kind, x, g, s, k - 1)
    BY <1>3
  <2>2. k \in 0..N /\ k - 1 \in 0..N /\ k # 0 /\ 0 \in 0..N
    BY <1>1
  <2> DEFINE t == [n \in 0..N |-> IF n = k THEN Step(kind, x, s[k - 1], k) ELSE s[n]]
  <2>3. t = [n \in 0..N |-> t[n]] /\ t[0] = g /\ t[k] = Step(kind, x, s[k - 1], k)
    BY <2>1, <2>2 DEF Walks
  <2>4. ASSUME NEW n \in 1..(k - 1) PROVE t[n] = s[n] /\ t[n - 1] = s[n - 1]
    <3>1. n \in 0..N /\ n - 1 \in 0..N /\ n # k /\ n - 1 # k
      BY <1>1, <2>2
    <3>2. QED
      BY <3>1
  <2>5. t[k - 1] = s[k - 1]
    BY <1>1, <2>2
  <2> HIDE DEF t
  <2>6. ASSUME NEW n \in 1..k PROVE t[n] = Step(kind, x, t[n - 1], n)
    <3>1. CASE n = k
      BY <2>3, <2>5, <3>1
    <3>2. CASE n # k
      <4>1. n \in 1..(k - 1)
        BY <1>1, <3>2
      <4>2. s[n] = Step(kind, x, s[n - 1], n)
        BY <2>1, <4>1 DEF Walks
      <4>3. QED
        BY <2>4, <4>1, <4>2
    <3>3. QED
      BY <3>1, <3>2
  <2>7. Walks(kind, x, g, t, k)
    BY <2>3, <2>6 DEF Walks, N
  <2>8. QED
    BY <2>2, <2>7
<1>4. N \in S
  <2>1. S \in SUBSET (0..N) /\ N \in 0..N
    BY <1>1
  <2> HIDE DEF S
  <2>2. S = 0..N
    BY <1>1, <1>2, <1>3, <2>1, UpTo
  <2>3. QED
    BY <2>1, <2>2
<1>5. PICK s : Walks(kind, x, g, s, N)
  BY <1>4
<1>6. \A n \in 0..N : s[n] = IF n = 0 THEN g ELSE Step(kind, x, s[n - 1], n)
  <2>1. ASSUME NEW n \in 0..N, n # 0 PROVE n \in 1..N
    BY <1>1, <2>1
  <2>2. QED
    BY <1>5, <2>1 DEF Walks
<1>7. s = [n \in 0..N |-> s[n]]
  BY <1>5 DEF Walks, N
<1>8. s = [n \in 0..N |-> IF n = 0 THEN g ELSE Step(kind, x, s[n - 1], n)]
  BY <1>6, <1>7
<1>9. QED
  BY <1>8 DEF Walk, N

\* The three operations are the ends of walks.
LEMMA StopTreeWalks ==
  ASSUME GraphAssumption, NEW g, NEW b
  PROVE  \E s : Walk("stop", b, g, s) /\ StopTree(g, b) = s[Len(Line)]
<1> DEFINE stopped == CHOOSE s : s = [n \in 0..Len(Line) |->
             IF n = 0 THEN g
             ELSE IF Line[Len(Line) - n + 1] \in Below(b)
               THEN RequestStop(s[n - 1], Line[Len(Line) - n + 1], FALSE) ELSE s[n - 1]]
<1>1. StopTree(g, b) = stopped[Len(Line)]
  BY Zenon DEF StopTree
<1>2. \E s : Walk("stop", b, g, s)
  BY WalkExists
<1>3. \A s, n : Step("stop", b, s[n - 1], n) = IF Line[Len(Line) - n + 1] \in Below(b)
                   THEN RequestStop(s[n - 1], Line[Len(Line) - n + 1], FALSE) ELSE s[n - 1]
  BY DEF Step
<1>4. \A s : Walk("stop", b, g, s) <=> s = [n \in 0..Len(Line) |->
             IF n = 0 THEN g
             ELSE IF Line[Len(Line) - n + 1] \in Below(b)
               THEN RequestStop(s[n - 1], Line[Len(Line) - n + 1], FALSE) ELSE s[n - 1]]
  BY <1>3, Zenon DEF Walk
<1>5. Walk("stop", b, g, stopped)
  BY <1>2, <1>4, Zenon
<1>6. QED
  BY <1>1, <1>5, Zenon

LEMMA WrapSentWalks ==
  ASSUME GraphAssumption, NEW g
  PROVE  \E s : Walk("wrap", {}, g, s) /\ WrapSent(g) = s[Len(Line)]
<1> DEFINE sent == CHOOSE s : s = [n \in 0..Len(Line) |->
             IF n = 0 THEN g ELSE SendWrap(s[n - 1], Line[n])]
<1>1. WrapSent(g) = sent[Len(Line)]
  BY Zenon DEF WrapSent
<1>2. \E s : Walk("wrap", {}, g, s)
  BY WalkExists
<1>3. \A s, n : Step("wrap", {}, s[n - 1], n) = SendWrap(s[n - 1], Line[n])
  BY DEF Step
<1>4. \A s : Walk("wrap", {}, g, s) <=> s = [n \in 0..Len(Line) |->
             IF n = 0 THEN g ELSE SendWrap(s[n - 1], Line[n])]
  BY <1>3, Zenon DEF Walk
<1>5. Walk("wrap", {}, g, sent)
  BY <1>2, <1>4, Zenon
<1>6. QED
  BY <1>1, <1>5, Zenon

LEMMA RespawnedWalks ==
  ASSUME GraphAssumption, NEW g, NEW broken
  PROVE  \E s : Walk("respawn", broken, g, s) /\ Respawned(g, broken) = s[Len(Line)]
<1> DEFINE respawned == CHOOSE s : s = [n \in 0..Len(Line) |->
             IF n = 0 THEN g ELSE Respawn(s[n - 1], Line[n], broken)]
<1>1. Respawned(g, broken) = respawned[Len(Line)]
  BY Zenon DEF Respawned
<1>2. \E s : Walk("respawn", broken, g, s)
  BY WalkExists
<1>3. \A s, n : Step("respawn", broken, s[n - 1], n) = Respawn(s[n - 1], Line[n], broken)
  BY DEF Step
<1>4. \A s : Walk("respawn", broken, g, s) <=> s = [n \in 0..Len(Line) |->
             IF n = 0 THEN g ELSE Respawn(s[n - 1], Line[n], broken)]
  BY <1>3, Zenon DEF Walk
<1>5. Walk("respawn", broken, g, respawned)
  BY <1>2, <1>4, Zenon
<1>6. QED
  BY <1>1, <1>5, Zenon

LEMMA StartedCalm ==
  ASSUME GraphAssumption, NEW g, Sound(g), NEW a \in Agents
  PROVE  Calm(g, Started(g, a))
<1> DEFINE h == Started(g, a)
<1>1. Typed(g)
  BY DEF Sound
<1>2. Interactive \in BOOLEAN
  BY DEF GraphAssumption
<1>3. Keeps(g, h, {"at", "parks"})
  BY <1>1 DEF Started, Typed, Fields, Keeps
<1>4. h.parks \in [Agents -> BOOLEAN]
  BY <1>1, <1>2 DEF Started, Typed, Fields
<1>5. h.at \in [Agents -> Points]
  <2>1. g.at \in [Agents -> Points] /\ "check" \in Points /\ "enter" \in Points
    BY <1>1 DEF Typed, Points
  <2>2. CASE Interactive /\ g.status[a] # "running"
    <3>1. h.at = [g.at EXCEPT ![a] = "check"]
      BY <1>1, <2>2 DEF Started, Typed, Fields
    <3>2. QED
      BY <2>1, <3>1
  <2>3. CASE ~(Interactive /\ g.status[a] # "running")
    <3>1. h.at = [g.at EXCEPT ![a] = "enter"]
      BY <1>1, <2>3 DEF Started, Typed, Fields
    <3>2. QED
      BY <2>1, <3>1
  <2>4. QED
    BY <2>2, <2>3
<1> HIDE DEF h
<1>6. Typed(h)
  BY <1>1, <1>3, <1>4, <1>5 DEF Typed, Keeps, Fields
<1>7. Calm(g, h)
  <2>1. /\ h.turns = g.turns /\ h.status = g.status /\ h.stopped = g.stopped
        /\ h.paused = g.paused /\ h.bstop = g.bstop /\ h.rstop = g.rstop
    BY <1>3 DEF Keeps, Fields
  <2>2. QED
    BY <1>6, <2>1 DEF Sound, Calm
<1>8. QED
  BY <1>7 DEF h

\* One step of a walk is calm, hence the whole walk.
LEMMA StepCalm ==
  ASSUME GraphAssumption, NEW kind, kind # "below", NEW x, NEW g, Sound(g), NEW n \in 1..Len(Line)
  PROVE  Calm(g, Step(kind, x, g, n))
<1>1. Line[n] \in Agents /\ Line[Len(Line) - n + 1] \in Agents
  <2>1. Len(Line) \in Nat
    BY LineLength
  <2>2. Len(Line) - n + 1 \in 1..Len(Line)
    BY <2>1
  <2>3. QED
    BY <2>2, LineLength
<1>2. "crashed" \in Ends
  BY DEF Ends
<1>3. Calm(g, g)
  BY CalmItself
<1>4. Calm(g, RequestStop(g, Line[Len(Line) - n + 1], FALSE))
  BY <1>1, RequestStopCalm
<1>5. Calm(g, SendWrap(g, Line[n]))
  BY <1>1, SendWrapCalm
<1>6. Calm(g, Respawn(g, Line[n], x))
  <2>1. Calm(g, SetStatus(g, Line[n], "crashed"))
    BY <1>1, <1>2, SetStatusCalm
  <2>2. Calm(g, Started(g, Line[n]))
    BY <1>1, StartedCalm
  <2>3. QED
    BY <1>3, <2>1, <2>2 DEF Respawn
<1>7. QED
  BY <1>3, <1>4, <1>5, <1>6 DEF Step

LEMMA WalkCalm ==
  ASSUME GraphAssumption, NEW kind, kind # "below", NEW x, NEW g, Sound(g), NEW s, Walk(kind, x, g, s)
  PROVE  Calm(g, s[Len(Line)])
<1> DEFINE N == Len(Line)
           S == {k \in 0..N : Calm(g, s[k])}
<1>1. N \in Nat
  BY LineLength
<1>2. /\ s[0] = g
      /\ \A n \in 1..N : s[n] = Step(kind, x, s[n - 1], n)
  <2>1. \A n \in 0..N : s[n] = IF n = 0 THEN g ELSE Step(kind, x, s[n - 1], n)
    BY DEF Walk
  <2>2. 0 \in 0..N /\ \A n \in 1..N : n \in 0..N /\ n # 0
    BY <1>1
  <2>3. QED
    BY <2>1, <2>2
<1>3. 0 \in S
  BY <1>1, <1>2, CalmItself
<1>4. ASSUME NEW k \in 1..N, k - 1 \in S PROVE k \in S
  <2>1. Calm(g, s[k - 1])
    BY <1>4
  <2>2. Sound(s[k - 1])
    BY <2>1, CalmSound
  <2>3. Calm(s[k - 1], Step(kind, x, s[k - 1], k))
    BY <2>2, StepCalm
  <2>4. Calm(s[k - 1], s[k])
    BY <1>2, <2>3
  <2>5. QED
    BY <1>1, <2>1, <2>4, CalmTwice
<1>5. S \in SUBSET (0..N) /\ N \in 0..N
  BY <1>1
<1> HIDE DEF S
<1>6. S = 0..N
  BY <1>1, <1>3, <1>4, <1>5, UpTo
<1>7. QED
  BY <1>5, <1>6 DEF S

\* The three operations on a tree are calm.
LEMMA TreeCalm ==
  ASSUME GraphAssumption, NEW g, Sound(g)
  PROVE  /\ \A b : Calm(g, StopTree(g, b))
         /\ Calm(g, WrapSent(g))
         /\ \A broken : Calm(g, Respawned(g, broken))
<1>1. ASSUME NEW b PROVE Calm(g, StopTree(g, b))
  <2>1. PICK s : Walk("stop", b, g, s) /\ StopTree(g, b) = s[Len(Line)]
    BY StopTreeWalks
  <2>2. Calm(g, s[Len(Line)])
    BY <2>1, WalkCalm
  <2>3. QED
    BY <2>1, <2>2
<1>2. Calm(g, WrapSent(g))
  <2>1. PICK s : Walk("wrap", {}, g, s) /\ WrapSent(g) = s[Len(Line)]
    BY WrapSentWalks
  <2>2. Calm(g, s[Len(Line)])
    BY <2>1, WalkCalm
  <2>3. QED
    BY <2>1, <2>2
<1>3. ASSUME NEW broken PROVE Calm(g, Respawned(g, broken))
  <2>1. PICK s : Walk("respawn", broken, g, s) /\ Respawned(g, broken) = s[Len(Line)]
    BY RespawnedWalks
  <2>2. Calm(g, s[Len(Line)])
    BY <2>1, WalkCalm
  <2>3. QED
    BY <2>1, <2>2
<1>4. QED
  BY <1>1, <1>2, <1>3

-----------------------------------------------------------------------------
(* The parts of a task's step. *)

\* Where a handler leaves its task.
LEMMA PutCalm ==
  ASSUME NEW g, NEW h, Calm(g, h), NEW a \in Agents, NEW p \in Points
  PROVE  Calm(g, At(h, a, p))
BY CalmSound, AtCalm, CalmTwice

LEMMA RaiseCalm ==
  ASSUME NEW g, NEW h, Calm(g, h), NEW a \in Agents
  PROVE  Calm(g, Raise(h, a))
<1>1. (IF a = Root THEN "raised" ELSE "gone") \in Points
  BY DEF Points
<1>2. QED
  BY <1>1, PutCalm DEF Raise

LEMMA MarkCalm ==
  ASSUME NEW g, NEW h, Calm(g, h), NEW a \in Agents, NEW s \in Ends
  PROVE  Calm(g, SetStatus(h, a, s))
BY CalmSound, SetStatusCalm, CalmTwice

LEMMA QuitCalm ==
  ASSUME NEW g, NEW h, Calm(g, h), NEW a \in Agents
  PROVE  Calm(g, Quit(h, a))
<1>1. "stopped" \in Ends
  BY DEF Ends
<1>2. QED
  BY <1>1, MarkCalm, RaiseCalm DEF Quit

LEMMA ReturnCalm ==
  ASSUME NEW g, NEW h, Calm(g, h), NEW a \in Agents
  PROVE  Calm(g, Return(h, a))
<1>1. (IF Interactive THEN "check" ELSE "gone") \in Points
  BY DEF Points
<1>2. QED
  BY <1>1, PutCalm DEF Return

LEMMA PauseAtCalm ==
  ASSUME NEW g, NEW h, Calm(g, h), NEW a \in Agents, Interactive
  PROVE  Calm(g, PauseAt(h, a))
<1>1. "check" \in Points /\ TRUE \in Flags
  BY DEF Points, Flags
<1>2. Calm(g, PauseForBudget(h, a, TRUE))
  BY <1>1, CalmSound, PauseCalm, CalmTwice
<1>3. QED
  BY <1>1, <1>2, PutCalm DEF PauseAt

LEMMA AfterCycleCalm ==
  ASSUME GraphAssumption, NEW g, NEW h, Calm(g, h), NEW a \in Agents
  PROVE  Calm(g, AfterCycle(h, a))
<1> DEFINE k == [h EXCEPT !.recov[a] = @ + 1]
           c == SetStatus(k, a, "crashed")
<1>1. AfterCycle(h, a) \in {Return(ResetRecovery(h, a), a), At(k, a, "nudging"), Return(NotifyTerminal(c, a), a),
                            Return(Park(k, a, "stalled"), a), Raise(c, a)}
  BY DEF AfterCycle
<1>2. Sound(h)
  BY CalmSound
<1>3. Calm(g, ResetRecovery(h, a))
  BY <1>2, ResetCalm, CalmTwice
<1>4. Calm(g, k)
  BY <1>2, RecovCalm, CalmTwice
<1> HIDE DEF k
<1>5. "crashed" \in Ends /\ "nudging" \in Points /\ "stalled" \in Kinds
  BY DEF Ends, Points, Kinds
<1>6. Calm(g, c)
  BY <1>4, <1>5, MarkCalm
<1> HIDE DEF c
<1>7. Calm(g, NotifyTerminal(c, a))
  BY <1>6, CalmSound, NotifyTerminalCalm, CalmTwice
<1>8. Calm(g, Park(k, a, "stalled"))
  BY <1>4, <1>5, CalmSound, ParkCalm, CalmTwice
<1>9. /\ Calm(g, Return(ResetRecovery(h, a), a)) /\ Calm(g, Return(NotifyTerminal(c, a), a))
      /\ Calm(g, Return(Park(k, a, "stalled"), a))
  BY <1>3, <1>7, <1>8, ReturnCalm
<1>10. Calm(g, At(k, a, "nudging")) /\ Calm(g, Raise(c, a))
  BY <1>4, <1>5, <1>6, PutCalm, RaiseCalm
<1>11. QED
  BY <1>1, <1>9, <1>10

LEMMA RunCalm ==
  ASSUME NEW g, NEW h, Calm(g, h), NEW a \in Agents
  PROVE  Calm(g, MarkRunning(h, a))
BY CalmSound, MarkRunningCalm, CalmTwice

LEMMA StartCalm ==
  ASSUME GraphAssumption, NEW g, NEW h, Calm(g, h), NEW a \in Agents
  PROVE  Calm(g, Start(h, a))
<1>1. "prep" \in Points
  BY DEF Points
<1>2. Calm(g, AfterCycle(h, a)) /\ Calm(g, MarkRunning(h, a))
  BY AfterCycleCalm, RunCalm
<1>3. Calm(g, At(MarkRunning(h, a), a, "prep"))
  BY <1>1, <1>2, PutCalm
<1>4. Interactive => Calm(g, PauseAt(MarkRunning(h, a), a))
  BY <1>2, PauseAtCalm
<1>5. QED
  BY <1>2, <1>3, <1>4 DEF Start

LEMMA DriveCalm ==
  ASSUME GraphAssumption, NEW g, NEW h, Calm(g, h), NEW a \in Agents
  PROVE  Calm(g, Drive(h, a))
<1>1. Calm(g, Quit(h, a)) /\ Calm(g, Start(h, a))
  BY QuitCalm, StartCalm
<1>2. Interactive => Calm(g, PauseAt(h, a))
  BY PauseAtCalm
<1>3. QED
  BY <1>1, <1>2 DEF Drive

LEMMA FailCalm ==
  ASSUME GraphAssumption, NEW g, NEW h, Calm(g, h), NEW a \in Agents, NEW s \in Ends
  PROVE  Calm(g, Fail(h, a, s)) /\ Calm(g, Settle(h, a, s))
<1>1. Calm(g, SetStatus(h, a, s))
  BY MarkCalm
<1>2. Calm(g, NotifyTerminal(SetStatus(h, a, s), a))
  BY <1>1, CalmSound, NotifyTerminalCalm, CalmTwice
<1>3. Calm(g, Fail(h, a, s)) /\ Calm(g, Raise(h, a))
  BY <1>2, AfterCycleCalm, RaiseCalm DEF Fail
<1>4. QED
  BY <1>3 DEF Settle

LEMMA TakeCalm ==
  ASSUME NEW g, NEW h, Calm(g, h), NEW a \in Agents
  PROVE  Calm(g, TakeMail(h, a)) /\ Calm(g, ReturnMail(h, a))
<1>1. Calm(g, TakeMail(h, a))
  BY CalmSound, TakeMailCalm, CalmTwice
<1>2. Calm(g, ReturnMail(h, a))
  BY CalmSound, ReturnMailCalm, CalmTwice
<1>3. QED
  BY <1>1, <1>2

LEMMA DrainCalm ==
  ASSUME NEW g, NEW h, Calm(g, h), NEW a \in Agents, NEW busy \in Points, NEW then, Calm(g, then)
  PROVE  Calm(g, Drain(h, a, busy, then))
BY TakeCalm, PutCalm DEF Drain

LEMMA OutOfBudgetCalm ==
  ASSUME GraphAssumption, NEW g, NEW h, Calm(g, h), NEW a \in Agents
  PROVE  Calm(g, OutOfBudget(h, a))
<1>1. CASE Interactive
  BY <1>1, PauseAtCalm DEF OutOfBudget
<1>2. CASE ~Interactive
  <2>1. "stopped" \in Ends
    BY DEF Ends
  <2>2. Calm(g, SetStatus(h, a, "stopped"))
    BY <2>1, MarkCalm
  <2>3. Calm(g, TriggerBudgetStop(SetStatus(h, a, "stopped")))
    BY <1>2, <2>2, CalmSound, BudgetStopCalm, CalmTwice
  <2>4. QED
    BY <1>2, <2>3, RaiseCalm DEF OutOfBudget
<1>3. QED
  BY <1>1, <1>2

LEMMA ClaimReserveCalm ==
  ASSUME GraphAssumption, NEW g, NEW h, Calm(g, h), ~Interactive
  PROVE  Calm(g, ClaimReserve(h))
<1>1. CASE h.rstop
  BY <1>1 DEF ClaimReserve
<1>2. CASE ~h.rstop
  <2> DEFINE k == WakeAll([h EXCEPT !.rstop = TRUE])
  <2>1. Calm(g, k)
    BY CalmSound, ReserveCalm, CalmTwice
  <2>2. ClaimReserve(h) = SendNow(k, Root, FALSE)
    BY <1>2 DEF ClaimReserve
  <2> HIDE DEF k
  <2>3. QED
    BY <2>1, <2>2, RootKnown, CalmSound, PeerCalm, CalmTwice
<1>3. QED
  BY <1>1, <1>2

LEMMA ResumedCalm ==
  ASSUME NEW g, NEW h, Calm(g, h), NEW a \in Agents
  PROVE  Calm(g, Resumed(h, a))
<1>1. "ready" \in Points
  BY DEF Points
<1>2. QED
  BY <1>1, RunCalm, PutCalm DEF Resumed

LEMMA WokenCalm ==
  ASSUME NEW g, NEW h, Calm(g, h), NEW a \in Agents
  PROVE  Calm(g, Woken(h, a))
<1>1. "ready" \in Points /\ "took" \in Points
  BY DEF Points
<1>2. QED
  BY <1>1, ResumedCalm, DrainCalm, PutCalm DEF Woken

LEMMA ParkedCalm ==
  ASSUME NEW g, NEW h, Calm(g, h), NEW a \in Agents, NEW k \in Kinds
  PROVE  Calm(g, Park(h, a, k))
BY CalmSound, ParkCalm, CalmTwice

LEMMA ArmedCalm ==
  ASSUME NEW g, NEW h, Calm(g, h), NEW a \in Agents
  PROVE  Calm(g, [h EXCEPT !.wake[a] = FALSE])
BY CalmSound, ArmCalm, CalmTwice

LEMMA BlockCalm ==
  ASSUME NEW g, NEW h, Calm(g, h), NEW a \in Agents
  PROVE  Calm(g, Block(h, a))
<1> DEFINE k == Park(h, a, "agents")
<1>1. Block(h, a) \in {At(k, a, "ended"), At(h, a, "ready"), Woken(k, a), At([k EXCEPT !.wake[a] = FALSE], a, "blocked")}
  BY DEF Block
<1>2. "ready" \in Points /\ "ended" \in Points /\ "blocked" \in Points /\ "agents" \in Kinds
  BY DEF Points, Kinds
<1>3. Calm(g, k)
  BY <1>2, ParkedCalm
<1> HIDE DEF k
<1>4. Calm(g, [k EXCEPT !.wake[a] = FALSE])
  BY <1>3, ArmedCalm
<1>5. Calm(g, At(k, a, "ended")) /\ Calm(g, At(h, a, "ready"))
  BY <1>2, <1>3, PutCalm
<1>6. Calm(g, At([k EXCEPT !.wake[a] = FALSE], a, "blocked"))
  BY <1>2, <1>4, PutCalm
<1>7. Calm(g, Woken(k, a))
  BY <1>3, WokenCalm
<1>8. QED
  BY <1>1, <1>5, <1>6, <1>7

LEMMA SleepCalm ==
  ASSUME NEW g, NEW h, Calm(g, h), NEW a \in Agents
  PROVE  Calm(g, Sleep(h, a)) /\ Calm(g, Continue(h, a))
<1>1. "dozing" \in Points /\ "asleep" \in Points /\ "check" \in Points
  BY DEF Points
<1>2. Calm(g, [h EXCEPT !.wake[a] = FALSE])
  BY ArmedCalm
<1>3. Calm(g, Sleep(h, a))
  BY <1>1, <1>2, PutCalm DEF Sleep
<1>4. Calm(g, At(h, a, "check"))
  BY <1>1, PutCalm
<1>5. QED
  BY <1>3, <1>4 DEF Continue

LEMMA NextCycleCalm ==
  ASSUME GraphAssumption, NEW g, NEW h, Calm(g, h), NEW a \in Agents
  PROVE  Calm(g, NextCycle(h, a))
<1>1. "draining" \in Points
  BY DEF Points
<1>2. QED
  BY <1>1, DriveCalm, DrainCalm DEF NextCycle

LEMMA DispatchCalm ==
  ASSUME GraphAssumption, NEW g, NEW h, Calm(g, h), NEW a \in Agents, NEW woke
  PROVE  Calm(g, Dispatch(h, a, woke))
<1> DEFINE p == PauseForBudget(h, a, FALSE)
           r == [h EXCEPT !.recov[a] = 0, !.idle[a] = 0]
           i == [h EXCEPT !.idle[a] = @ + 1]
           n == NotifyStall(Park(i, a, "stalled"), a)
<1>1. /\ Dispatch(h, a, woke) \in {At(h, a, "gone"), Quit(h, a), Continue(p, a), Continue(h, a),
                                   NextCycle(r, a), Continue(n, a), NextCycle(Send(i, a, FALSE), a)}
      /\ Dispatch(h, a, woke) # Continue(p, a) \/ h.paused \/ Dispatch(h, a, woke) \in
           {At(h, a, "gone"), Quit(h, a), Continue(h, a),
            NextCycle(r, a), Continue(n, a), NextCycle(Send(i, a, FALSE), a)}
  BY DEF Dispatch
<1>2. "gone" \in Points /\ "stalled" \in Kinds /\ FALSE \in Flags
  BY DEF Points, Kinds, Flags
<1>3. Calm(g, At(h, a, "gone")) /\ Calm(g, Quit(h, a)) /\ Calm(g, Continue(h, a))
  BY <1>2, PutCalm, QuitCalm, SleepCalm
<1>4. h.paused => Calm(g, Continue(p, a))
  <2>1. SUFFICES ASSUME h.paused PROVE Calm(g, Continue(p, a))
    OBVIOUS
  <2>2. Sound(h) /\ Interactive
    BY <2>1 DEF Calm, Sound
  <2>3. Calm(g, p)
    BY <1>2, <2>2, PauseCalm, CalmTwice
  <2> HIDE DEF p
  <2>4. QED
    BY <2>3, SleepCalm
<1>5. Calm(g, r)
  BY CalmSound, ReadCalm, CalmTwice
<1>6. Calm(g, i)
  BY CalmSound, IdleCalm, CalmTwice
<1> HIDE DEF p, r, i
<1>7. Calm(g, n)
  <2>1. Calm(g, Park(i, a, "stalled"))
    BY <1>2, <1>6, ParkedCalm
  <2>2. QED
    BY <2>1, CalmSound, NotifyStallCalm, CalmTwice
<1> HIDE DEF n
<1>8. Calm(g, Send(i, a, FALSE))
  BY <1>6, CalmSound, PeerCalm, CalmTwice
<1>9. Calm(g, NextCycle(r, a)) /\ Calm(g, NextCycle(Send(i, a, FALSE), a))
  BY <1>5, <1>8, NextCycleCalm
<1>10. Calm(g, Continue(n, a))
  BY <1>7, SleepCalm
<1>11. QED
  BY <1>1, <1>3, <1>4, <1>9, <1>10

-----------------------------------------------------------------------------
(* The steps of a task. *)

\* The steps of the loop that start no turn.
LEMMA LoopCalm ==
  ASSUME GraphAssumption, Sound(graph), NEW a \in Agents, Loop(a)
  PROVE  Calm(graph, graph')
<1>1. Calm(graph, graph)
  BY CalmItself
<1>2. CASE Enter(a)
  <2>1. "draining" \in Points
    BY DEF Points
  <2>2. Calm(graph, Drain(graph, a, "draining", Drive(graph, a)))
    BY <1>1, <2>1, DriveCalm, DrainCalm
  <2>3. Calm(graph, Quit(graph, a)) /\ (Interactive => Calm(graph, PauseAt(graph, a)))
    BY <1>1, QuitCalm, PauseAtCalm
  <2>4. QED
    BY <1>2, <2>2, <2>3 DEF Enter
<1>3. CASE Drained(a)
  <2>1. graph' = Drive(graph, a) \/ graph' = Drive(ReturnMail(graph, a), a)
    BY <1>3 DEF Drained
  <2>2. Calm(graph, ReturnMail(graph, a))
    BY <1>1, TakeCalm
  <2>3. QED
    BY <1>1, <2>1, <2>2, DriveCalm
<1>4. CASE Nudged(a)
  <2>1. graph' = Drive(graph, a) \/ graph' = Raise(graph, a)
    BY <1>4 DEF Nudged
  <2>2. Calm(graph, Drive(graph, a)) /\ Calm(graph, Raise(graph, a))
    BY <1>1, DriveCalm, RaiseCalm
  <2>3. QED
    BY <2>1, <2>2
<1>5. CASE Check(a)
  BY <1>1, <1>5, DispatchCalm, SleepCalm DEF Check
<1>6. CASE Wake(a)
  BY <1>1, <1>6, DispatchCalm, ArmedCalm DEF Wake
<1>7. QED
  BY <1>2, <1>3, <1>4, <1>5, <1>6 DEF Loop

\* The timers: the wait for mail, the one for agents and the stall.
LEMMA TimerCalm ==
  ASSUME GraphAssumption, Sound(graph), NEW a \in Agents, Timer(a)
  PROVE  Calm(graph, graph')
<1>1. Calm(graph, graph)
  BY CalmItself
<1>2. CASE BlockedTimesOut(a)
  BY <1>1, <1>2, ResumedCalm DEF BlockedTimesOut
<1>3. CASE TimesOut(a)
  BY <1>1, <1>3, DispatchCalm DEF TimesOut
<1>4. QED
  BY <1>2, <1>3 DEF Timer

\* The lifecycle tools: spawn, message, stop, finish, respond and wait.
LEMMA ToolCalm ==
  ASSUME GraphAssumption, Sound(graph), NEW a \in Agents, Tool(a)
  PROVE  Calm(graph, graph')
<1>1. Calm(graph, graph)
  BY CalmItself
<1>2. {"ready", "ended", "finishing", "taking_user", "taking_agents", "took"} \subseteq Points
  BY DEF Points
<1>3. {"user", "agents"} \subseteq Kinds /\ "completed" \in Ends
  BY DEF Kinds, Ends
<1>4. Calm(graph, At(graph, a, "ready")) /\ Sound(At(graph, a, "ready"))
  BY <1>1, <1>2, PutCalm, CalmSound
<1>5. CASE UseTool(a)
  BY <1>5, <1>4 DEF UseTool
<1>6. CASE CreateAgent(a)
  <2>1. PICK b \in Children : graph.status[b] = "none" /\ graph' = At(Register(graph, b), a, "ready")
    BY <1>6 DEF CreateAgent
  <2>2. b \in Agents
    BY DEF Children
  <2>3. Calm(graph, Register(graph, b))
    BY <2>1, <2>2, RegisterCalm
  <2>4. QED
    BY <1>2, <2>1, <2>3, PutCalm
<1>7. CASE SendMessage(a)
  <2>1. PICK b \in Agents \ {a} : graph' = SendNow(At(graph, a, "ready"), b, FALSE)
    BY <1>7 DEF SendMessage
  <2>2. QED
    BY <1>4, <2>1, PeerCalm, CalmTwice
<1>8. CASE StopAgent(a)
  <2> DEFINE r == At(graph, a, "ready")
  <2>1. PICK b \in Agents \ {a} : graph' = StopTree(r, b) \/ graph' = RequestStop(r, b, FALSE)
    BY <1>8 DEF StopAgent
  <2> HIDE DEF r
  <2>2. CASE graph' = StopTree(r, b)
    BY <1>4, <2>2, TreeCalm, CalmTwice DEF r
  <2>3. CASE graph' = RequestStop(r, b, FALSE)
    BY <1>4, <2>3, RequestStopCalm, CalmTwice DEF r
  <2>4. QED
    BY <2>1, <2>2, <2>3
<1>9. CASE AgentFinish(a)
  <2>1. PICK report \in BOOLEAN :
          graph' = At(SetStatus(IF report THEN Report(graph, a) ELSE graph, a, "completed"), a, "ended")
    BY <1>9 DEF AgentFinish
  <2> DEFINE h == IF report THEN Report(graph, a) ELSE graph
  <2>2. Calm(graph, h)
    BY <1>1, <1>9, ReportCalm DEF AgentFinish
  <2> HIDE DEF h
  <2>3. Calm(graph, SetStatus(h, a, "completed"))
    BY <1>3, <2>2, MarkCalm
  <2>4. Calm(graph, At(SetStatus(h, a, "completed"), a, "ended"))
    BY <1>2, <2>3, PutCalm
  <2>5. QED
    BY <2>1, <2>4 DEF h
<1>10. CASE FinishScan(a)
  <2>1. Calm(graph, SetStatus(graph, a, "completed"))
    BY <1>1, <1>3, MarkCalm
  <2>2. Calm(graph, At(SetStatus(graph, a, "completed"), a, "ended"))
    BY <1>2, <2>1, PutCalm
  <2>3. Calm(graph, At(graph, a, "finishing"))
    BY <1>1, <1>2, PutCalm
  <2>4. graph' \in {At(SetStatus(graph, a, "completed"), a, "ended"), At(graph, a, "finishing"),
                    At(graph, a, "ready")}
    BY <1>10 DEF FinishScan
  <2>5. QED
    BY <1>4, <2>2, <2>3, <2>4
<1>11. CASE RespondToUser(a)
  <2>1. Calm(graph, At(Park(graph, a, "user"), a, "ended"))
    BY <1>1, <1>2, <1>3, ParkedCalm, PutCalm
  <2>2. Calm(graph, Drain(graph, a, "taking_user", At(Park(graph, a, "user"), a, "ended")))
    BY <1>1, <1>2, <2>1, DrainCalm
  <2>3. QED
    BY <1>11, <1>4, <2>2 DEF RespondToUser
<1>12. CASE WaitForAgents(a)
  <2>1. Calm(graph, Drain(graph, a, "taking_agents", Block(graph, a)))
    BY <1>1, <1>2, BlockCalm, DrainCalm
  <2>2. QED
    BY <1>12, <1>4, <2>1 DEF WaitForAgents
<1>13. CASE Taken(a)
  <2>1. Calm(graph, ReturnMail(graph, a))
    BY <1>1, TakeCalm
  <2>2. Calm(graph, Resumed(graph, a)) /\ Calm(graph, Resumed(ReturnMail(graph, a), a))
    BY <1>1, <2>1, ResumedCalm
  <2>3. Calm(graph, Park(ReturnMail(graph, a), a, "user"))
    BY <1>3, <2>1, ParkedCalm
  <2>4. Calm(graph, At(Park(ReturnMail(graph, a), a, "user"), a, "ended"))
    BY <1>2, <2>3, PutCalm
  <2>5. Calm(graph, Block(ReturnMail(graph, a), a))
    BY <2>1, BlockCalm
  <2>6. QED
    BY <1>13, <2>2, <2>4, <2>5 DEF Taken
<1>14. CASE BlockedWakes(a)
  BY <1>1, <1>14, WokenCalm, ArmedCalm DEF BlockedWakes
<1>15. QED
  BY <1>5, <1>6, <1>7, <1>8, <1>9, <1>10, <1>11, <1>12, <1>13, <1>14 DEF Tool

\* A step that may start a turn.
Flows(g, h) ==
  /\ Sound(h)
  /\ g.paused => h.paused /\ h.turns = g.turns
  /\ \A a \in Agents :
       /\ h.turns[a] >= g.turns[a]
       /\ g.stopped[a] => h.stopped[a] /\ h.turns[a] = g.turns[a]
       /\ g.status[a] = "stopped" => h.turns[a] = g.turns[a]

\* A calm step flows.
LEMMA CalmFlows == ASSUME NEW g, Sound(g), NEW h, Calm(g, h) PROVE Flows(g, h)
<1>1. g.turns \in [Agents -> 0..TurnLimit]
  BY DEF Sound, Typed
<1>2. \A a \in Agents : g.turns[a] >= g.turns[a]
  <2>1. SUFFICES ASSUME NEW a \in Agents PROVE g.turns[a] >= g.turns[a]
    OBVIOUS
  <2>2. g.turns[a] \in 0..TurnLimit
    BY <1>1
  <2>3. QED
    BY <2>2
<1>3. QED
  BY <1>2 DEF Calm, Flows

\* A turn more is within the limit, where the limit was not reached.
LEMMA OneMore ==
  ASSUME NEW n \in Nat, NEW t \in 0..n
  PROVE  /\ t >= t /\ t + 1 >= t
         /\ t # n => t + 1 \in 0..n
OBVIOUS

\* The claim of a turn, then of the budget: the only step that adds one.
LEMMA ClaimedFlows ==
  ASSUME GraphAssumption, NEW g, Sound(g), NEW a \in Agents, g.status[a] # "stopped", ~g.paused,
         g.turns[a] # TurnLimit, NEW h, Calm(Claimed(g, a), h)
  PROVE  Flows(g, h)
<1> DEFINE k == Claimed(g, a)
<1>1. TurnLimit \in Nat
  BY DEF GraphAssumption
<1>2. Typed(g)
  BY DEF Sound
<1>3. Keeps(g, k, {"turns"}) /\ k.turns = [g.turns EXCEPT ![a] = @ + 1]
  BY <1>2 DEF Claimed, Typed, Fields, Keeps
<1>4. \A b \in Agents : g.turns[b] \in 0..TurnLimit
  BY <1>2 DEF Typed
<1>5. \A b \in Agents : h.turns[b] \in 0..TurnLimit /\ h.turns[b] = IF b = a THEN g.turns[a] + 1 ELSE g.turns[b]
  <2>1. h.turns = k.turns
    BY DEF Calm
  <2>2. g.turns \in [Agents -> 0..TurnLimit]
    BY <1>2 DEF Typed
  <2>3. g.turns[a] + 1 \in 0..TurnLimit
    <3>1. g.turns[a] \in 0..TurnLimit /\ g.turns[a] # TurnLimit
      BY <2>2
    <3>2. QED
      BY <1>1, <3>1, OneMore
  <2>4. QED
    BY <1>3, <2>1, <2>2, <2>3
<1>6. Sound(h) /\ \A b \in Agents : g.stopped[b] => h.stopped[b]
  <2>1. k.stopped = g.stopped
    BY <1>3 DEF Keeps, Fields
  <2>2. QED
    BY <2>1 DEF Calm
<1>7. ~g.stopped[a]
  BY DEF Sound
<1>8. g.paused => h.paused /\ h.turns = g.turns
  OBVIOUS
<1>9. \A b \in Agents : h.turns[b] >= g.turns[b]
  <2>1. SUFFICES ASSUME NEW b \in Agents PROVE h.turns[b] >= g.turns[b]
    OBVIOUS
  <2>2. g.turns[b] \in 0..TurnLimit
    BY <1>4
  <2>3. h.turns[b] = IF b = a THEN g.turns[a] + 1 ELSE g.turns[b]
    BY <1>5
  <2>4. QED
    BY <1>1, <2>2, <2>3, OneMore
<1>10. QED
  BY <1>5, <1>6, <1>7, <1>9, <1>8 DEF Flows

LEMMA ClaimedSound ==
  ASSUME GraphAssumption, NEW g, Sound(g), NEW a \in Agents, g.turns[a] # TurnLimit
  PROVE  Sound(Claimed(g, a))
<1> DEFINE k == Claimed(g, a)
<1>1. TurnLimit \in Nat
  BY DEF GraphAssumption
<1>2. Typed(g)
  BY DEF Sound
<1>3. Keeps(g, k, {"turns"}) /\ k.turns = [g.turns EXCEPT ![a] = @ + 1]
  BY <1>2 DEF Claimed, Typed, Fields, Keeps
<1>4. k.turns \in [Agents -> 0..TurnLimit]
  <2>1. g.turns \in [Agents -> 0..TurnLimit]
    BY <1>2 DEF Typed
  <2>2. g.turns[a] \in 0..TurnLimit
    BY <2>1
  <2>3. g.turns[a] + 1 \in 0..TurnLimit
    <3>1. g.turns[a] # TurnLimit
      OBVIOUS
    <3>2. QED
      BY <1>1, <2>2, <3>1, OneMore
  <2>4. QED
    BY <1>3, <2>1, <2>3
<1> HIDE DEF k
<1>5. Typed(k)
  <2>1. /\ DOMAIN k = Fields
        /\ k.status = g.status /\ k.at = g.at /\ k.kind = g.kind /\ k.gate = g.gate /\ k.wake = g.wake
        /\ k.mail = g.mail /\ k.pend = g.pend /\ k.told = g.told /\ k.stopped = g.stopped
        /\ k.parks = g.parks /\ k.recov = g.recov /\ k.idle = g.idle /\ k.notices = g.notices
        /\ k.paused = g.paused /\ k.bstop = g.bstop /\ k.rstop = g.rstop
        /\ k.closing = g.closing /\ k.delegate = g.delegate /\ k.clock = g.clock
    BY <1>3 DEF Keeps, Fields
  <2>2. QED
    BY <1>2, <1>4, <2>1 DEF Typed
<1>6. Sound(k)
  <2>1. /\ k.status = g.status /\ k.stopped = g.stopped
        /\ k.paused = g.paused /\ k.bstop = g.bstop /\ k.rstop = g.rstop
    BY <1>3 DEF Keeps, Fields
  <2>2. QED
    BY <1>5, <2>1 DEF Sound
<1>7. QED
  BY <1>6 DEF k

\* A model call, from the claim to its end.
LEMMA TurnFlows ==
  ASSUME GraphAssumption, Sound(graph), NEW a \in Agents, Turn(a)
  PROVE  Flows(graph, graph')
<1>1. Calm(graph, graph)
  BY CalmItself
<1>2. {"ready", "call", "act", "ended", "enter", "salvaging_failed", "salvaging_crashed", "salvaging_stopped"} \subseteq Points
  BY DEF Points
<1>3. {"failed", "crashed", "stopped"} \subseteq Ends
  BY DEF Ends
<1>4. CASE StartTurn(a)
  <2>1. CASE graph.status[a] = "stopped"
    <3>1. graph' = At(graph, a, "ended")
      BY <1>4, <2>1 DEF StartTurn
    <3>2. QED
      BY <1>1, <1>2, <3>1, PutCalm, CalmFlows
  <2>2. CASE graph.status[a] # "stopped" /\ graph.paused
    <3>1. Interactive
      BY <2>2 DEF Sound
    <3>2. graph' = PauseAt(graph, a)
      BY <1>4, <2>2, <3>1 DEF StartTurn
    <3>3. QED
      BY <1>1, <3>1, <3>2, PauseAtCalm, CalmFlows
  <2>3. CASE graph.status[a] # "stopped" /\ ~graph.paused
    <3> DEFINE k == Claimed(graph, a)
    <3>1. graph' \in {At(graph, a, "salvaging_crashed"), At(graph, a, "salvaging_stopped")}
          \/ (graph.turns[a] # TurnLimit /\ graph' \in {At(k, a, "call"), OutOfBudget(k, a)})
      BY <1>4, <2>3 DEF StartTurn
    <3>2. CASE graph' \in {At(graph, a, "salvaging_crashed"), At(graph, a, "salvaging_stopped")}
      BY <1>1, <1>2, <3>2, PutCalm, CalmFlows
    <3>3. CASE graph.turns[a] # TurnLimit /\ graph' \in {At(k, a, "call"), OutOfBudget(k, a)}
      <4>1. Calm(k, k)
        BY <3>3, ClaimedSound, CalmItself
      <4>2. Calm(k, At(k, a, "call")) /\ Calm(k, OutOfBudget(k, a))
        BY <1>2, <4>1, PutCalm, OutOfBudgetCalm
      <4>3. QED
        BY <2>3, <3>3, <4>2, ClaimedFlows
    <3>4. QED
      BY <3>1, <3>2, <3>3
  <2>4. QED
    BY <2>1, <2>2, <2>3
<1>5. ASSUME Turn(a), ~StartTurn(a) PROVE Calm(graph, graph')
  <2>1. CASE Attach(a)
    BY <1>1, <1>2, <2>1, AfterCycleCalm, PauseAtCalm, PutCalm DEF Attach
  <2>2. CASE BudgetReached(a)
    BY <1>1, <2>2, OutOfBudgetCalm DEF BudgetReached
  <2>3. CASE ReserveReached(a)
    <3>1. Calm(graph, SetStatus(graph, a, "stopped"))
      BY <1>1, <1>3, MarkCalm
    <3>2. Calm(graph, ClaimReserve(SetStatus(graph, a, "stopped")))
      BY <2>3, <3>1, ClaimReserveCalm DEF ReserveReached
    <3>3. QED
      BY <2>3, <3>2, RaiseCalm DEF ReserveReached
  <2>4. CASE Answered(a)
    <3>1. graph' = At(graph, a, "act") \/ graph' = At(graph, a, "ended")
      BY <2>4 DEF Answered
    <3>2. Calm(graph, At(graph, a, "act")) /\ Calm(graph, At(graph, a, "ended"))
      BY <1>1, <1>2, PutCalm
    <3>3. QED
      BY <3>1, <3>2
  <2>5. CASE CallFails(a)
    <3>1. \/ graph' = At(graph, a, "salvaging_failed") \/ graph' = At(graph, a, "salvaging_crashed")
          \/ graph' = Start(graph, a)
      BY <2>5 DEF CallFails
    <3>2. Calm(graph, Start(graph, a))
      BY <1>1, StartCalm
    <3>3. Calm(graph, At(graph, a, "salvaging_failed")) /\ Calm(graph, At(graph, a, "salvaging_crashed"))
      BY <1>1, <1>2, PutCalm
    <3>4. QED
      BY <3>1, <3>2, <3>3
  <2>6. CASE Salvaged(a)
    <3>1. \A s \in {"failed", "crashed", "stopped"} : Calm(graph, Fail(graph, a, s)) /\ Calm(graph, Settle(graph, a, s))
      BY <1>1, <1>3, FailCalm
    <3>2. ASSUME NEW h \in TakenOver(graph, a) PROVE Calm(graph, h)
      <4> DEFINE k == [graph EXCEPT !.delegate = TRUE]
      <4>1. h = At(k, a, "enter")
        BY <3>2 DEF TakenOver
      <4>2. Calm(graph, k)
        BY DelegateCalm
      <4> HIDE DEF k
      <4>3. QED
        BY <1>2, <4>1, <4>2, PutCalm
    <3>3. graph' \in {Settle(graph, a, "failed"), Fail(graph, a, "failed"), Settle(graph, a, "crashed"),
                      Settle(graph, a, "stopped")} \cup TakenOver(graph, a)
      BY <2>6 DEF Salvaged
    <3>4. QED
      BY <3>1, <3>2, <3>3
  <2>7. CASE EndCycle(a)
    BY <1>1, <2>7, AfterCycleCalm DEF EndCycle
  <2>8. QED
    BY <1>5, <2>1, <2>2, <2>3, <2>4, <2>5, <2>6, <2>7 DEF Turn
<1>6. QED
  BY <1>4, <1>5, CalmFlows

-----------------------------------------------------------------------------
(* The operator, the deadline and the end of the scan. *)

\* The operator's message and stop.
LEMMA UserCalm ==
  ASSUME GraphAssumption, Sound(graph), NEW a \in Agents, UserMessage(a) \/ OperatorStop(a)
  PROVE  Calm(graph, graph')
<1>1. TRUE \in Flags
  BY DEF Flags
<1>2. Calm(graph, SendNow(graph, a, TRUE))
  BY <1>1, SendNowCalm
<1>3. Calm(graph, StopTree(graph, a))
  BY TreeCalm
<1>4. QED
  BY <1>2, <1>3 DEF UserMessage, OperatorStop

\* A resume lifts the pause and changes no turn and no stop.
LEMMA ResumeSound ==
  ASSUME NEW g, Sound(g)
  PROVE  LET h == ResumeAll(g) IN
         Sound(h) /\ h.turns = g.turns /\ h.stopped = g.stopped
<1> DEFINE held == {a \in Agents : g.status[a] = "budget_paused"}
           k == [g EXCEPT !.paused = FALSE,
                          !.status = [a \in Agents |-> IF a \in held THEN "waiting" ELSE @[a]],
                          !.mail = [a \in Agents |-> @[a] \/ a \in held],
                          !.pend = [a \in Agents |-> @[a] \/ a \in held]]
           h == WakeAll(k)
<1>1. Typed(g)
  BY DEF Sound
<1>2. ResumeAll(g) = h
  BY DEF ResumeAll
<1>3. /\ Keeps(g, k, {"paused", "status", "mail", "pend"})
      /\ k.paused = FALSE
      /\ k.status = [a \in Agents |-> IF a \in held THEN "waiting" ELSE g.status[a]]
      /\ k.mail = [a \in Agents |-> g.mail[a] \/ a \in held]
      /\ k.pend = [a \in Agents |-> g.pend[a] \/ a \in held]
  BY <1>1 DEF Typed, Fields, Keeps
<1>4. /\ k.status \in [Agents -> Statuses]
      /\ \A a \in Agents : k.status[a] # "budget_paused" /\ (g.status[a] = "stopped" => k.status[a] = "stopped")
      /\ k.mail \in [Agents -> BOOLEAN] /\ k.pend \in [Agents -> BOOLEAN]
  BY <1>1, <1>3 DEF Typed, Statuses, Active
<1> HIDE DEF k
<1>5. /\ k.at = g.at /\ k.kind = g.kind /\ k.gate = g.gate /\ k.wake = g.wake
      /\ k.told = g.told /\ k.stopped = g.stopped /\ k.turns = g.turns
      /\ k.parks = g.parks /\ k.recov = g.recov /\ k.idle = g.idle /\ k.notices = g.notices
      /\ k.bstop = g.bstop /\ k.rstop = g.rstop
      /\ k.closing = g.closing /\ k.delegate = g.delegate /\ k.clock = g.clock /\ DOMAIN k = Fields
  BY <1>3 DEF Keeps, Fields
<1>6. Typed(k)
  BY <1>1, <1>3, <1>4, <1>5 DEF Typed
<1>7. Sound(k)
  BY <1>3, <1>4, <1>5, <1>6 DEF Sound
<1>8. Calm(k, h)
  BY <1>7, WakeAllCalm
<1>9. Sound(h) /\ h.turns = k.turns
  BY <1>8 DEF Calm
<1>10. h.stopped = k.stopped
  BY <1>6, WakeAllEffect DEF Keeps, Fields
<1>11. QED
  BY <1>2, <1>5, <1>9, <1>10

\* The deadline: the notice of the wrap-up, and the cancellation of the root.
LEMMA DeadlineCalm ==
  ASSUME GraphAssumption, Sound(graph), Deadline
  PROVE  Calm(graph, graph')
<1>1. ASSUME NEW t \in {"wrap", "told", "past", "fired"} PROVE Calm(graph, ClockTo(t))
  BY ClockCalm DEF ClockTo
<1>2. CASE WrapUp
  BY <1>1, <1>2 DEF WrapUp
<1>3. CASE NotifyWrap
  <2>1. Calm(graph, ClockTo("told"))
    BY <1>1
  <2>2. QED
    BY <1>3, <2>1, CalmSound, TreeCalm, CalmTwice DEF NotifyWrap
<1>4. CASE Expires
  BY <1>1, <1>4 DEF Expires
<1>5. CASE HardStop
  <2>1. Calm(graph, ClockTo("fired")) /\ "cancelled" \in Points
    BY <1>1 DEF Points
  <2>2. Calm(graph, At(ClockTo("fired"), Root, "cancelled"))
    BY <2>1, RootKnown, PutCalm
  <2>3. QED
    BY <1>5, <2>1, <2>2 DEF HardStop
<1>6. QED
  BY <1>2, <1>3, <1>4, <1>5 DEF Deadline

\* The end of the scan: what is left is cancelled and settled.
LEMMA EndingCalm ==
  ASSUME GraphAssumption, Sound(graph), Ending
  PROVE  Calm(graph, graph')
<1>1. Calm(graph, graph)
  BY CalmItself
<1>2. CASE RootEnds
  <2>1. graph' = [graph EXCEPT !.closing = @ \/ graph.at[Root] = "gone"]
    BY <1>2 DEF RootEnds
  <2>2. QED
    BY <2>1, ClosingCalm
<1>3. ASSUME NEW a \in Agents, CancelChild(a) PROVE Calm(graph, graph')
  <2>1. "gone" \in Points
    BY DEF Points
  <2>2. Calm(graph, At(graph, a, "gone"))
    BY <1>1, <2>1, PutCalm
  <2>3. Calm(graph, RequestStop(graph, a, TRUE))
    BY RequestStopCalm
  <2>4. Calm(graph, At(RequestStop(graph, a, TRUE), a, "gone"))
    BY <2>1, <2>3, PutCalm
  <2>5. QED
    BY <1>3, <2>2, <2>4 DEF CancelChild
<1>4. CASE ScanOver
  <2> DEFINE swept == [graph EXCEPT !.status = [a \in Agents |->
                         IF a # Root /\ @[a] \in Active THEN "stopped" ELSE @[a]]]
  <2>1. Typed(graph)
    BY DEF Sound
  <2>2. /\ Keeps(graph, swept, {"status"})
        /\ swept.status = [a \in Agents |-> IF a # Root /\ graph.status[a] \in Active THEN "stopped"
                                            ELSE graph.status[a]]
    BY <2>1 DEF Typed, Fields, Keeps
  <2>3. /\ swept.status \in [Agents -> Statuses]
        /\ \A a \in Agents : swept.status[a] = graph.status[a] \/ swept.status[a] = "stopped"
    <3>1. graph.status \in [Agents -> Statuses] /\ "stopped" \in Statuses
      BY <2>1 DEF Typed, Statuses
    <3> HIDE DEF swept
    <3>2. QED
      BY <2>2, <3>1
  <2>4. /\ graph' \in {swept} \cup {SetStatus(swept, Root, s) : s \in {"stopped", "failed", "completed"}}
    BY <1>4 DEF ScanOver
  <2> HIDE DEF swept
  <2>5. /\ swept.at = graph.at /\ swept.kind = graph.kind /\ swept.gate = graph.gate /\ swept.wake = graph.wake
        /\ swept.told = graph.told /\ swept.stopped = graph.stopped /\ swept.turns = graph.turns
        /\ swept.parks = graph.parks /\ swept.recov = graph.recov /\ swept.idle = graph.idle
        /\ swept.notices = graph.notices /\ swept.bstop = graph.bstop /\ swept.rstop = graph.rstop
        /\ swept.mail = graph.mail /\ swept.pend = graph.pend /\ swept.paused = graph.paused
        /\ swept.closing = graph.closing /\ swept.delegate = graph.delegate /\ swept.clock = graph.clock
        /\ DOMAIN swept = Fields
    BY <2>2 DEF Keeps, Fields
  <2>6. Typed(swept)
    BY <2>1, <2>3, <2>5 DEF Typed
  <2>7. Calm(graph, swept)
    BY <2>3, <2>5, <2>6 DEF Sound, Calm
  <2>8. ASSUME NEW s \in {"stopped", "failed", "completed"} PROVE Calm(graph, SetStatus(swept, Root, s))
    <3>1. s \in Ends
      BY DEF Ends
    <3>2. QED
      BY <2>7, <3>1, RootKnown, MarkCalm
  <2>9. QED
    BY <2>7, <2>8, <2>4
<1>5. QED
  BY <1>2, <1>3, <1>4 DEF Ending

\* What any step does.
LEMMA StepFlows ==
  ASSUME GraphAssumption, Sound(graph), [Next]_vars
  PROVE  Flows(graph, graph') \/ (OperatorResume /\ Sound(graph') /\ graph'.turns = graph.turns
                                  /\ graph'.stopped = graph.stopped)
<1>1. CASE UNCHANGED vars
  BY <1>1, CalmItself, CalmFlows DEF vars
<1>2. ASSUME NEW a \in Agents, Task(a) PROVE Flows(graph, graph')
  BY <1>2, LoopCalm, ToolCalm, TurnFlows, CalmFlows DEF Task
<1>3. ASSUME NEW a \in Agents, Clock(a) PROVE Flows(graph, graph')
  BY <1>3, TimerCalm, CalmFlows DEF Clock
<1>4. ASSUME NEW a \in Agents, UserMessage(a) \/ OperatorStop(a) PROVE Flows(graph, graph')
  BY <1>4, UserCalm, CalmFlows
<1>5. CASE OperatorResume
  BY <1>5, ResumeSound DEF OperatorResume
<1>6. CASE Deadline
  BY <1>6, DeadlineCalm, CalmFlows
<1>7. CASE Ending
  BY <1>7, EndingCalm, CalmFlows
<1>8. CASE Over
  BY <1>8, CalmItself, CalmFlows DEF Over, vars
<1>9. QED
  BY <1>1, <1>2, <1>3, <1>4, <1>5, <1>6, <1>7, <1>8 DEF Next

\* A scan begins with a sound graph.
LEMMA InitSound ==
  ASSUME GraphAssumption, Init
  PROVE  Sound(graph)
<1>1. graph = Blank
  BY DEF Init
<1>2. Typed(Blank)
  BY DEF Blank, Typed, Fields, Fresh, Zero, GraphAssumption, Points, Statuses, Active, Errors
<1>3. QED
  BY <1>1, <1>2 DEF Sound, Blank, Fresh

-----------------------------------------------------------------------------
(* The theorems of AgentLoop. *)

\* Sound is an inductive invariant of a scan.
LEMMA SoundKept ==
  ASSUME GraphAssumption
  PROVE  Spec => [](Sound(graph))
<1>1. Init => Sound(graph)
  BY InitSound
<1>2. Sound(graph) /\ [Next]_vars => Sound(graph)'
  BY StepFlows DEF Flows
<1>3. QED
  BY <1>1, <1>2, PTL DEF Spec

\* No agent is left in "budget_paused" when the scan is not paused: not by a resume
\* that runs between two steps of a task, not by mail that arrives while it does, not
\* by a task that settles late (resume_budget, send, set_status, mark_running).
THEOREM PausesAreLifted ==
  ASSUME GraphAssumption
  PROVE  Spec => []NobodyLeftPaused
<1>1. Sound(graph) => NobodyLeftPaused
  BY DEF Sound, NobodyLeftPaused
<1>2. QED
  BY <1>1, SoundKept, PTL

\* Between the pause for the budget and the operator's resume no agent claims a turn,
\* whatever it was at when the pause fell (the checks of run_agent_loop and of
\* claim_model_start).
THEOREM PausesHold ==
  ASSUME GraphAssumption
  PROVE  Spec => NoTurnWhilePaused
<1>1. Sound(graph) /\ [Next]_vars => [graph.paused => graph'.turns = graph.turns]_vars
  BY StepFlows DEF Flows
<1>2. QED
  BY <1>1, SoundKept, PTL DEF Spec, NoTurnWhilePaused

-----------------------------------------------------------------------------
(* Where the tasks are. *)

Parked == {"check", "asleep"}
Sleeping == {"asleep", "dozing", "blocked"}

\* What an agent's fields are at each point of its task.
Local(g, e, b) ==
  /\ g.at[b] \in Sleeping /\ Ready(g, b) => g.wake[b]
  /\ b # Root /\ g.status[b] \in Errors /\ ~g.bstop => g.told[b]
  /\ g.status[b] = "stopped" /\ ~g.stopped[b] =>
       \/ g.at[b] \in {"check", "gone"}
       \/ g.at[b] \in Done /\ (~Interactive \/ e = "over")
  /\ Interactive /\ e = "no" /\ g.status[b] \in Errors => g.gate[b] /\ g.at[b] \in Parked
  /\ ~Interactive =>
       /\ g.at[b] \notin {"check", "asleep", "dozing"}
       /\ g.at[b] \in Done \cup {"none"} \/ g.status[b] \in Active \/ g.stopped[b]
            \/ (g.at[b] = "ended" /\ g.status[b] = "completed")
  /\ g.recov[b] <= RecoveryLimit /\ g.idle[b] <= IdleLimit
  /\ g.recov[b] = RecoveryLimit =>
       /\ g.at[b] \in Parked \cup Done
       /\ g.kind[b] # "agents" \/ g.status[b] \in Errors \cup {"stopped"}
  /\ g.at[b] = "dozing" => g.idle[b] < IdleLimit
  /\ b = Root /\ e # "no" => g.at[b] \in Done
  /\ e = "over" => g.at[b] \in Done \cup {"none"} /\ g.status[b] \notin Active

\* What holds of every agent in the middle of a step too.
Base(g) ==
  /\ g.status[Root] # "none"
  /\ \A b \in Agents :
       /\ g.parks[b] = Interactive
       /\ g.at[b] = "none" <=> g.status[b] = "none"
  /\ \A b \in Children :
       /\ g.status[b] # "none" => g.status[Parent[b]] # "none"
       /\ g.told[b] => g.notices[b] > 0 \/ Unreachable(g, Parent[b])

\* Every agent is in its place, but those in X.
Near(g, e, X) == Sound(g) /\ Base(g) /\ \A b \in Agents \ X : Local(g, e, b)

\* What no operation but a registration takes back.
Steady(g, h) ==
  /\ g.bstop => h.bstop
  /\ g.rstop => h.rstop
  /\ \A b \in Agents :
       /\ Unreachable(g, b) => Unreachable(h, b)
       /\ Interactive /\ g.status[b] = "stopped" => h.status[b] = "stopped"
       /\ ~Interactive /\ h.status[b] \in Active => g.status[b] \in Active
       /\ h.at[b] = "finishing" => g.at[b] = "finishing"

\* The fields of one agent, and those of the scan, are what they were.
Same(g, h, b) ==
  /\ h.status[b] = g.status[b] /\ h.at[b] = g.at[b] /\ h.kind[b] = g.kind[b] /\ h.gate[b] = g.gate[b]
  /\ h.wake[b] = g.wake[b] /\ h.pend[b] = g.pend[b] /\ h.told[b] = g.told[b]
  /\ h.stopped[b] = g.stopped[b] /\ h.parks[b] = g.parks[b] /\ h.recov[b] = g.recov[b]
  /\ h.idle[b] = g.idle[b] /\ h.notices[b] = g.notices[b]
Scan(g, h) == h.paused = g.paused /\ h.bstop = g.bstop /\ h.rstop = g.rstop

\* Only agent a may have changed.
Apart(g, h, a) == Scan(g, h) /\ \A b \in Agents \ {a} : Same(g, h, b)

\* An agent none of whose fields changed stays in its place.
LEMMA LocalSame ==
  ASSUME NEW g, NEW h, NEW e, NEW b, Same(g, h, b), Scan(g, h), Local(g, e, b)
  PROVE  Local(h, e, b)
BY DEF Same, Scan, Local, Ready

\* Steady is reflexive and transitive.
LEMMA SteadyItself == ASSUME NEW g PROVE Steady(g, g)
BY DEF Steady

LEMMA SteadyTwice == ASSUME NEW g, NEW h, NEW k, Steady(g, h), Steady(h, k) PROVE Steady(g, k)
BY DEF Steady

\* Fewer agents may be asked for.
LEMMA NearLess == ASSUME NEW g, NEW e, NEW X, NEW Y, Near(g, e, X), X \subseteq Y PROVE Near(g, e, Y)
BY DEF Near

\* A change of one agent, which is in its place again or need not be.
LEMMA OneNear ==
  ASSUME NEW g, NEW e, NEW X, Near(g, e, X), NEW a \in Agents, NEW h, Sound(h), Apart(g, h, a),
         h.parks[a] = g.parks[a], h.at[a] = "none" <=> h.status[a] = "none",
         g.status[a] # "none" => h.status[a] # "none",
         h.status[a] # "none" /\ a # Root => g.status[Parent[a]] # "none",
         h.told[a] /\ a # Root => h.notices[a] > 0 \/ Unreachable(g, Parent[a]),
         Unreachable(g, a) => Unreachable(h, a),
         a \notin X => Local(h, e, a)
  PROVE  Near(h, e, X)
<1>1. ASSUME NEW b \in Agents PROVE g.status[b] # "none" => h.status[b] # "none"
  BY DEF Apart, Same
<1>2. ASSUME NEW b \in Agents PROVE Unreachable(g, b) => Unreachable(h, b)
  BY DEF Apart, Same, Unreachable
<1>4. ASSUME NEW b \in Children
      PROVE  /\ h.status[b] # "none" => h.status[Parent[b]] # "none"
             /\ h.told[b] => h.notices[b] > 0 \/ Unreachable(h, Parent[b])
  <2>1. b \in Agents /\ Parent[b] \in Agents /\ b # Root
    BY ParentKnown, GraphAssumption DEF Children
  <2>2. CASE b = a
    BY <1>1, <1>2, <2>1, <2>2
  <2>3. CASE b # a
    <3>1. Same(g, h, b)
      BY <2>1, <2>3 DEF Apart
    <3>2. QED
      BY <1>1, <1>2, <2>1, <3>1 DEF Same, Near, Base
  <2>4. QED
    BY <2>2, <2>3
<1>5. Base(h)
  <2>1. ASSUME NEW b \in Agents PROVE h.parks[b] = Interactive /\ (h.at[b] = "none" <=> h.status[b] = "none")
    <3>1. g.parks[b] = Interactive /\ (g.at[b] = "none" <=> g.status[b] = "none")
      BY DEF Near, Base
    <3>2. CASE b = a
      BY <3>1, <3>2
    <3>3. CASE b # a
      <4>1. Same(g, h, b)
        BY <3>3 DEF Apart
      <4>2. QED
        BY <3>1, <4>1 DEF Same
    <3>4. QED
      BY <3>2, <3>3
  <2>2. h.status[Root] # "none"
    BY <1>1, RootKnown, GraphAssumption DEF Near, Base
  <2>3. QED
    BY <1>4, <2>1, <2>2 DEF Base
<1>6. ASSUME NEW b \in Agents \ X PROVE Local(h, e, b)
  <2>1. CASE b = a
    BY <2>1
  <2>2. CASE b # a
    BY <2>2, LocalSame DEF Apart, Near
  <2>3. QED
    BY <2>1, <2>2
<1>7. QED
  BY <1>5, <1>6 DEF Near

\* The same change, when it is steady besides.
LEMMA OneStep ==
  ASSUME NEW g, NEW e, NEW X, Near(g, e, X), NEW a \in Agents, NEW h, Sound(h), Apart(g, h, a),
         h.parks[a] = g.parks[a], h.at[a] = "none" <=> h.status[a] = "none",
         g.status[a] # "none" => h.status[a] # "none",
         h.status[a] # "none" /\ a # Root => g.status[Parent[a]] # "none",
         h.told[a] /\ a # Root => h.notices[a] > 0 \/ Unreachable(g, Parent[a]),
         Unreachable(g, a) => Unreachable(h, a),
         Interactive /\ g.status[a] = "stopped" => h.status[a] = "stopped",
         ~Interactive /\ h.status[a] \in Active => g.status[a] \in Active,
         h.at[a] = "finishing" => g.at[a] = "finishing",
         a \notin X => Local(h, e, a)
  PROVE  Near(h, e, X) /\ Steady(g, h)
<1>1. ASSUME NEW b \in Agents PROVE Unreachable(g, b) => Unreachable(h, b)
  BY DEF Apart, Same, Unreachable
<1>2. Steady(g, h)
  BY <1>1 DEF Apart, Same, Scan, Steady
<1>3. Near(h, e, X)
  BY OneNear
<1>4. QED
  BY <1>2, <1>3

\* The updates that have no name of their own.
Retried(g, a) == [g EXCEPT !.recov[a] = @ + 1]
Idled(g, a) == [g EXCEPT !.idle[a] = @ + 1]
Refreshed(g, a) == [g EXCEPT !.recov[a] = 0, !.idle[a] = 0]
Armed(g, a) == [g EXCEPT !.wake[a] = FALSE]
Roused(g, a) == [g EXCEPT !.wake[a] = TRUE]
Tell(g, a) == [g EXCEPT !.told[a] = TRUE]
Halted(g, a) == [g EXCEPT !.stopped[a] = TRUE, !.status[a] = "stopped", !.wake[a] = TRUE]

\* Its task is at p, and nothing else has changed.
Puts(g, h, a, p) ==
  /\ Apart(g, h, a) /\ h.at[a] = p
  /\ h.status[a] = g.status[a] /\ h.kind[a] = g.kind[a] /\ h.gate[a] = g.gate[a]
  /\ h.wake[a] = g.wake[a] /\ h.pend[a] = g.pend[a] /\ h.told[a] = g.told[a]
  /\ h.stopped[a] = g.stopped[a] /\ h.parks[a] = g.parks[a] /\ h.recov[a] = g.recov[a]
  /\ h.idle[a] = g.idle[a] /\ h.notices[a] = g.notices[a]

\* What each update of one agent sets, and that it leaves its other fields and the other
\* agents alone. First where a task is put, a status and a park.
LEMMA AtPuts ==
  ASSUME NEW g, Sound(g), NEW a \in Agents, NEW p \in Points
  PROVE  Puts(g, At(g, a, p), a, p)
<1> DEFINE h == At(g, a, p)
<1>1. Typed(g)
  BY DEF Sound
<1>2. /\ Keeps(g, h, {"at"})
      /\ h.at = [g.at EXCEPT ![a] = p]
  BY <1>1 DEF At, Typed, Fields, Keeps
<1> HIDE DEF h
<1>3. /\ h.status = g.status /\ h.kind = g.kind /\ h.gate = g.gate /\ h.wake = g.wake
      /\ h.pend = g.pend /\ h.told = g.told /\ h.stopped = g.stopped /\ h.parks = g.parks
      /\ h.recov = g.recov /\ h.idle = g.idle /\ h.notices = g.notices /\ h.paused = g.paused
      /\ h.bstop = g.bstop /\ h.rstop = g.rstop
  BY <1>2 DEF Keeps, Fields
<1>4. Apart(g, h, a)
  BY <1>1, <1>2, <1>3 DEF Apart, Scan, Same, Typed
<1>5. /\ h.at[a] = p
  BY <1>1, <1>2 DEF Typed
<1>6. QED
  BY <1>3, <1>4, <1>5 DEF h, Puts

\* Its status is s, and it is parked with kind n.
Sets(g, h, a, s) ==
  /\ Apart(g, h, a) /\ h.status[a] = s /\ h.at[a] = g.at[a] /\ h.kind[a] = g.kind[a] /\ h.told[a] = g.told[a]
  /\ h.stopped[a] = g.stopped[a] /\ h.parks[a] = g.parks[a] /\ h.recov[a] = g.recov[a]
  /\ h.idle[a] = g.idle[a] /\ h.notices[a] = g.notices[a]
  /\ h.gate[a] = (s \in Errors)

LEMMA SetSets ==
  ASSUME NEW g, Sound(g), NEW a \in Agents, NEW s \in Ends, g.status[a] # "none", ~g.stopped[a]
  PROVE  Sets(g, SetStatus(g, a, s), a, s)
<1> DEFINE h == SetStatus(g, a, s)
<1>1. Typed(g)
  BY DEF Sound
<1>2. /\ Keeps(g, h, {"status", "gate", "wake"})
      /\ h.status = [g.status EXCEPT ![a] = s]
      /\ h.gate = [g.gate EXCEPT ![a] = s \in Errors]
      /\ h.wake = [g.wake EXCEPT ![a] = TRUE]
  BY <1>1 DEF SetStatus, Typed, Fields, Keeps
<1> HIDE DEF h
<1>3. /\ h.at = g.at /\ h.kind = g.kind /\ h.pend = g.pend /\ h.told = g.told
      /\ h.stopped = g.stopped /\ h.parks = g.parks /\ h.recov = g.recov /\ h.idle = g.idle
      /\ h.notices = g.notices /\ h.paused = g.paused /\ h.bstop = g.bstop /\ h.rstop = g.rstop
  BY <1>2 DEF Keeps, Fields
<1>4. Apart(g, h, a)
  BY <1>1, <1>2, <1>3 DEF Apart, Scan, Same, Typed
<1>5. /\ h.status[a] = s
      /\ h.gate[a] = (s \in Errors)
      /\ h.wake[a] = TRUE
  BY <1>1, <1>2 DEF Typed
<1>6. QED
  BY <1>3, <1>4, <1>5 DEF h, Sets

Parks(g, h, a, n) ==
  /\ Apart(g, h, a) /\ h.status[a] = "waiting" /\ h.kind[a] = n /\ h.at[a] = g.at[a] /\ h.told[a] = g.told[a]
  /\ h.stopped[a] = g.stopped[a] /\ h.parks[a] = g.parks[a] /\ h.recov[a] = g.recov[a]
  /\ h.idle[a] = g.idle[a] /\ h.notices[a] = g.notices[a]

LEMMA ParkParks ==
  ASSUME NEW g, Sound(g), NEW a \in Agents, NEW k \in Kinds, g.status[a] \notin {"none", "stopped"}
  PROVE  Parks(g, Park(g, a, k), a, k)
<1> DEFINE h == Park(g, a, k)
<1>1. Typed(g)
  BY DEF Sound
<1>2. /\ Keeps(g, h, {"status", "kind", "gate", "wake"})
      /\ h.status = [g.status EXCEPT ![a] = "waiting"]
      /\ h.kind = [g.kind EXCEPT ![a] = k]
      /\ h.gate = [g.gate EXCEPT ![a] = FALSE]
      /\ h.wake = [g.wake EXCEPT ![a] = TRUE]
  BY <1>1 DEF Park, Typed, Fields, Keeps
<1> HIDE DEF h
<1>3. /\ h.at = g.at /\ h.pend = g.pend /\ h.told = g.told /\ h.stopped = g.stopped
      /\ h.parks = g.parks /\ h.recov = g.recov /\ h.idle = g.idle /\ h.notices = g.notices
      /\ h.paused = g.paused /\ h.bstop = g.bstop /\ h.rstop = g.rstop
  BY <1>2 DEF Keeps, Fields
<1>4. Apart(g, h, a)
  BY <1>1, <1>2, <1>3 DEF Apart, Scan, Same, Typed
<1>5. /\ h.status[a] = "waiting"
      /\ h.kind[a] = k
      /\ h.gate[a] = FALSE
      /\ h.wake[a] = TRUE
  BY <1>1, <1>2 DEF Typed
<1>6. QED
  BY <1>3, <1>4, <1>5 DEF h, Parks

\* A fresh stint, not paused and paused.
LEMMA RunsFields ==
  ASSUME NEW g, Sound(g), NEW a \in Agents, g.status[a] \in Active, ~g.paused
  PROVE  LET h == MarkRunning(g, a) IN
         /\ Apart(g, h, a)
         /\ h.status[a] = "running"
         /\ h.kind[a] = "none"
         /\ h.gate[a] = FALSE
         /\ h.told[a] = FALSE
         /\ h.notices[a] = 0
         /\ h.at[a] = g.at[a] /\ h.wake[a] = g.wake[a] /\ h.pend[a] = g.pend[a]
         /\ h.stopped[a] = g.stopped[a] /\ h.parks[a] = g.parks[a] /\ h.recov[a] = g.recov[a]
         /\ h.idle[a] = g.idle[a]
<1> DEFINE h == MarkRunning(g, a)
<1>1. Typed(g)
  BY DEF Sound
<1>2. /\ Keeps(g, h, {"status", "kind", "gate", "told", "notices"})
      /\ h.status = [g.status EXCEPT ![a] = "running"]
      /\ h.kind = [g.kind EXCEPT ![a] = "none"]
      /\ h.gate = [g.gate EXCEPT ![a] = FALSE]
      /\ h.told = [g.told EXCEPT ![a] = FALSE]
      /\ h.notices = [g.notices EXCEPT ![a] = 0]
  BY <1>1 DEF MarkRunning, Typed, Fields, Keeps
<1> HIDE DEF h
<1>3. /\ h.at = g.at /\ h.wake = g.wake /\ h.pend = g.pend /\ h.stopped = g.stopped
      /\ h.parks = g.parks /\ h.recov = g.recov /\ h.idle = g.idle /\ h.paused = g.paused
      /\ h.bstop = g.bstop /\ h.rstop = g.rstop
  BY <1>2 DEF Keeps, Fields
<1>4. Apart(g, h, a)
  BY <1>1, <1>2, <1>3 DEF Apart, Scan, Same, Typed
<1>5. /\ h.status[a] = "running"
      /\ h.kind[a] = "none"
      /\ h.gate[a] = FALSE
      /\ h.told[a] = FALSE
      /\ h.notices[a] = 0
  BY <1>1, <1>2 DEF Typed
<1>6. QED
  BY <1>3, <1>4, <1>5 DEF h

LEMMA HeldFields ==
  ASSUME NEW g, Sound(g), NEW a \in Agents, g.status[a] \in Active, g.paused
  PROVE  LET h == MarkRunning(g, a) IN
         /\ Apart(g, h, a)
         /\ h.status[a] = "budget_paused"
         /\ h.at[a] = g.at[a] /\ h.kind[a] = g.kind[a] /\ h.gate[a] = g.gate[a]
         /\ h.wake[a] = g.wake[a] /\ h.pend[a] = g.pend[a] /\ h.told[a] = g.told[a]
         /\ h.stopped[a] = g.stopped[a] /\ h.parks[a] = g.parks[a] /\ h.recov[a] = g.recov[a]
         /\ h.idle[a] = g.idle[a] /\ h.notices[a] = g.notices[a]
<1> DEFINE h == MarkRunning(g, a)
<1>1. Typed(g)
  BY DEF Sound
<1>2. /\ Keeps(g, h, {"status"})
      /\ h.status = [g.status EXCEPT ![a] = "budget_paused"]
  BY <1>1 DEF MarkRunning, Typed, Fields, Keeps
<1> HIDE DEF h
<1>3. /\ h.at = g.at /\ h.kind = g.kind /\ h.gate = g.gate /\ h.wake = g.wake /\ h.pend = g.pend
      /\ h.told = g.told /\ h.stopped = g.stopped /\ h.parks = g.parks /\ h.recov = g.recov
      /\ h.idle = g.idle /\ h.notices = g.notices /\ h.paused = g.paused /\ h.bstop = g.bstop
      /\ h.rstop = g.rstop
  BY <1>2 DEF Keeps, Fields
<1>4. Apart(g, h, a)
  BY <1>1, <1>2, <1>3 DEF Apart, Scan, Same, Typed
<1>5. /\ h.status[a] = "budget_paused"
  BY <1>1, <1>2 DEF Typed
<1>6. QED
  BY <1>3, <1>4, <1>5 DEF h

\* The mailbox emptied and filled again.
LEMMA TakeMailFields ==
  ASSUME NEW g, Sound(g), NEW a \in Agents
  PROVE  LET h == TakeMail(g, a) IN
         /\ Apart(g, h, a)
         /\ h.pend[a] = FALSE
         /\ h.status[a] = g.status[a] /\ h.at[a] = g.at[a] /\ h.kind[a] = g.kind[a]
         /\ h.gate[a] = g.gate[a] /\ h.wake[a] = g.wake[a] /\ h.told[a] = g.told[a]
         /\ h.stopped[a] = g.stopped[a] /\ h.parks[a] = g.parks[a] /\ h.recov[a] = g.recov[a]
         /\ h.idle[a] = g.idle[a] /\ h.notices[a] = g.notices[a]
<1> DEFINE h == TakeMail(g, a)
<1>1. Typed(g)
  BY DEF Sound
<1>2. /\ Keeps(g, h, {"pend", "mail"})
      /\ h.pend = [g.pend EXCEPT ![a] = FALSE]
  BY <1>1 DEF TakeMail, Typed, Fields, Keeps
<1> HIDE DEF h
<1>3. /\ h.status = g.status /\ h.at = g.at /\ h.kind = g.kind /\ h.gate = g.gate /\ h.wake = g.wake
      /\ h.told = g.told /\ h.stopped = g.stopped /\ h.parks = g.parks /\ h.recov = g.recov
      /\ h.idle = g.idle /\ h.notices = g.notices /\ h.paused = g.paused /\ h.bstop = g.bstop
      /\ h.rstop = g.rstop
  BY <1>2 DEF Keeps, Fields
<1>4. Apart(g, h, a)
  BY <1>1, <1>2, <1>3 DEF Apart, Scan, Same, Typed
<1>5. /\ h.pend[a] = FALSE
  BY <1>1, <1>2 DEF Typed
<1>6. QED
  BY <1>3, <1>4, <1>5 DEF h

LEMMA ReturnMailFields ==
  ASSUME NEW g, Sound(g), NEW a \in Agents
  PROVE  LET h == ReturnMail(g, a) IN
         /\ Apart(g, h, a)
         /\ h.status[a] = g.status[a] /\ h.at[a] = g.at[a] /\ h.kind[a] = g.kind[a]
         /\ h.gate[a] = g.gate[a] /\ h.wake[a] = g.wake[a] /\ h.pend[a] = g.pend[a]
         /\ h.told[a] = g.told[a] /\ h.stopped[a] = g.stopped[a] /\ h.parks[a] = g.parks[a]
         /\ h.recov[a] = g.recov[a] /\ h.idle[a] = g.idle[a] /\ h.notices[a] = g.notices[a]
<1> DEFINE h == ReturnMail(g, a)
<1>1. Typed(g)
  BY DEF Sound
<1>2. /\ Keeps(g, h, {"mail"})
  BY <1>1 DEF ReturnMail, Typed, Fields, Keeps
<1> HIDE DEF h
<1>3. /\ h.status = g.status /\ h.at = g.at /\ h.kind = g.kind /\ h.gate = g.gate /\ h.wake = g.wake
      /\ h.pend = g.pend /\ h.told = g.told /\ h.stopped = g.stopped /\ h.parks = g.parks
      /\ h.recov = g.recov /\ h.idle = g.idle /\ h.notices = g.notices /\ h.paused = g.paused
      /\ h.bstop = g.bstop /\ h.rstop = g.rstop
  BY <1>2 DEF Keeps, Fields
<1>4. Apart(g, h, a)
  BY <1>1, <1>2, <1>3 DEF Apart, Scan, Same, Typed
<1>5. TRUE
  BY <1>1, <1>2 DEF Typed
<1>6. QED
  BY <1>3, <1>4, <1>5 DEF h

\* The counters of recoveries and of idle resumes.
LEMMA ResetFields ==
  ASSUME NEW g, Sound(g), NEW a \in Agents
  PROVE  LET h == ResetRecovery(g, a) IN
         /\ Apart(g, h, a)
         /\ h.recov[a] = 0
         /\ h.status[a] = g.status[a] /\ h.at[a] = g.at[a] /\ h.kind[a] = g.kind[a]
         /\ h.gate[a] = g.gate[a] /\ h.wake[a] = g.wake[a] /\ h.pend[a] = g.pend[a]
         /\ h.told[a] = g.told[a] /\ h.stopped[a] = g.stopped[a] /\ h.parks[a] = g.parks[a]
         /\ h.idle[a] = g.idle[a] /\ h.notices[a] = g.notices[a]
<1> DEFINE h == ResetRecovery(g, a)
<1>1. Typed(g)
  BY DEF Sound
<1>2. /\ Keeps(g, h, {"recov"})
      /\ h.recov = [g.recov EXCEPT ![a] = 0]
  BY <1>1 DEF ResetRecovery, Typed, Fields, Keeps
<1> HIDE DEF h
<1>3. /\ h.status = g.status /\ h.at = g.at /\ h.kind = g.kind /\ h.gate = g.gate /\ h.wake = g.wake
      /\ h.pend = g.pend /\ h.told = g.told /\ h.stopped = g.stopped /\ h.parks = g.parks
      /\ h.idle = g.idle /\ h.notices = g.notices /\ h.paused = g.paused /\ h.bstop = g.bstop
      /\ h.rstop = g.rstop
  BY <1>2 DEF Keeps, Fields
<1>4. Apart(g, h, a)
  BY <1>1, <1>2, <1>3 DEF Apart, Scan, Same, Typed
<1>5. /\ h.recov[a] = 0
  BY <1>1, <1>2 DEF Typed
<1>6. QED
  BY <1>3, <1>4, <1>5 DEF h

LEMMA RecovFields ==
  ASSUME NEW g, Sound(g), NEW a \in Agents
  PROVE  LET h == Retried(g, a) IN
         /\ Apart(g, h, a)
         /\ h.recov[a] = g.recov[a] + 1
         /\ h.status[a] = g.status[a] /\ h.at[a] = g.at[a] /\ h.kind[a] = g.kind[a]
         /\ h.gate[a] = g.gate[a] /\ h.wake[a] = g.wake[a] /\ h.pend[a] = g.pend[a]
         /\ h.told[a] = g.told[a] /\ h.stopped[a] = g.stopped[a] /\ h.parks[a] = g.parks[a]
         /\ h.idle[a] = g.idle[a] /\ h.notices[a] = g.notices[a]
<1> DEFINE h == Retried(g, a)
<1>1. Typed(g)
  BY DEF Sound
<1>2. /\ Keeps(g, h, {"recov"})
      /\ h.recov = [g.recov EXCEPT ![a] = @ + 1]
  BY <1>1 DEF Retried, Typed, Fields, Keeps
<1> HIDE DEF h
<1>3. /\ h.status = g.status /\ h.at = g.at /\ h.kind = g.kind /\ h.gate = g.gate /\ h.wake = g.wake
      /\ h.pend = g.pend /\ h.told = g.told /\ h.stopped = g.stopped /\ h.parks = g.parks
      /\ h.idle = g.idle /\ h.notices = g.notices /\ h.paused = g.paused /\ h.bstop = g.bstop
      /\ h.rstop = g.rstop
  BY <1>2 DEF Keeps, Fields
<1>4. Apart(g, h, a)
  BY <1>1, <1>2, <1>3 DEF Apart, Scan, Same, Typed
<1>5. /\ h.recov[a] = g.recov[a] + 1
  BY <1>1, <1>2 DEF Typed
<1>6. QED
  BY <1>3, <1>4, <1>5 DEF h

LEMMA IdleFields ==
  ASSUME NEW g, Sound(g), NEW a \in Agents
  PROVE  LET h == Idled(g, a) IN
         /\ Apart(g, h, a)
         /\ h.idle[a] = g.idle[a] + 1
         /\ h.status[a] = g.status[a] /\ h.at[a] = g.at[a] /\ h.kind[a] = g.kind[a]
         /\ h.gate[a] = g.gate[a] /\ h.wake[a] = g.wake[a] /\ h.pend[a] = g.pend[a]
         /\ h.told[a] = g.told[a] /\ h.stopped[a] = g.stopped[a] /\ h.parks[a] = g.parks[a]
         /\ h.recov[a] = g.recov[a] /\ h.notices[a] = g.notices[a]
<1> DEFINE h == Idled(g, a)
<1>1. Typed(g)
  BY DEF Sound
<1>2. /\ Keeps(g, h, {"idle"})
      /\ h.idle = [g.idle EXCEPT ![a] = @ + 1]
  BY <1>1 DEF Idled, Typed, Fields, Keeps
<1> HIDE DEF h
<1>3. /\ h.status = g.status /\ h.at = g.at /\ h.kind = g.kind /\ h.gate = g.gate /\ h.wake = g.wake
      /\ h.pend = g.pend /\ h.told = g.told /\ h.stopped = g.stopped /\ h.parks = g.parks
      /\ h.recov = g.recov /\ h.notices = g.notices /\ h.paused = g.paused /\ h.bstop = g.bstop
      /\ h.rstop = g.rstop
  BY <1>2 DEF Keeps, Fields
<1>4. Apart(g, h, a)
  BY <1>1, <1>2, <1>3 DEF Apart, Scan, Same, Typed
<1>5. /\ h.idle[a] = g.idle[a] + 1
  BY <1>1, <1>2 DEF Typed
<1>6. QED
  BY <1>3, <1>4, <1>5 DEF h

LEMMA ReadFields ==
  ASSUME NEW g, Sound(g), NEW a \in Agents
  PROVE  LET h == Refreshed(g, a) IN
         /\ Apart(g, h, a)
         /\ h.recov[a] = 0
         /\ h.idle[a] = 0
         /\ h.status[a] = g.status[a] /\ h.at[a] = g.at[a] /\ h.kind[a] = g.kind[a]
         /\ h.gate[a] = g.gate[a] /\ h.wake[a] = g.wake[a] /\ h.pend[a] = g.pend[a]
         /\ h.told[a] = g.told[a] /\ h.stopped[a] = g.stopped[a] /\ h.parks[a] = g.parks[a]
         /\ h.notices[a] = g.notices[a]
<1> DEFINE h == Refreshed(g, a)
<1>1. Typed(g)
  BY DEF Sound
<1>2. /\ Keeps(g, h, {"recov", "idle"})
      /\ h.recov = [g.recov EXCEPT ![a] = 0]
      /\ h.idle = [g.idle EXCEPT ![a] = 0]
  BY <1>1 DEF Refreshed, Typed, Fields, Keeps
<1> HIDE DEF h
<1>3. /\ h.status = g.status /\ h.at = g.at /\ h.kind = g.kind /\ h.gate = g.gate /\ h.wake = g.wake
      /\ h.pend = g.pend /\ h.told = g.told /\ h.stopped = g.stopped /\ h.parks = g.parks
      /\ h.notices = g.notices /\ h.paused = g.paused /\ h.bstop = g.bstop /\ h.rstop = g.rstop
  BY <1>2 DEF Keeps, Fields
<1>4. Apart(g, h, a)
  BY <1>1, <1>2, <1>3 DEF Apart, Scan, Same, Typed
<1>5. /\ h.recov[a] = 0
      /\ h.idle[a] = 0
  BY <1>1, <1>2 DEF Typed
<1>6. QED
  BY <1>3, <1>4, <1>5 DEF h

\* The wake event cleared and set.
LEMMA ArmFields ==
  ASSUME NEW g, Sound(g), NEW a \in Agents
  PROVE  LET h == Armed(g, a) IN
         /\ Apart(g, h, a)
         /\ h.wake[a] = FALSE
         /\ h.status[a] = g.status[a] /\ h.at[a] = g.at[a] /\ h.kind[a] = g.kind[a]
         /\ h.gate[a] = g.gate[a] /\ h.pend[a] = g.pend[a] /\ h.told[a] = g.told[a]
         /\ h.stopped[a] = g.stopped[a] /\ h.parks[a] = g.parks[a] /\ h.recov[a] = g.recov[a]
         /\ h.idle[a] = g.idle[a] /\ h.notices[a] = g.notices[a]
<1> DEFINE h == Armed(g, a)
<1>1. Typed(g)
  BY DEF Sound
<1>2. /\ Keeps(g, h, {"wake"})
      /\ h.wake = [g.wake EXCEPT ![a] = FALSE]
  BY <1>1 DEF Armed, Typed, Fields, Keeps
<1> HIDE DEF h
<1>3. /\ h.status = g.status /\ h.at = g.at /\ h.kind = g.kind /\ h.gate = g.gate /\ h.pend = g.pend
      /\ h.told = g.told /\ h.stopped = g.stopped /\ h.parks = g.parks /\ h.recov = g.recov
      /\ h.idle = g.idle /\ h.notices = g.notices /\ h.paused = g.paused /\ h.bstop = g.bstop
      /\ h.rstop = g.rstop
  BY <1>2 DEF Keeps, Fields
<1>4. Apart(g, h, a)
  BY <1>1, <1>2, <1>3 DEF Apart, Scan, Same, Typed
<1>5. /\ h.wake[a] = FALSE
  BY <1>1, <1>2 DEF Typed
<1>6. QED
  BY <1>3, <1>4, <1>5 DEF h

LEMMA WakeFields ==
  ASSUME NEW g, Sound(g), NEW a \in Agents
  PROVE  LET h == Roused(g, a) IN
         /\ Apart(g, h, a)
         /\ h.wake[a] = TRUE
         /\ h.status[a] = g.status[a] /\ h.at[a] = g.at[a] /\ h.kind[a] = g.kind[a]
         /\ h.gate[a] = g.gate[a] /\ h.pend[a] = g.pend[a] /\ h.told[a] = g.told[a]
         /\ h.stopped[a] = g.stopped[a] /\ h.parks[a] = g.parks[a] /\ h.recov[a] = g.recov[a]
         /\ h.idle[a] = g.idle[a] /\ h.notices[a] = g.notices[a]
<1> DEFINE h == Roused(g, a)
<1>1. Typed(g)
  BY DEF Sound
<1>2. /\ Keeps(g, h, {"wake"})
      /\ h.wake = [g.wake EXCEPT ![a] = TRUE]
  BY <1>1 DEF Roused, Typed, Fields, Keeps
<1> HIDE DEF h
<1>3. /\ h.status = g.status /\ h.at = g.at /\ h.kind = g.kind /\ h.gate = g.gate /\ h.pend = g.pend
      /\ h.told = g.told /\ h.stopped = g.stopped /\ h.parks = g.parks /\ h.recov = g.recov
      /\ h.idle = g.idle /\ h.notices = g.notices /\ h.paused = g.paused /\ h.bstop = g.bstop
      /\ h.rstop = g.rstop
  BY <1>2 DEF Keeps, Fields
<1>4. Apart(g, h, a)
  BY <1>1, <1>2, <1>3 DEF Apart, Scan, Same, Typed
<1>5. /\ h.wake[a] = TRUE
  BY <1>1, <1>2 DEF Typed
<1>6. QED
  BY <1>3, <1>4, <1>5 DEF h

\* The claim of the notice, a stop, the notice received, a turn claimed.
LEMMA ToldFields ==
  ASSUME NEW g, Sound(g), NEW a \in Agents
  PROVE  LET h == Tell(g, a) IN
         /\ Apart(g, h, a)
         /\ h.told[a] = TRUE
         /\ h.status[a] = g.status[a] /\ h.at[a] = g.at[a] /\ h.kind[a] = g.kind[a]
         /\ h.gate[a] = g.gate[a] /\ h.wake[a] = g.wake[a] /\ h.pend[a] = g.pend[a]
         /\ h.stopped[a] = g.stopped[a] /\ h.parks[a] = g.parks[a] /\ h.recov[a] = g.recov[a]
         /\ h.idle[a] = g.idle[a] /\ h.notices[a] = g.notices[a]
<1> DEFINE h == Tell(g, a)
<1>1. Typed(g)
  BY DEF Sound
<1>2. /\ Keeps(g, h, {"told"})
      /\ h.told = [g.told EXCEPT ![a] = TRUE]
  BY <1>1 DEF Tell, Typed, Fields, Keeps
<1> HIDE DEF h
<1>3. /\ h.status = g.status /\ h.at = g.at /\ h.kind = g.kind /\ h.gate = g.gate /\ h.wake = g.wake
      /\ h.pend = g.pend /\ h.stopped = g.stopped /\ h.parks = g.parks /\ h.recov = g.recov
      /\ h.idle = g.idle /\ h.notices = g.notices /\ h.paused = g.paused /\ h.bstop = g.bstop
      /\ h.rstop = g.rstop
  BY <1>2 DEF Keeps, Fields
<1>4. Apart(g, h, a)
  BY <1>1, <1>2, <1>3 DEF Apart, Scan, Same, Typed
<1>5. /\ h.told[a] = TRUE
  BY <1>1, <1>2 DEF Typed
<1>6. QED
  BY <1>3, <1>4, <1>5 DEF h

LEMMA StopFields ==
  ASSUME NEW g, Sound(g), NEW a \in Agents
  PROVE  LET h == Halted(g, a) IN
         /\ Apart(g, h, a)
         /\ h.stopped[a] = TRUE
         /\ h.status[a] = "stopped"
         /\ h.wake[a] = TRUE
         /\ h.at[a] = g.at[a] /\ h.kind[a] = g.kind[a] /\ h.gate[a] = g.gate[a]
         /\ h.pend[a] = g.pend[a] /\ h.told[a] = g.told[a] /\ h.parks[a] = g.parks[a]
         /\ h.recov[a] = g.recov[a] /\ h.idle[a] = g.idle[a] /\ h.notices[a] = g.notices[a]
<1> DEFINE h == Halted(g, a)
<1>1. Typed(g)
  BY DEF Sound
<1>2. /\ Keeps(g, h, {"stopped", "status", "wake"})
      /\ h.stopped = [g.stopped EXCEPT ![a] = TRUE]
      /\ h.status = [g.status EXCEPT ![a] = "stopped"]
      /\ h.wake = [g.wake EXCEPT ![a] = TRUE]
  BY <1>1 DEF Halted, Typed, Fields, Keeps
<1> HIDE DEF h
<1>3. /\ h.at = g.at /\ h.kind = g.kind /\ h.gate = g.gate /\ h.pend = g.pend /\ h.told = g.told
      /\ h.parks = g.parks /\ h.recov = g.recov /\ h.idle = g.idle /\ h.notices = g.notices
      /\ h.paused = g.paused /\ h.bstop = g.bstop /\ h.rstop = g.rstop
  BY <1>2 DEF Keeps, Fields
<1>4. Apart(g, h, a)
  BY <1>1, <1>2, <1>3 DEF Apart, Scan, Same, Typed
<1>5. /\ h.stopped[a] = TRUE
      /\ h.status[a] = "stopped"
      /\ h.wake[a] = TRUE
  BY <1>1, <1>2 DEF Typed
<1>6. QED
  BY <1>3, <1>4, <1>5 DEF h

LEMMA CountedFields ==
  ASSUME NEW g, Sound(g), NEW a \in Agents
  PROVE  LET h == Counted(g, a) IN
         /\ Apart(g, h, a)
         /\ h.notices[a] = (IF Accepts(g, Parent[a], FALSE) /\ g.notices[a] < 2 THEN g.notices[a] + 1 ELSE g.notices[a])
         /\ h.status[a] = g.status[a] /\ h.at[a] = g.at[a] /\ h.kind[a] = g.kind[a]
         /\ h.gate[a] = g.gate[a] /\ h.wake[a] = g.wake[a] /\ h.pend[a] = g.pend[a]
         /\ h.told[a] = g.told[a] /\ h.stopped[a] = g.stopped[a] /\ h.parks[a] = g.parks[a]
         /\ h.recov[a] = g.recov[a] /\ h.idle[a] = g.idle[a]
<1> DEFINE h == Counted(g, a)
<1>1. Typed(g)
  BY DEF Sound
<1>2. /\ Keeps(g, h, {"notices"})
      /\ h.notices = [g.notices EXCEPT ![a] = IF Accepts(g, Parent[a], FALSE) /\ @ < 2 THEN @ + 1 ELSE @]
  BY <1>1 DEF Counted, Typed, Fields, Keeps
<1> HIDE DEF h
<1>3. /\ h.status = g.status /\ h.at = g.at /\ h.kind = g.kind /\ h.gate = g.gate /\ h.wake = g.wake
      /\ h.pend = g.pend /\ h.told = g.told /\ h.stopped = g.stopped /\ h.parks = g.parks
      /\ h.recov = g.recov /\ h.idle = g.idle /\ h.paused = g.paused /\ h.bstop = g.bstop
      /\ h.rstop = g.rstop
  BY <1>2 DEF Keeps, Fields
<1>4. Apart(g, h, a)
  BY <1>1, <1>2, <1>3 DEF Apart, Scan, Same, Typed
<1>5. /\ h.notices[a] = (IF Accepts(g, Parent[a], FALSE) /\ g.notices[a] < 2 THEN g.notices[a] + 1 ELSE g.notices[a])
  BY <1>1, <1>2 DEF Typed
<1>6. QED
  BY <1>3, <1>4, <1>5 DEF h

LEMMA ClaimedFields ==
  ASSUME NEW g, Sound(g), NEW a \in Agents
  PROVE  LET h == Claimed(g, a) IN
         /\ Apart(g, h, a)
         /\ h.status[a] = g.status[a] /\ h.at[a] = g.at[a] /\ h.kind[a] = g.kind[a]
         /\ h.gate[a] = g.gate[a] /\ h.wake[a] = g.wake[a] /\ h.pend[a] = g.pend[a]
         /\ h.told[a] = g.told[a] /\ h.stopped[a] = g.stopped[a] /\ h.parks[a] = g.parks[a]
         /\ h.recov[a] = g.recov[a] /\ h.idle[a] = g.idle[a] /\ h.notices[a] = g.notices[a]
<1> DEFINE h == Claimed(g, a)
<1>1. Typed(g)
  BY DEF Sound
<1>2. /\ Keeps(g, h, {"turns"})
  BY <1>1 DEF Claimed, Typed, Fields, Keeps
<1> HIDE DEF h
<1>3. /\ h.status = g.status /\ h.at = g.at /\ h.kind = g.kind /\ h.gate = g.gate /\ h.wake = g.wake
      /\ h.pend = g.pend /\ h.told = g.told /\ h.stopped = g.stopped /\ h.parks = g.parks
      /\ h.recov = g.recov /\ h.idle = g.idle /\ h.notices = g.notices /\ h.paused = g.paused
      /\ h.bstop = g.bstop /\ h.rstop = g.rstop
  BY <1>2 DEF Keeps, Fields
<1>4. Apart(g, h, a)
  BY <1>1, <1>2, <1>3 DEF Apart, Scan, Same, Typed
<1>5. TRUE
  BY <1>1, <1>2 DEF Typed
<1>6. QED
  BY <1>3, <1>4, <1>5 DEF h

\* A change that wakes everybody, and may hold or release agents.
LEMMA AllStep ==
  ASSUME NEW g, NEW e, e # "over", NEW X, Near(g, e, X), NEW h, Sound(h),
         g.bstop => h.bstop, g.rstop => h.rstop,
         \A b \in Agents :
           /\ h.wake[b] = (g.status[b] # "none")
           /\ h.at[b] = g.at[b] /\ h.kind[b] = g.kind[b] /\ h.gate[b] = g.gate[b] /\ h.told[b] = g.told[b]
           /\ h.stopped[b] = g.stopped[b] /\ h.parks[b] = g.parks[b] /\ h.recov[b] = g.recov[b]
           /\ h.idle[b] = g.idle[b] /\ h.notices[b] = g.notices[b]
           /\ \/ h.status[b] = g.status[b]
              \/ Interactive /\ g.status[b] \in Active \cup {"budget_paused"}
                 /\ h.status[b] \in {"waiting", "budget_paused"}
  PROVE  Near(h, e, X) /\ Steady(g, h)
<1>1. ASSUME NEW b \in Agents
      PROVE  /\ g.status[b] # "none" <=> h.status[b] # "none"
             /\ g.status[b] \in Errors \cup {"stopped", "completed"} => h.status[b] = g.status[b]
             /\ ~Interactive => h.status[b] = g.status[b]
             /\ h.status[b] \in Errors \cup {"stopped", "completed"} => h.status[b] = g.status[b]
  BY DEF Active, Errors
<1>2. ASSUME NEW b \in Agents PROVE Unreachable(g, b) => Unreachable(h, b)
  BY <1>1 DEF Unreachable
<1>3. Steady(g, h)
  BY <1>1, <1>2 DEF Steady
<1>4. ASSUME NEW b \in Children
      PROVE  /\ h.status[b] # "none" => h.status[Parent[b]] # "none"
             /\ h.told[b] => h.notices[b] > 0 \/ Unreachable(h, Parent[b])
  <2>1. b \in Agents /\ Parent[b] \in Agents
    BY ParentKnown, GraphAssumption DEF Children
  <2>2. QED
    BY <1>1, <1>2, <2>1 DEF Near, Base
<1>5. Base(h)
  <2>1. ASSUME NEW b \in Agents PROVE h.parks[b] = Interactive /\ (h.at[b] = "none" <=> h.status[b] = "none")
    <3>1. g.parks[b] = Interactive /\ (g.at[b] = "none" <=> g.status[b] = "none")
      BY DEF Near, Base
    <3>2. QED
      BY <1>1, <3>1
  <2>2. h.status[Root] # "none"
    BY <1>1, RootKnown, GraphAssumption DEF Near, Base
  <2>3. QED
    BY <1>4, <2>1, <2>2 DEF Base
<1>6. ASSUME NEW b \in Agents \ X PROVE Local(h, e, b)
  <2>1. Local(g, e, b) /\ b \in Agents
    BY DEF Near
  <2>2. h.at[b] \in Sleeping => h.wake[b]
    BY <2>1 DEF Near, Base, Sleeping
  <2>3. ~Interactive => h.at[b] \notin {"check", "asleep", "dozing"}
          /\ (h.at[b] \in Done \cup {"none"} \/ h.status[b] \in Active \/ h.stopped[b]
                \/ (h.at[b] = "ended" /\ h.status[b] = "completed"))
    BY <1>1, <2>1 DEF Local
  <2>4. /\ h.recov[b] <= RecoveryLimit /\ h.idle[b] <= IdleLimit
        /\ h.recov[b] = RecoveryLimit =>
             /\ h.at[b] \in Parked \cup Done
             /\ h.kind[b] # "agents" \/ h.status[b] \in Errors \cup {"stopped"}
        /\ h.at[b] = "dozing" => h.idle[b] < IdleLimit
        /\ b = Root /\ e # "no" => h.at[b] \in Done
    BY <1>1, <2>1 DEF Local
  <2>5. /\ b # Root /\ h.status[b] \in Errors /\ ~h.bstop => h.told[b]
        /\ h.status[b] = "stopped" /\ ~h.stopped[b] =>
             \/ h.at[b] \in {"check", "gone"}
             \/ h.at[b] \in Done /\ (~Interactive \/ e = "over")
        /\ Interactive /\ e = "no" /\ h.status[b] \in Errors => h.gate[b] /\ h.at[b] \in Parked
    BY <1>1, <2>1 DEF Local
  <2>6. QED
    BY <2>2, <2>3, <2>4, <2>5 DEF Local
<1>7. QED
  BY <1>3, <1>5, <1>6 DEF Near

\* A pause holds an agent at work, and leaves it otherwise as it was.
Held(g, h, a) ==
  /\ h.at[a] = g.at[a] /\ h.kind[a] = g.kind[a] /\ h.gate[a] = g.gate[a] /\ h.told[a] = g.told[a]
  /\ h.stopped[a] = g.stopped[a] /\ h.recov[a] = g.recov[a] /\ h.idle[a] = g.idle[a]
  /\ h.status[a] = g.status[a] \/ (g.status[a] \in Active /\ h.status[a] = "budget_paused")

\* The pause for the budget, which may hold its agent.
LEMMA PauseStep ==
  ASSUME NEW g, NEW e, e # "over", NEW X, Near(g, e, X), Interactive, NEW a \in Agents, NEW i \in Flags
  PROVE  /\ Near(PauseForBudget(g, a, i), e, X) /\ Steady(g, PauseForBudget(g, a, i))
         /\ Held(g, PauseForBudget(g, a, i), a)
<1> DEFINE h == PauseForBudget(g, a, i)
<1>1. CASE g.status[a] \in {"none", "stopped"} \/ g.bstop \/ g.closing
  <2>1. h = g
    BY <1>1 DEF PauseForBudget
  <2>2. QED
    BY <2>1, SteadyItself DEF Held
<1>2. CASE ~(g.status[a] \in {"none", "stopped"} \/ g.bstop \/ g.closing)
  <2>1. Typed(g)
    BY DEF Near, Sound
  <2>2. Sound(h)
    BY PauseCalm, CalmSound DEF Near
  <2> DEFINE k == [g EXCEPT !.paused = TRUE,
                           !.status[a] = IF @ = "running" \/ (i /\ @ = "waiting") THEN "budget_paused" ELSE @]
  <2>3. /\ Keeps(g, h, {"status", "wake", "paused"})
        /\ h.wake = [b \in Agents |-> h.status[b] # "none"]
        /\ \A b \in Agents : \/ h.status[b] = g.status[b]
                             \/ g.status[b] \in Active /\ h.status[b] = "budget_paused"
    <3>1. h = WakeAll(k)
      BY <1>2 DEF PauseForBudget
    <3>2. /\ Keeps(g, k, {"status", "paused"})
          /\ \A b \in Agents : \/ k.status[b] = g.status[b]
                               \/ g.status[b] \in Active /\ k.status[b] = "budget_paused"
      BY <2>1 DEF Typed, Fields, Keeps, Active
    <3> HIDE DEF k, h
    <3>3. /\ Keeps(k, h, {"wake"}) /\ h.wake = [b \in Agents |-> k.status[b] # "none"]
      BY <3>1, <3>2 DEF WakeAll, Keeps, Fields
    <3>4. h.status = k.status /\ Keeps(g, h, {"status", "wake", "paused"})
      BY <3>2, <3>3 DEF Keeps, Fields
    <3>5. QED
      BY <3>2, <3>3, <3>4
  <2> HIDE DEF h
  <2>4. /\ h.at = g.at /\ h.kind = g.kind /\ h.gate = g.gate /\ h.told = g.told /\ h.stopped = g.stopped
        /\ h.parks = g.parks /\ h.recov = g.recov /\ h.idle = g.idle /\ h.notices = g.notices
        /\ h.bstop = g.bstop /\ h.rstop = g.rstop
    BY <2>3 DEF Keeps, Fields
  <2>6. ASSUME NEW b \in Agents PROVE h.wake[b] = (g.status[b] # "none")
    <3>1. (h.status[b] # "none") = (g.status[b] # "none")
      BY <2>3 DEF Active
    <3>2. h.wake[b] = (h.status[b] # "none")
      BY <2>3
    <3>3. QED
      BY <3>1, <3>2
  <2>7. Near(h, e, X) /\ Steady(g, h)
    BY <2>2, <2>3, <2>4, <2>6, AllStep
  <2>8. Held(g, h, a)
    BY <2>3, <2>4 DEF Held
  <2>9. QED
    BY <2>7, <2>8 DEF h
<1>3. QED
  BY <1>1, <1>2

\* The same for the stops of a headless scan, which change no agent.
Untouched(g, h) ==
  /\ h.status = g.status /\ h.at = g.at /\ h.stopped = g.stopped /\ h.kind = g.kind /\ h.gate = g.gate
  /\ h.told = g.told /\ h.recov = g.recov /\ h.idle = g.idle
Reserved(g) == WakeAll([g EXCEPT !.rstop = TRUE])

\* The stop for the budget, of everybody or of the children.
LEMMA BudgetStopStep ==
  ASSUME NEW g, NEW e, e # "over", NEW X, Near(g, e, X), ~Interactive,
         NEW h, h = TriggerBudgetStop(g) \/ h = Reserved(g)
  PROVE  Near(h, e, X) /\ Steady(g, h) /\ Untouched(g, h)
<1>1. Typed(g)
  BY DEF Near, Sound
<1>2. Sound(h)
  BY BudgetStopCalm, ReserveCalm, CalmSound DEF Near, Reserved
<1>3. /\ DOMAIN h = Fields
      /\ h.status = g.status /\ h.at = g.at /\ h.kind = g.kind /\ h.gate = g.gate /\ h.told = g.told
      /\ h.stopped = g.stopped /\ h.parks = g.parks /\ h.recov = g.recov /\ h.idle = g.idle
      /\ h.notices = g.notices /\ h.wake = [b \in Agents |-> g.status[b] # "none"]
      /\ (g.bstop => h.bstop) /\ (g.rstop => h.rstop)
  <2>1. CASE h = TriggerBudgetStop(g)
    <3>1. Keeps(g, h, {"wake", "bstop"}) /\ h.wake = [b \in Agents |-> g.status[b] # "none"]
          /\ h.bstop = TRUE
      BY <1>1, <2>1, BudgetStopEffect
    <3>2. QED
      BY <3>1 DEF Keeps, Fields
  <2>2. CASE h = Reserved(g)
    <3>1. Keeps(g, h, {"wake", "rstop"}) /\ h.wake = [b \in Agents |-> g.status[b] # "none"]
          /\ h.rstop = TRUE
      BY <1>1, <2>2, ReserveEffect DEF Reserved
    <3>2. QED
      BY <3>1 DEF Keeps, Fields
  <2>3. QED
    BY <2>1, <2>2
<1>4. ASSUME NEW b \in Agents PROVE h.wake[b] = (g.status[b] # "none")
  BY <1>3
<1>5. Near(h, e, X) /\ Steady(g, h)
  BY <1>2, <1>3, <1>4, AllStep
<1>6. QED
  BY <1>3, <1>5 DEF Untouched

\* The operator's resume.
LEMMA ResumeStep ==
  ASSUME NEW g, NEW e, e # "over", Near(g, e, {}), Interactive
  PROVE  Near(ResumeAll(g), e, {}) /\ Steady(g, ResumeAll(g))
<1> DEFINE held == {b \in Agents : g.status[b] = "budget_paused"}
           k == [g EXCEPT !.paused = FALSE,
                          !.status = [b \in Agents |-> IF b \in held THEN "waiting" ELSE @[b]],
                          !.mail = [b \in Agents |-> @[b] \/ b \in held],
                          !.pend = [b \in Agents |-> @[b] \/ b \in held]]
           h == WakeAll(k)
<1>1. Typed(g) /\ Sound(g)
  BY DEF Near, Sound
<1>2. ResumeAll(g) = h
  BY DEF ResumeAll
<1>3. Sound(h)
  BY <1>1, <1>2, ResumeSound
<1>4. /\ Keeps(g, k, {"paused", "status", "mail", "pend"})
      /\ k.status = [b \in Agents |-> IF b \in held THEN "waiting" ELSE g.status[b]]
  BY <1>1 DEF Typed, Fields, Keeps
<1>5. /\ Keeps(g, h, {"paused", "status", "mail", "pend", "wake"})
      /\ h.status = [b \in Agents |-> IF b \in held THEN "waiting" ELSE g.status[b]]
      /\ h.wake = [b \in Agents |-> h.status[b] # "none"]
  <2> HIDE DEF k, held
  <2>1. /\ Keeps(k, h, {"wake"}) /\ h.wake = [b \in Agents |-> k.status[b] # "none"]
    BY <1>4 DEF WakeAll, Keeps, Fields
  <2> HIDE DEF h
  <2>2. QED
    BY <1>4, <2>1 DEF Keeps, Fields
<1> HIDE DEF h, k
<1>6. /\ h.at = g.at /\ h.kind = g.kind /\ h.gate = g.gate /\ h.told = g.told /\ h.stopped = g.stopped
      /\ h.parks = g.parks /\ h.recov = g.recov /\ h.idle = g.idle /\ h.notices = g.notices
      /\ h.bstop = g.bstop /\ h.rstop = g.rstop
  BY <1>5 DEF Keeps, Fields
<1>7. ASSUME NEW b \in Agents
      PROVE  /\ h.status[b] = g.status[b] \/ (g.status[b] = "budget_paused" /\ h.status[b] = "waiting")
             /\ h.wake[b] = (g.status[b] # "none")
  BY <1>5 DEF held
<1>8. Near(h, e, {}) /\ Steady(g, h)
  BY <1>3, <1>6, <1>7, AllStep
<1>9. QED
  BY <1>2, <1>8

-----------------------------------------------------------------------------
(* Messages leave everybody in place, and nobody but the reader changes. *)

\* The task of an agent stays where it is.
Stays(g, h, a) == h.at[a] = g.at[a]

\* A message that is accepted.
LEMMA DeliverStep ==
  ASSUME NEW g, NEW e, e # "over", NEW X, Near(g, e, X), NEW to \in Agents, NEW user \in Flags,
         user => Interactive, Accepts(g, to, user)
  PROVE  /\ Near(Deliver(g, to, user), e, X) /\ Steady(g, Deliver(g, to, user))
         /\ Apart(g, Deliver(g, to, user), to) /\ Stays(g, Deliver(g, to, user), to)
         /\ Deliver(g, to, user).status[to] # "stopped"
<1> DEFINE h == Deliver(g, to, user)
<1>1. Sound(g) /\ Typed(g) /\ user \in BOOLEAN
  BY DEF Near, Sound, Flags
<1>2. g.status[to] # "none" /\ ~Unreachable(g, to) /\ g.status[to] # "stopped"
  BY DEF Accepts, Unreachable
<1>3. Sound(h)
  BY <1>1, <1>2, DeliverCalm, CalmSound
<1>4. /\ Apart(g, h, to) /\ h.status[to] = Received(g, to, user) /\ h.pend[to] = TRUE
      /\ h.wake[to] = (g.wake[to] \/ ~g.paused) /\ h.gate[to] = (g.gate[to] /\ ~user)
      /\ h.told[to] = (g.told[to] /\ ~user)
      /\ h.kind[to] = (IF user THEN "none" ELSE g.kind[to])
      /\ h.recov[to] = (IF user THEN 0 ELSE g.recov[to]) /\ h.idle[to] = (IF user THEN 0 ELSE g.idle[to])
      /\ h.notices[to] = (IF user THEN 0 ELSE g.notices[to])
      /\ h.at[to] = g.at[to] /\ h.stopped[to] = g.stopped[to] /\ h.parks[to] = g.parks[to]
  <2>1. /\ Keeps(g, h, {"status", "pend", "wake", "gate", "told", "kind", "recov", "idle", "notices", "mail"})
        /\ h.status = [g.status EXCEPT ![to] = Received(g, to, user)]
        /\ h.pend = [g.pend EXCEPT ![to] = TRUE]
        /\ h.wake = [g.wake EXCEPT ![to] = @ \/ ~g.paused]
        /\ h.gate = [g.gate EXCEPT ![to] = @ /\ ~user]
        /\ h.told = [g.told EXCEPT ![to] = @ /\ ~user]
        /\ h.kind = [g.kind EXCEPT ![to] = IF user THEN "none" ELSE @]
        /\ h.recov = [g.recov EXCEPT ![to] = IF user THEN 0 ELSE @]
        /\ h.idle = [g.idle EXCEPT ![to] = IF user THEN 0 ELSE @]
        /\ h.notices = [g.notices EXCEPT ![to] = IF user THEN 0 ELSE @]
    BY <1>1 DEF Deliver, Flags, Typed, Fields, Keeps
  <2> HIDE DEF h
  <2>2. /\ h.at = g.at /\ h.stopped = g.stopped /\ h.parks = g.parks /\ h.paused = g.paused
        /\ h.bstop = g.bstop /\ h.rstop = g.rstop
    BY <2>1 DEF Keeps, Fields
  <2>3. Apart(g, h, to)
    BY <1>1, <2>1, <2>2 DEF Apart, Scan, Same, Typed
  <2>4. /\ h.status[to] = (Received(g, to, user))
        /\ h.pend[to] = (TRUE)
        /\ h.wake[to] = (g.wake[to] \/ ~g.paused)
        /\ h.gate[to] = (g.gate[to] /\ ~user)
        /\ h.told[to] = (g.told[to] /\ ~user)
        /\ h.kind[to] = (IF user THEN "none" ELSE g.kind[to])
        /\ h.recov[to] = (IF user THEN 0 ELSE g.recov[to])
        /\ h.idle[to] = (IF user THEN 0 ELSE g.idle[to])
        /\ h.notices[to] = (IF user THEN 0 ELSE g.notices[to])
    BY <1>1, <2>1 DEF Typed
  <2>5. QED
    BY <2>2, <2>3, <2>4
<1> HIDE DEF h
<1>5. /\ g.parks[to] = Interactive /\ (g.at[to] = "none" <=> g.status[to] = "none")
      /\ g.paused => Interactive
  BY DEF Near, Base, Sound
<1>6. /\ h.status[to] \notin {"none", "stopped"}
      /\ ~Interactive => h.status[to] = g.status[to]
      /\ user => h.status[to] \notin Errors
      /\ h.status[to] \in Errors => h.status[to] = g.status[to]
  BY <1>1, <1>2, <1>4, <1>5 DEF Received, Unreachable, Errors, Active
<1>7. /\ h.told[to] => g.told[to] /\ ~user
      /\ ~user => h.notices[to] = g.notices[to] /\ h.told[to] = g.told[to] /\ h.gate[to] = g.gate[to]
                  /\ h.recov[to] = g.recov[to] /\ h.idle[to] = g.idle[to] /\ h.kind[to] = g.kind[to]
      /\ user => h.recov[to] = 0 /\ h.idle[to] = 0 /\ h.kind[to] = "none"
  <2>1. g.told[to] \in BOOLEAN /\ g.gate[to] \in BOOLEAN
    BY <1>1 DEF Typed
  <2>2. QED
    BY <1>1, <1>4, <2>1
<1>8. ASSUME to \notin X PROVE Local(h, e, to)
  <2>1. Local(g, e, to)
    BY <1>8 DEF Near
  <2>2. Scan(g, h)
    BY <1>4 DEF Apart
  <2>3. h.at[to] \in Sleeping /\ Ready(h, to) => h.wake[to]
    <3>1. CASE g.paused
      <4>1. Ready(h, to) => Ready(g, to)
        BY <2>2, <1>6, <3>1 DEF Ready, Scan
      <4>2. g.wake[to] => h.wake[to]
        BY <1>4
      <4>3. QED
        BY <1>4, <2>1, <4>1, <4>2 DEF Local
    <3>2. CASE ~g.paused
      BY <1>4, <3>2
    <3>3. QED
      BY <3>1, <3>2
  <2>4. to # Root /\ h.status[to] \in Errors /\ ~h.bstop => h.told[to]
    BY <1>6, <1>7, <2>1, <2>2 DEF Local, Scan
  <2>5. Interactive /\ e = "no" /\ h.status[to] \in Errors => h.gate[to] /\ h.at[to] \in Parked
    BY <1>4, <1>6, <1>7, <2>1 DEF Local
  <2>6. ~Interactive =>
          /\ h.at[to] \notin {"check", "asleep", "dozing"}
          /\ h.at[to] \in Done \cup {"none"} \/ h.status[to] \in Active \/ h.stopped[to]
               \/ (h.at[to] = "ended" /\ h.status[to] = "completed")
    BY <1>4, <1>6, <2>1 DEF Local
  <2>7. /\ h.recov[to] <= RecoveryLimit /\ h.idle[to] <= IdleLimit
        /\ h.recov[to] = RecoveryLimit =>
             /\ h.at[to] \in Parked \cup Done
             /\ h.kind[to] # "agents" \/ h.status[to] \in Errors \cup {"stopped"}
        /\ h.at[to] = "dozing" => h.idle[to] < IdleLimit
    <3>1. RecoveryLimit \in Nat \ {0} /\ IdleLimit \in Nat \ {0}
      BY GraphAssumption
    <3>2. CASE user
      BY <1>7, <3>1, <3>2
    <3>3. CASE ~user
      <4>1. g.status[to] \in Errors => h.status[to] = g.status[to]
        BY <1>4, <3>3 DEF Received, Errors, Active
      <4>2. QED
        BY <1>2, <1>4, <1>7, <2>1, <3>3, <4>1 DEF Local
    <3>4. QED
      BY <1>1, <3>2, <3>3
  <2>8. to = Root /\ e # "no" => h.at[to] \in Done
    BY <1>4, <2>1 DEF Local
  <2>9. QED
    BY <1>6, <2>3, <2>4, <2>5, <2>6, <2>7, <2>8 DEF Local
<1>9. h.status[to] # "none" /\ to # Root => g.status[Parent[to]] # "none"
  BY <1>2 DEF Near, Base, Children
<1>10. h.told[to] /\ to # Root => h.notices[to] > 0 \/ Unreachable(g, Parent[to])
  BY <1>7 DEF Near, Base, Children
<1>11. Near(h, e, X) /\ Steady(g, h)
  <2>1. /\ h.parks[to] = g.parks[to] /\ (h.at[to] = "none" <=> h.status[to] = "none")
        /\ (g.status[to] # "none" => h.status[to] # "none")
        /\ (Unreachable(g, to) => Unreachable(h, to))
        /\ (Interactive /\ g.status[to] = "stopped" => h.status[to] = "stopped")
        /\ (~Interactive /\ h.status[to] \in Active => g.status[to] \in Active)
        /\ (h.at[to] = "finishing" => g.at[to] = "finishing")
    BY <1>2, <1>4, <1>5, <1>6
  <2>2. QED
    BY <1>3, <1>4, <1>8, <1>9, <1>10, <2>1, OneStep
<1>12. QED
  BY <1>4, <1>6, <1>11 DEF h, Stays

\* The agent whose step it is comes back to its place.
LEMMA Back ==
  ASSUME NEW g, NEW e, NEW a, Near(g, e, {a}), a \in Agents => Local(g, e, a)
  PROVE  Near(g, e, {})
BY DEF Near

\* A task moves to another point.
LEMMA PutStep ==
  ASSUME NEW g, NEW e, NEW X, Near(g, e, X), NEW a \in Agents, NEW p \in Points, p # "none",
         g.status[a] # "none", g.at[a] = "gone" => p = "gone" \/ a = Root, p = "finishing" => g.at[a] = "finishing",
         a \notin X => Local(At(g, a, p), e, a)
  PROVE  Near(At(g, a, p), e, X) /\ Steady(g, At(g, a, p))
<1> DEFINE h == At(g, a, p)
<1>1. Sound(g)
  BY DEF Near
<1>2. Sound(h)
  BY <1>1, AtCalm, CalmSound
<1>3. /\ Apart(g, h, a) /\ h.at[a] = p /\ h.status[a] = g.status[a] /\ h.told[a] = g.told[a]
      /\ h.parks[a] = g.parks[a] /\ h.notices[a] = g.notices[a]
  BY <1>1, AtPuts DEF Puts
<1>4. a \notin X => Local(h, e, a)
  OBVIOUS
<1> HIDE DEF h
<1>5. h.status[a] # "none" /\ a # Root => g.status[Parent[a]] # "none"
  BY <1>3 DEF Near, Base, Children
<1>6. h.told[a] /\ a # Root => h.notices[a] > 0 \/ Unreachable(g, Parent[a])
  BY <1>3 DEF Near, Base, Children
<1>7. Unreachable(g, a) => Unreachable(h, a)
  BY <1>3 DEF Unreachable
<1>8. Near(h, e, X) /\ Steady(g, h)
  BY <1>2, <1>3, <1>4, <1>5, <1>6, <1>7, OneStep
<1>9. QED
  BY <1>8 DEF h

\* A message, refused or delivered, changes its target alone.
LEMMA SendStep ==
  ASSUME NEW g, NEW e, e # "over", NEW X, Near(g, e, X), NEW to \in Agents, NEW user \in Flags,
         user => Interactive
  PROVE  LET h == Send(g, to, user) IN Near(h, e, X) /\ Steady(g, h) /\ Apart(g, h, to)
<1> DEFINE h == Send(g, to, user)
<1>1. CASE Accepts(g, to, user)
  BY <1>1, DeliverStep DEF Send
<1>2. CASE ~Accepts(g, to, user)
  <2>1. h = g
    BY <1>2 DEF Send
  <2>2. QED
    BY <2>1, SteadyItself DEF Apart, Same, Scan
<1>3. QED
  BY <1>1, <1>2

\* Apart is transitive.
LEMMA ApartTwice ==
  ASSUME NEW g, NEW h, NEW k, NEW a, Apart(g, h, a), Apart(h, k, a)
  PROVE  Apart(g, k, a)
BY DEF Apart, Same, Scan

\* So does one that interrupts its target.
LEMMA SendNowStep ==
  ASSUME NEW g, NEW e, e # "over", NEW X, Near(g, e, X), NEW to \in Agents, NEW user \in Flags,
         user => Interactive
  PROVE  LET h == SendNow(g, to, user) IN Near(h, e, X) /\ Steady(g, h) /\ Apart(g, h, to)
<1> DEFINE h == SendNow(g, to, user)
           k == Deliver(g, to, user)
<1>1. CASE Interactive /\ ~g.paused /\ g.at[to] \in Streaming /\ Accepts(g, to, user)
  <2>1. h = At(k, to, "ended")
    BY <1>1 DEF SendNow, At
  <2>2. /\ Near(k, e, X) /\ Steady(g, k) /\ Apart(g, k, to) /\ k.at[to] = g.at[to]
        /\ k.status[to] # "stopped"
    <3>1. Accepts(g, to, user)
      BY <1>1
    <3>2. Near(k, e, X) /\ Steady(g, k)
      BY <3>1, DeliverStep
    <3>3. Apart(g, k, to)
      BY <3>1, DeliverStep
    <3>4. Stays(g, k, to)
      BY <3>1, DeliverStep
    <3>5. k.status[to] # "stopped"
      BY <3>1, DeliverStep
    <3>6. QED
      BY <3>2, <3>3, <3>4, <3>5 DEF Stays
  <2>3. "ended" \in Points /\ k.at[to] \notin {"none", "gone"} /\ k.at[to] \notin Parked \cup Done \cup Sleeping
    BY <1>1, <2>2 DEF Points, Streaming, Parked, Done, Sleeping
  <2> HIDE DEF k
  <2>4. k.status[to] # "none"
    BY <2>2, <2>3 DEF Near, Base
  <2>5. /\ Sound(k)
    BY <2>2 DEF Near
  <2>6. LET m == At(k, to, "ended") IN
        /\ Apart(k, m, to) /\ m.at[to] = "ended"
        /\ m.status[to] = k.status[to] /\ m.kind[to] = k.kind[to] /\ m.gate[to] = k.gate[to]
        /\ m.told[to] = k.told[to] /\ m.stopped[to] = k.stopped[to] /\ m.recov[to] = k.recov[to]
        /\ m.idle[to] = k.idle[to]
    BY <2>3, <2>5, AtPuts DEF Puts
  <2> DEFINE m == At(k, to, "ended")
  <2>7. to \notin X => Local(m, e, to)
    <3>1. SUFFICES ASSUME to \notin X PROVE Local(m, e, to)
      OBVIOUS
    <3>2. Local(k, e, to)
      BY <2>2, <3>1 DEF Near
    <3> HIDE DEF m
    <3>3. QED
      BY <1>1, <2>2, <2>3, <2>6, <3>2 DEF Local, Sleeping, Parked, Done, Apart, Scan, m
  <2>8. Near(m, e, X) /\ Steady(k, m)
    BY <2>2, <2>3, <2>4, <2>7, PutStep
  <2> HIDE DEF m
  <2>9. Apart(k, m, to)
    BY <2>6 DEF m
  <2>10. h = m
    BY <2>1 DEF m
  <2>11. QED
    BY <2>2, <2>8, <2>9, <2>10, SteadyTwice, ApartTwice
<1>2. CASE ~(Interactive /\ ~g.paused /\ g.at[to] \in Streaming /\ Accepts(g, to, user))
  BY <1>2, SendStep DEF SendNow
<1>3. QED
  BY <1>1, <1>2

\* Both, from an agent.
LEMMA PeerStep ==
  ASSUME NEW g, NEW e, e # "over", NEW X, Near(g, e, X), NEW to \in Agents,
         NEW h, h = Send(g, to, FALSE) \/ h = SendNow(g, to, FALSE)
  PROVE  Near(h, e, X) /\ Steady(g, h) /\ Apart(g, h, to)
<1>1. FALSE \in Flags /\ (FALSE => Interactive)
  BY DEF Flags
<1>2. LET k == Send(g, to, FALSE) IN Near(k, e, X) /\ Steady(g, k) /\ Apart(g, k, to)
  BY <1>1, SendStep
<1>3. LET k == SendNow(g, to, FALSE) IN Near(k, e, X) /\ Steady(g, k) /\ Apart(g, k, to)
  BY <1>1, SendNowStep
<1>4. QED
  BY <1>2, <1>3

-----------------------------------------------------------------------------
(* Notices and stops. *)

\* All of an agent but what its parent knows.
Alike(g, h, a) ==
  /\ h.status[a] = g.status[a] /\ h.at[a] = g.at[a] /\ h.kind[a] = g.kind[a] /\ h.gate[a] = g.gate[a]
  /\ h.wake[a] = g.wake[a] /\ h.pend[a] = g.pend[a] /\ h.stopped[a] = g.stopped[a] /\ h.parks[a] = g.parks[a]
  /\ h.recov[a] = g.recov[a] /\ h.idle[a] = g.idle[a]

\* Alike is transitive.
LEMMA AlikeTwice ==
  ASSUME NEW g, NEW h, NEW k, NEW a, Alike(g, h, a), Alike(h, k, a)
  PROVE  Alike(g, k, a)
BY DEF Alike

\* What its parent received, and the claim of it.
SameNotices(g, h, a) == h.notices[a] = g.notices[a]
SameTold(g, h, a) == h.told[a] = g.told[a]

\* A claim and a notice change nothing else of the agent that gives it.
LEMMA TellAlike ==
  ASSUME NEW g, Sound(g), NEW a \in Agents
  PROVE  Apart(g, Tell(g, a), a) /\ Alike(g, Tell(g, a), a) /\ Tell(g, a).told[a] /\ SameNotices(g, Tell(g, a), a)
BY ToldFields DEF Alike, SameNotices

\* The notice has reached the parent, if it can.
More(g, h, a) ==
  h.notices[a] = (IF Accepts(g, Parent[a], FALSE) /\ g.notices[a] < 2 THEN g.notices[a] + 1 ELSE g.notices[a])

LEMMA CountedAlike ==
  ASSUME NEW g, Sound(g), NEW a \in Agents
  PROVE  /\ Apart(g, Counted(g, a), a) /\ Alike(g, Counted(g, a), a)
         /\ SameTold(g, Counted(g, a), a) /\ More(g, Counted(g, a), a)
BY CountedFields DEF Alike, SameTold, More

\* No agent is its own parent.
LEMMA ParentOther ==
  ASSUME NEW a \in Children
  PROVE  Parent[a] \in Agents /\ Parent[a] # a
<1>1. a \in Agents /\ a # Root
  BY DEF Children
<1>2. PICK i \in 1..Len(Line) : a = Line[i]
  BY <1>1, GraphAssumption
<1>3. i \in 2..Len(Line)
  BY <1>1, <1>2, LineLength, GraphAssumption DEF Root
<1>4. PICK j \in 1..(i - 1) : Parent[Line[i]] = Line[j]
  BY <1>3, GraphAssumption
<1>5. j \in 1..Len(Line) /\ j # i
  <2>1. Len(Line) \in Nat
    BY LineLength, GraphAssumption
  <2>2. QED
    BY <1>3, <1>4, <2>1
<1>6. QED
  BY <1>1, <1>2, <1>4, <1>5, ParentKnown, LineAssumption, GraphAssumption

\* The notice is counted, and claimed or not.
LEMMA CountStep ==
  ASSUME NEW g, NEW e, e # "over", NEW X, Near(g, e, X), NEW a \in Children, g.status[a] # "none",
         NEW c, c = g \/ c = Tell(g, a)
  PROVE  LET h == Counted(c, a) IN
         /\ Near(h, e, X) /\ Steady(g, h) /\ Apart(g, h, a) /\ Alike(g, h, a) /\ SameTold(c, h, a)
<1> DEFINE h == Counted(c, a)
           P == Parent[a]
<1>1. a \in Agents /\ a # Root /\ P \in Agents /\ P # a
  BY ParentOther DEF Children
<1>2. Sound(g) /\ Typed(g)
  BY DEF Near, Sound
<1>3. /\ Sound(c) /\ Apart(g, c, a) /\ Alike(g, c, a) /\ c.notices[a] = g.notices[a]
      /\ (g.told[a] => c.told[a])
  <2>1. CASE c = g
    BY <1>2, <2>1 DEF Apart, Same, Scan, Alike
  <2>2. CASE c = Tell(g, a)
    <3>1. Sound(Tell(g, a))
      BY <1>1, <1>2, ToldCalm, CalmSound DEF Tell
    <3>2. Apart(g, c, a) /\ Alike(g, c, a) /\ c.told[a] /\ SameNotices(g, c, a)
      BY <1>1, <1>2, <2>2, TellAlike
    <3>3. QED
      BY <2>2, <3>1, <3>2 DEF SameNotices
  <2>3. QED
    BY <2>1, <2>2
<1>4. Typed(c)
  BY <1>3 DEF Sound
<1>5. Sound(h)
  BY <1>1, <1>3, CountedCalm, CalmSound
<1>6. /\ Apart(c, h, a) /\ Alike(c, h, a) /\ h.told[a] = c.told[a]
      /\ h.notices[a] = (IF Accepts(c, P, FALSE) /\ c.notices[a] < 2 THEN c.notices[a] + 1 ELSE c.notices[a])
  <2>1. Apart(c, h, a) /\ Alike(c, h, a) /\ SameTold(c, h, a) /\ More(c, h, a)
    BY <1>1, <1>3, CountedAlike
  <2>2. QED
    BY <2>1 DEF SameTold, More
<1>7. Accepts(c, P, FALSE) \/ Unreachable(g, P)
  <2>1. g.status[P] # "none"
    BY <1>1 DEF Near, Base
  <2>2. Same(g, c, P)
    BY <1>1, <1>3 DEF Apart
  <2>3. c.status[P] # "none" /\ (Unreachable(c, P) => Unreachable(g, P))
    BY <2>1, <2>2 DEF Same, Unreachable
  <2>4. QED
    BY <2>3 DEF Accepts
<1>8. h.told[a] => h.notices[a] > 0 \/ Unreachable(g, P)
  <2>1. c.notices[a] \in 0..2
    BY <1>1, <1>4 DEF Typed
  <2> HIDE DEF h
  <2>2. Accepts(c, P, FALSE) => h.notices[a] > 0
    BY <1>6, <2>1
  <2>3. QED
    BY <1>7, <2>2
<1> HIDE DEF h
<1>9. Apart(g, h, a) /\ Alike(g, h, a)
  BY <1>3, <1>6, ApartTwice, AlikeTwice
<1>10. h.told[a] = c.told[a] /\ (g.told[a] => h.told[a])
  BY <1>3, <1>6
<1>11. ASSUME a \notin X PROVE Local(h, e, a)
  <2>1. Local(g, e, a)
    BY <1>1, <1>11 DEF Near
  <2>2. Scan(g, h)
    BY <1>9 DEF Apart
  <2>3. QED
    BY <1>9, <1>10, <2>1, <2>2 DEF Local, Alike, Ready, Scan
<1>12. /\ h.parks[a] = g.parks[a] /\ h.at[a] = g.at[a] /\ h.status[a] = g.status[a]
       /\ (Unreachable(g, a) => Unreachable(h, a))
  BY <1>9 DEF Alike, Unreachable
<1>13. g.at[a] # "none" /\ g.status[P] # "none"
  BY <1>1 DEF Near, Base
<1>14. Near(h, e, X) /\ Steady(g, h)
  BY <1>1, <1>5, <1>8, <1>9, <1>11, <1>12, <1>13, OneStep
<1>15. QED
  BY <1>9, <1>10, <1>14 DEF h, SameTold

\* A change of another agent leaves this one alike.
LEMMA SameAlike ==
  ASSUME NEW g, NEW h, NEW k, NEW a, NEW b, Alike(g, h, a), Apart(h, k, b), a # b, a \in Agents
  PROVE  Alike(g, k, a) /\ k.told[a] = h.told[a]
BY DEF Apart, Same, Alike

\* What a child tells its parent: its end, a stall, a stop, its report.
LEMMA NoticeStep ==
  ASSUME NEW g, NEW e, e # "over", NEW X, Near(g, e, X), NEW a \in Agents, g.status[a] # "none",
         NEW h, \/ h = NotifyTerminal(g, a) \/ h = NotifyStall(g, a) \/ h = NotifyStop(g, a)
                \/ a # Root /\ h = Report(g, a)
  PROVE  /\ Near(h, e, X) /\ Steady(g, h) /\ Alike(g, h, a) /\ (g.told[a] => h.told[a])
         /\ h = NotifyTerminal(g, a) => h.told[a] \/ a = Root \/ h.bstop
<1> DEFINE P == Parent[a]
           c == Tell(g, a)
<1>1. CASE h = g
  <2>1. Near(h, e, X) /\ Steady(g, h) /\ Alike(g, h, a) /\ (g.told[a] => h.told[a])
    BY <1>1, SteadyItself DEF Alike
  <2>2. ASSUME h = NotifyTerminal(g, a), a # Root, ~g.bstop, ~g.told[a] PROVE FALSE
    <3>1. a \in Children /\ P \in Agents /\ P # a
      BY <2>2, ParentOther DEF Children
    <3>2. LET k == Counted(c, a) IN Near(k, e, X) /\ SameTold(c, k, a)
      BY <3>1, CountStep
    <3>3. c.told[a]
      BY TellAlike DEF Near
    <3>4. h = Send(Counted(c, a), P, FALSE)
      BY <2>2 DEF NotifyTerminal, Tell
    <3> DEFINE k == Counted(c, a)
    <3>5. Near(k, e, X) /\ k.told[a]
      BY <3>2, <3>3 DEF SameTold
    <3>6. h = Send(k, P, FALSE)
      BY <3>4
    <3> HIDE DEF k
    <3>7. Apart(k, h, P)
      BY <3>1, <3>5, <3>6, PeerStep
    <3>8. QED
      BY <1>1, <2>2, <3>1, <3>5, <3>7 DEF Apart, Same
  <2>3. QED
    BY <1>1, <2>1, <2>2
<1>2. ASSUME NEW k, k = g \/ k = Counted(g, a) \/ k = Counted(c, a), a # Root,
             h = Send(k, P, FALSE) \/ h = SendNow(k, P, FALSE)
      PROVE  /\ Near(h, e, X) /\ Steady(g, h) /\ Alike(g, h, a) /\ (g.told[a] => h.told[a])
             /\ k = Counted(c, a) => h.told[a]
  <2>1. a \in Children /\ P \in Agents /\ P # a
    BY <1>2, ParentOther DEF Children
  <2>2. c.told[a]
    BY TellAlike DEF Near
  <2> HIDE DEF c
  <2>3. /\ Near(k, e, X) /\ Steady(g, k) /\ Alike(g, k, a) /\ (g.told[a] => k.told[a])
        /\ k = Counted(c, a) => k.told[a]
    <3>1. LET m == Counted(c, a) IN Near(m, e, X) /\ Steady(g, m) /\ Alike(g, m, a) /\ SameTold(c, m, a)
      BY <2>1, CountStep DEF c
    <3>2. LET m == Counted(g, a) IN Near(m, e, X) /\ Steady(g, m) /\ Alike(g, m, a) /\ SameTold(g, m, a)
      BY <2>1, CountStep
    <3>3. CASE k = g /\ k # Counted(c, a)
      BY <3>3, SteadyItself DEF Alike
    <3>4. CASE k = Counted(g, a) /\ k # Counted(c, a)
      BY <3>2, <3>4 DEF SameTold
    <3>5. CASE k = Counted(c, a)
      BY <2>2, <3>1, <3>5 DEF SameTold
    <3>6. QED
      BY <1>2, <3>3, <3>4, <3>5
  <2>4. Near(h, e, X) /\ Steady(k, h) /\ Apart(k, h, P)
    BY <1>2, <2>1, <2>3, PeerStep
  <2>5. Alike(g, h, a) /\ h.told[a] = k.told[a]
    BY <2>1, <2>3, <2>4, SameAlike
  <2>6. QED
    BY <2>3, <2>4, <2>5, SteadyTwice
<1>3. CASE h = NotifyTerminal(g, a) /\ h # g
  <2>1. a # Root /\ h = Send(Counted(c, a), P, FALSE)
    BY <1>3 DEF NotifyTerminal, Tell
  <2> HIDE DEF c
  <2>2. QED
    BY <1>2, <2>1
<1>4. CASE h = NotifyStall(g, a) /\ h # g
  <2>1. a # Root /\ h = Send(g, P, FALSE)
    BY <1>4 DEF NotifyStall
  <2> HIDE DEF c
  <2>2. Near(h, e, X) /\ Steady(g, h) /\ Alike(g, h, a) /\ (g.told[a] => h.told[a])
    BY <1>2, <2>1
  <2>3. QED
    BY <1>3, <1>4, <2>2
<1>5. CASE h = NotifyStop(g, a) /\ h # g
  <2>1. a # Root /\ h = SendNow(Counted(g, a), P, FALSE)
    BY <1>5 DEF NotifyStop
  <2> HIDE DEF c
  <2>2. Near(h, e, X) /\ Steady(g, h) /\ Alike(g, h, a) /\ (g.told[a] => h.told[a])
    BY <1>2, <2>1
  <2>3. QED
    BY <1>3, <1>5, <2>2
<1>6. CASE a # Root /\ h = Report(g, a) /\ h # g
  <2>1. h = SendNow(Counted(c, a), P, FALSE)
    BY <1>6 DEF Report, Tell
  <2> HIDE DEF c
  <2>2. QED
    BY <1>2, <1>6, <2>1
<1>7. QED
  BY <1>1, <1>3, <1>4, <1>5, <1>6

-----------------------------------------------------------------------------
(* Stops, and the operations on the tree. *)

\* A stop that is asked for leaves everybody in place.
LEMMA StopStep ==
  ASSUME NEW g, NEW e, e # "over", NEW X, Near(g, e, X), NEW a \in Agents, g.status[a] # "none"
  PROVE  LET h == Halted(g, a) IN
         Near(h, e, X) /\ Steady(g, h) /\ h.status[a] # "none" /\ Apart(g, h, a) /\ Stays(g, h, a)
<1> DEFINE h == Halted(g, a)
<1>1. Sound(g)
  BY DEF Near
<1>2. Sound(h)
  BY <1>1, StopCalm, CalmSound DEF Halted
<1>3. /\ Apart(g, h, a) /\ h.stopped[a] /\ h.status[a] = "stopped" /\ h.wake[a]
      /\ h.at[a] = g.at[a] /\ h.kind[a] = g.kind[a] /\ h.told[a] = g.told[a]
      /\ h.parks[a] = g.parks[a] /\ h.recov[a] = g.recov[a] /\ h.idle[a] = g.idle[a] /\ h.notices[a] = g.notices[a]
  BY <1>1, StopFields
<1> HIDE DEF h
<1>4. a \notin X => Local(h, e, a)
  <2>1. SUFFICES ASSUME a \notin X PROVE Local(h, e, a)
    OBVIOUS
  <2>2. Local(g, e, a)
    BY <2>1 DEF Near
  <2>3. h.status[a] \notin Errors \cup Active
    BY <1>3 DEF Errors, Active
  <2>4. QED
    BY <1>3, <2>2, <2>3 DEF Local
<1>5. h.status[a] # "none" /\ a # Root => g.status[Parent[a]] # "none"
  BY DEF Near, Base, Children
<1>6. h.told[a] /\ a # Root => h.notices[a] > 0 \/ Unreachable(g, Parent[a])
  BY <1>3 DEF Near, Base, Children
<1>7. /\ Unreachable(h, a) /\ (h.at[a] = "none" <=> h.status[a] = "none")
      /\ ~(h.status[a] \in Active)
  BY <1>3 DEF Unreachable, Near, Base, Active
<1>8. Near(h, e, X) /\ Steady(g, h)
  BY <1>2, <1>3, <1>4, <1>5, <1>6, <1>7, OneStep
<1>9. QED
  BY <1>3, <1>8 DEF h, Stays

\* A wake-up leaves everybody in place, and so does whatever a stop comes to.
LEMMA WakeStep ==
  ASSUME NEW g, NEW e, NEW X, Near(g, e, X), NEW a \in Agents
  PROVE  LET h == Roused(g, a) IN Near(h, e, X) /\ Steady(g, h) /\ Apart(g, h, a) /\ Stays(g, h, a)
<1> DEFINE h == Roused(g, a)
<1>1. Sound(g)
  BY DEF Near
<1>2. Sound(h)
  BY <1>1, WakeCalm, CalmSound DEF Roused
<1>3. /\ Apart(g, h, a) /\ h.wake[a] /\ h.status[a] = g.status[a]
      /\ h.at[a] = g.at[a] /\ h.kind[a] = g.kind[a] /\ h.gate[a] = g.gate[a] /\ h.told[a] = g.told[a]
      /\ h.stopped[a] = g.stopped[a] /\ h.parks[a] = g.parks[a] /\ h.recov[a] = g.recov[a]
      /\ h.idle[a] = g.idle[a] /\ h.notices[a] = g.notices[a]
  BY <1>1, WakeFields
<1> HIDE DEF h
<1>4. a \notin X => Local(h, e, a)
  BY <1>3 DEF Near, Local, Apart, Scan
<1>5. h.status[a] # "none" /\ a # Root => g.status[Parent[a]] # "none"
  BY <1>3 DEF Near, Base, Children
<1>6. h.told[a] /\ a # Root => h.notices[a] > 0 \/ Unreachable(g, Parent[a])
  BY <1>3 DEF Near, Base, Children
<1>7. (Unreachable(g, a) => Unreachable(h, a)) /\ (h.at[a] = "none" <=> h.status[a] = "none")
  BY <1>3 DEF Unreachable, Near, Base
<1>8. Near(h, e, X) /\ Steady(g, h)
  BY <1>2, <1>3, <1>4, <1>5, <1>6, <1>7, OneStep
<1>9. QED
  BY <1>3, <1>8 DEF h, Stays

LEMMA RequestStopStep ==
  ASSUME NEW g, NEW e, e # "over", NEW X, Near(g, e, X), NEW a \in Agents, NEW preserve
  PROVE  /\ Near(RequestStop(g, a, preserve), e, X) /\ Steady(g, RequestStop(g, a, preserve))
         /\ Stays(g, RequestStop(g, a, preserve), a)
<1> DEFINE s == Halted(g, a)
           w == Roused(g, a)
<1>1. CASE g.status[a] = "none"
  <2>1. RequestStop(g, a, preserve) = g
    BY <1>1 DEF RequestStop
  <2>2. QED
    BY <2>1, SteadyItself DEF Stays
<1>2. CASE g.status[a] # "none"
  <2>1. RequestStop(g, a, preserve) = s \/ RequestStop(g, a, preserve) = w \/ RequestStop(g, a, preserve) = NotifyStop(s, a)
    BY <1>2 DEF RequestStop, Halted, Roused
  <2>2. Near(s, e, X) /\ Steady(g, s) /\ s.status[a] # "none" /\ Stays(g, s, a)
    BY <1>2, StopStep
  <2>3. Near(w, e, X) /\ Steady(g, w) /\ Stays(g, w, a)
    BY WakeStep
  <2> HIDE DEF s, w
  <2>4. LET n == NotifyStop(s, a) IN Near(n, e, X) /\ Steady(s, n) /\ Alike(s, n, a)
    BY <2>2, NoticeStep
  <2>5. LET n == NotifyStop(s, a) IN Near(n, e, X) /\ Steady(g, n) /\ Stays(g, n, a)
    BY <2>2, <2>4, SteadyTwice DEF Alike, Stays
  <2>6. QED
    BY <2>1, <2>2, <2>3, <2>5
<1>3. QED
  BY <1>1, <1>2

\* The notice of the wrap-up to one agent, hence a walk along Line, hence both operations
\* on a tree.
LEMMA SendWrapStep ==
  ASSUME NEW g, NEW e, e # "over", NEW X, Near(g, e, X), NEW a \in Agents
  PROVE  Near(SendWrap(g, a), e, X) /\ Steady(g, SendWrap(g, a))
BY PeerStep, SteadyItself DEF SendWrap

LEMMA WalkStep ==
  ASSUME NEW kind \in {"stop", "wrap"}, NEW x, NEW g, NEW e, e # "over", NEW X, Near(g, e, X),
         NEW s, Walk(kind, x, g, s)
  PROVE  Near(s[Len(Line)], e, X) /\ Steady(g, s[Len(Line)])
<1> DEFINE N == Len(Line)
           S == {k \in 0..N : Near(s[k], e, X) /\ Steady(g, s[k])}
<1>1. N \in Nat
  BY LineLength, GraphAssumption
<1>2. /\ s[0] = g
      /\ \A n \in 1..N : s[n] = Step(kind, x, s[n - 1], n)
  <2>1. \A n \in 0..N : s[n] = IF n = 0 THEN g ELSE Step(kind, x, s[n - 1], n)
    BY DEF Walk
  <2>2. 0 \in 0..N /\ \A n \in 1..N : n \in 0..N /\ n # 0
    BY <1>1
  <2>3. QED
    BY <2>1, <2>2
<1>3. 0 \in S
  BY <1>1, <1>2, SteadyItself
<1>4. ASSUME NEW k \in 1..N, k - 1 \in S PROVE k \in S
  <2>1. Near(s[k - 1], e, X) /\ Steady(g, s[k - 1])
    BY <1>4
  <2>2. k \in 1..N /\ N - k + 1 \in 1..N /\ k \in 0..N
    BY <1>1
  <2>3. Line[k] \in Agents /\ Line[N - k + 1] \in Agents
    BY <2>2, LineLength, GraphAssumption
  <2>4. LET h == Step(kind, x, s[k - 1], k) IN Near(h, e, X) /\ Steady(s[k - 1], h)
    <3>1. LET h == RequestStop(s[k - 1], Line[N - k + 1], FALSE) IN Near(h, e, X) /\ Steady(s[k - 1], h)
      BY <2>1, <2>3, RequestStopStep
    <3>2. LET h == SendWrap(s[k - 1], Line[k]) IN Near(h, e, X) /\ Steady(s[k - 1], h)
      BY <2>1, <2>3, SendWrapStep
    <3>3. QED
      BY <2>1, <3>1, <3>2, SteadyItself DEF Step
  <2>5. s[k] = Step(kind, x, s[k - 1], k)
    BY <1>2
  <2>6. Near(s[k], e, X) /\ Steady(g, s[k])
    BY <2>1, <2>4, <2>5, SteadyTwice
  <2>7. QED
    BY <2>2, <2>6
<1>5. S \in SUBSET (0..N) /\ N \in 0..N
  BY <1>1
<1> HIDE DEF S
<1>6. S = 0..N
  BY <1>1, <1>3, <1>4, <1>5, UpTo
<1>7. QED
  BY <1>5, <1>6 DEF S

LEMMA TreeStep ==
  ASSUME NEW g, NEW e, e # "over", NEW X, Near(g, e, X)
  PROVE  /\ \A b : Near(StopTree(g, b), e, X) /\ Steady(g, StopTree(g, b))
         /\ Near(WrapSent(g), e, X) /\ Steady(g, WrapSent(g))
<1>1. ASSUME NEW b PROVE Near(StopTree(g, b), e, X) /\ Steady(g, StopTree(g, b))
  <2>1. PICK s : Walk("stop", b, g, s) /\ StopTree(g, b) = s[Len(Line)]
    BY StopTreeWalks, GraphAssumption
  <2>2. "stop" \in {"stop", "wrap"}
    OBVIOUS
  <2>3. Near(s[Len(Line)], e, X) /\ Steady(g, s[Len(Line)])
    BY <2>1, <2>2, WalkStep
  <2>4. QED
    BY <2>1, <2>3
<1>2. Near(WrapSent(g), e, X) /\ Steady(g, WrapSent(g))
  <2>1. PICK s : Walk("wrap", {}, g, s) /\ WrapSent(g) = s[Len(Line)]
    BY WrapSentWalks, GraphAssumption
  <2>2. QED
    BY <2>1, WalkStep
<1>3. QED
  BY <1>1, <1>2

-----------------------------------------------------------------------------
(* A task's step, from the inside. *)

\* The points of a run.
Mids == {"enter", "draining", "nudging", "prep", "ready", "call", "act", "taking_user", "taking_agents", "took",
         "ended", "salvaging_failed", "salvaging_crashed", "salvaging_stopped"}

\* The step of a's task that began with g has come to h, or is over with h.
Amid(g, h, a) ==
  /\ Near(h, "no", {a}) /\ Steady(g, h)
  /\ h.status[a] # "none" /\ h.at[a] \notin Done \cup {"none"}
Fine(g, h) == Near(h, "no", {}) /\ Steady(g, h)

\* The agent is in a cycle: it can go on with it at any point.
Cycles(h, a) ==
  /\ h.status[a] \notin Errors
  /\ h.status[a] = "stopped" => h.stopped[a]
  /\ ~Interactive => h.status[a] \in Active \/ h.stopped[a]
  /\ h.recov[a] < RecoveryLimit /\ h.idle[a] <= IdleLimit
Free(g, h, a) == Amid(g, h, a) /\ Cycles(h, a)

\* Its cycle can end with what it says of itself, and its task can.
Rests(h, a) ==
  /\ h.status[a] \in Errors => h.told[a] \/ h.bstop \/ a = Root
  /\ Interactive /\ h.status[a] \in Errors => h.gate[a]
  /\ h.recov[a] <= RecoveryLimit /\ h.idle[a] <= IdleLimit
  /\ h.recov[a] = RecoveryLimit => h.kind[a] # "agents" \/ h.status[a] \in Errors \cup {"stopped"}
Leaves(h, a) == Interactive => h.status[a] \notin Errors /\ (h.status[a] = "stopped" => h.stopped[a])

\* The limits are positive.
LEMMA Limits ==
  /\ RecoveryLimit \in Nat /\ IdleLimit \in Nat /\ RecoveryLimit > 0 /\ IdleLimit > 0
  /\ Interactive \in BOOLEAN
BY GraphAssumption

\* The counters are natural numbers.
LEMMA Counters ==
  ASSUME NEW g, NEW e, NEW X, Near(g, e, X), NEW a \in Agents
  PROVE  g.recov[a] \in Nat /\ g.idle[a] \in Nat
BY DEF Near, Sound, Typed

\* An agent in its cycle may be left anywhere it may rest.
LEMMA FreeRests ==
  ASSUME NEW g, NEW h, NEW a \in Agents, Free(g, h, a)
  PROVE  Amid(g, h, a) /\ Rests(h, a) /\ Leaves(h, a)
<1>1. h.recov[a] \in Nat /\ h.idle[a] \in Nat /\ RecoveryLimit \in Nat
  BY Counters, Limits DEF Free, Amid
<1>2. h.recov[a] <= RecoveryLimit /\ h.recov[a] # RecoveryLimit
  BY <1>1 DEF Free, Cycles
<1>3. QED
  BY <1>2 DEF Free, Cycles, Rests, Leaves

\* Where a step begins.
LEMMA BeginFree ==
  ASSUME NEW g, Near(g, "no", {}), NEW a \in Agents, g.at[a] \in Mids \cup {"blocked", "dozing", "finishing"},
         ~(g.at[a] = "ended" /\ g.status[a] = "completed")
  PROVE  Free(g, g, a)
<1>1. Local(g, "no", a)
  BY DEF Near
<1>2. g.at[a] \notin Parked \cup Done \cup {"none", "check", "gone", "asleep"}
  BY DEF Mids, Parked, Done
<1>3. g.recov[a] \in Nat /\ g.idle[a] \in Nat /\ RecoveryLimit \in Nat
  BY Counters, Limits
<1>4. g.recov[a] < RecoveryLimit /\ g.idle[a] <= IdleLimit
  BY <1>1, <1>2, <1>3 DEF Local
<1>5. g.status[a] # "none" /\ (g.stopped[a] => g.status[a] = "stopped")
  BY <1>2 DEF Near, Base, Sound
<1>6. Interactive => g.status[a] \notin Errors
  BY <1>1, <1>2 DEF Local
<1>7. ~Interactive => g.status[a] \in Active \/ g.stopped[a]
  BY <1>1, <1>2 DEF Local
<1>8. g.status[a] = "stopped" => g.stopped[a]
  BY <1>1, <1>2 DEF Local
<1>9. g.status[a] \notin Errors
  BY <1>5, <1>6, <1>7 DEF Errors, Active
<1>10. Near(g, "no", {a})
  BY DEF Near
<1>11. QED
  BY <1>2, <1>4, <1>5, <1>7, <1>8, <1>9, <1>10, SteadyItself DEF Free, Amid, Cycles

\* A change of the agent itself in the middle of its step.
LEMMA OwnStep ==
  ASSUME NEW g, NEW h, NEW a \in Agents, Amid(g, h, a), NEW k, Sound(k), Apart(h, k, a),
         k.parks[a] = h.parks[a], k.at[a] = h.at[a], k.status[a] # "none",
         k.told[a] => h.told[a] /\ k.notices[a] = h.notices[a],
         Unreachable(h, a) => Unreachable(k, a),
         Interactive /\ h.status[a] = "stopped" => k.status[a] = "stopped",
         ~Interactive /\ k.status[a] \in Active => h.status[a] \in Active
  PROVE  Amid(g, k, a)
<1>1. Near(h, "no", {a}) /\ a \in {a}
  BY DEF Amid
<1>2. k.at[a] = "none" <=> k.status[a] = "none"
  BY DEF Amid
<1>3. k.status[a] # "none" /\ a # Root => h.status[Parent[a]] # "none"
  BY <1>1 DEF Amid, Near, Base, Children
<1>4. k.told[a] /\ a # Root => k.notices[a] > 0 \/ Unreachable(h, Parent[a])
  BY <1>1 DEF Near, Base, Children
<1>5. k.at[a] = "finishing" => h.at[a] = "finishing"
  OBVIOUS
<1>6. Near(k, "no", {a}) /\ Steady(h, k)
  BY <1>1, <1>2, <1>3, <1>4, <1>5, OneStep
<1>7. QED
  BY <1>6, SteadyTwice DEF Amid

\* Only its mailbox, its event or its turns have changed.
Quiet(g, h, a) ==
  /\ Apart(g, h, a)
  /\ h.status[a] = g.status[a] /\ h.at[a] = g.at[a] /\ h.kind[a] = g.kind[a] /\ h.gate[a] = g.gate[a]
  /\ h.told[a] = g.told[a] /\ h.stopped[a] = g.stopped[a] /\ h.parks[a] = g.parks[a]
  /\ h.recov[a] = g.recov[a] /\ h.idle[a] = g.idle[a] /\ h.notices[a] = g.notices[a]

\* An update of fields that no place depends on.
LEMMA QuietStep ==
  ASSUME NEW g, NEW h, NEW a \in Agents, Amid(g, h, a), NEW k, Sound(k), Quiet(h, k, a)
  PROVE  Amid(g, k, a) /\ (Cycles(h, a) => Cycles(k, a)) /\ (Rests(h, a) => Rests(k, a))
<1>1. /\ Apart(h, k, a) /\ k.parks[a] = h.parks[a] /\ k.at[a] = h.at[a] /\ k.status[a] = h.status[a]
      /\ k.told[a] = h.told[a] /\ k.notices[a] = h.notices[a]
  BY DEF Quiet
<1>2. Unreachable(h, a) => Unreachable(k, a)
  BY <1>1 DEF Unreachable
<1>3. Amid(g, k, a)
  BY <1>1, <1>2, OwnStep DEF Amid
<1>4. (Cycles(h, a) => Cycles(k, a)) /\ (Rests(h, a) => Rests(k, a))
  BY DEF Cycles, Rests, Quiet, Apart, Scan
<1>5. QED
  BY <1>3, <1>4

\* The mail, the event and the turn are such fields.
LEMMA MailFree ==
  ASSUME NEW g, NEW h, NEW a \in Agents, Free(g, h, a)
  PROVE  /\ Free(g, TakeMail(h, a), a) /\ Free(g, ReturnMail(h, a), a) /\ Free(g, Armed(h, a), a)
         /\ h.turns[a] # TurnLimit => Free(g, Claimed(h, a), a)
<1>1. Sound(h) /\ Amid(g, h, a) /\ Cycles(h, a)
  BY DEF Free, Amid, Near
<1>2. Sound(TakeMail(h, a)) /\ Quiet(h, TakeMail(h, a), a)
  <2>1. Sound(TakeMail(h, a))
    BY <1>1, TakeMailCalm, CalmSound
  <2>2. QED
    BY <1>1, <2>1, TakeMailFields DEF Quiet
<1>3. Sound(ReturnMail(h, a)) /\ Quiet(h, ReturnMail(h, a), a)
  <2>1. Sound(ReturnMail(h, a))
    BY <1>1, ReturnMailCalm, CalmSound
  <2>2. QED
    BY <1>1, <2>1, ReturnMailFields DEF Quiet
<1>4. Sound(Armed(h, a)) /\ Quiet(h, Armed(h, a), a)
  <2>1. Sound(Armed(h, a))
    BY <1>1, ArmCalm, CalmSound DEF Armed
  <2>2. QED
    BY <1>1, <2>1, ArmFields DEF Quiet
<1>5. h.turns[a] # TurnLimit => Sound(Claimed(h, a)) /\ Quiet(h, Claimed(h, a), a)
  <2>1. h.turns[a] # TurnLimit => Sound(Claimed(h, a))
    BY <1>1, ClaimedSound, GraphAssumption
  <2>2. QED
    BY <1>1, <2>1, ClaimedFields DEF Quiet
<1>6. QED
  BY <1>1, <1>2, <1>3, <1>4, <1>5, QuietStep DEF Free

\* A fresh stint of an agent in its cycle.
LEMMA RunFree ==
  ASSUME NEW g, NEW h, NEW a \in Agents, Free(g, h, a)
  PROVE  Free(g, MarkRunning(h, a), a)
<1> DEFINE k == MarkRunning(h, a)
<1>1. Amid(g, h, a) /\ Cycles(h, a) /\ Sound(h)
  BY DEF Free, Amid, Near
<1>2. Sound(k)
  BY <1>1, MarkRunningCalm, CalmSound
<1>3. CASE h.status[a] \notin Active
  <2>1. k = h
    BY <1>3 DEF MarkRunning
  <2>2. QED
    BY <2>1
<1>4. CASE h.status[a] \in Active /\ h.paused
  <2>1. Interactive
    BY <1>1, <1>4 DEF Sound
  <2>2. /\ Apart(h, k, a) /\ k.status[a] = "budget_paused" /\ k.at[a] = h.at[a] /\ k.told[a] = h.told[a]
        /\ k.stopped[a] = h.stopped[a] /\ k.parks[a] = h.parks[a] /\ k.recov[a] = h.recov[a]
        /\ k.idle[a] = h.idle[a] /\ k.notices[a] = h.notices[a]
    BY <1>1, <1>4, HeldFields
  <2> HIDE DEF k
  <2>3. /\ ~Unreachable(h, a) /\ h.status[a] # "stopped" /\ k.status[a] \notin Errors \cup {"none", "stopped"}
    BY <1>1, <1>4, <2>2 DEF Unreachable, Active, Errors, Amid, Done
  <2>4. Amid(g, k, a)
    BY <1>1, <1>2, <2>1, <2>2, <2>3, OwnStep
  <2>5. Cycles(k, a)
    BY <1>1, <2>1, <2>2, <2>3 DEF Cycles
  <2>6. QED
    BY <2>4, <2>5 DEF Free, k
<1>5. CASE h.status[a] \in Active /\ ~h.paused
  <2>1. /\ Apart(h, k, a) /\ k.status[a] = "running" /\ k.at[a] = h.at[a] /\ ~k.told[a]
        /\ k.stopped[a] = h.stopped[a] /\ k.parks[a] = h.parks[a] /\ k.recov[a] = h.recov[a]
        /\ k.idle[a] = h.idle[a]
    BY <1>1, <1>5, RunsFields
  <2> HIDE DEF k
  <2>2. /\ ~Unreachable(h, a) /\ h.status[a] # "stopped" /\ k.status[a] \notin Errors \cup {"none", "stopped"}
        /\ k.status[a] \in Active
    BY <1>1, <1>5, <2>1 DEF Unreachable, Active, Errors, Amid, Done
  <2>3. Amid(g, k, a)
    BY <1>1, <1>2, <1>5, <2>1, <2>2, OwnStep
  <2>4. Cycles(k, a)
    BY <1>1, <2>1, <2>2 DEF Cycles
  <2>5. QED
    BY <2>3, <2>4 DEF Free, k
<1>6. QED
  BY <1>3, <1>4, <1>5

\* Parking, of an agent whose recovery count may have reached its limit.
LEMMA ParkRests ==
  ASSUME NEW g, NEW h, NEW a \in Agents, Amid(g, h, a), NEW n \in Kinds, h.status[a] \notin Errors,
         ~Interactive => h.status[a] \in Active \/ h.stopped[a],
         h.recov[a] <= RecoveryLimit, h.idle[a] <= IdleLimit, h.recov[a] = RecoveryLimit => n # "agents",
         ~Unreachable(h, a) \/ h.status[a] = "stopped"
  PROVE  Amid(g, Park(h, a, n), a) /\ Rests(Park(h, a, n), a) /\ (Cycles(h, a) => Cycles(Park(h, a, n), a))
<1> DEFINE k == Park(h, a, n)
<1>1. Sound(h) /\ h.status[a] # "none"
  BY DEF Amid, Near
<1>2. CASE h.status[a] = "stopped"
  <2>1. k = h
    BY <1>2 DEF Park
  <2>2. QED
    BY <1>2, <2>1 DEF Rests, Errors
<1>3. CASE h.status[a] # "stopped"
  <2>1. Sound(k)
    BY <1>1, ParkCalm, CalmSound
  <2>2. Parks(h, k, a, n)
    <3>1. h.status[a] \notin {"none", "stopped"}
      BY <1>1, <1>3
    <3>2. QED
      BY <1>1, <3>1, ParkParks
  <2> HIDE DEF k
  <2>3. /\ ~Unreachable(h, a) /\ k.status[a] \notin Errors \cup {"none", "stopped"}
        /\ k.status[a] \in Active /\ ~h.stopped[a]
    BY <1>1, <1>3, <2>2 DEF Active, Errors, Sound, Parks
  <2>4. Amid(g, k, a)
    BY <1>3, <2>1, <2>2, <2>3, OwnStep DEF Parks
  <2>5. Rests(k, a)
    BY <2>2, <2>3 DEF Rests, Parks
  <2>6. Cycles(h, a) => Cycles(k, a)
    BY <2>2, <2>3 DEF Cycles, Parks
  <2>7. QED
    BY <2>4, <2>5, <2>6 DEF k
<1>4. QED
  BY <1>2, <1>3

\* Parking in a cycle.
LEMMA ParkFree ==
  ASSUME NEW g, NEW h, NEW a \in Agents, Free(g, h, a), NEW n \in Kinds
  PROVE  Free(g, Park(h, a, n), a)
<1>1. h.recov[a] \in Nat /\ RecoveryLimit \in Nat
  BY Counters, Limits DEF Free, Amid
<1>2. /\ Amid(g, h, a) /\ h.status[a] \notin Errors /\ (~Interactive => h.status[a] \in Active \/ h.stopped[a])
      /\ h.recov[a] <= RecoveryLimit /\ h.idle[a] <= IdleLimit /\ h.recov[a] # RecoveryLimit
  BY <1>1 DEF Free, Cycles
<1>3. ~Unreachable(h, a) \/ h.status[a] = "stopped"
  <2>1. h.parks[a] = Interactive /\ h.at[a] # "gone" /\ (h.stopped[a] => h.status[a] = "stopped")
    BY <1>2 DEF Amid, Near, Base, Done, Sound
  <2>2. QED
    BY <1>2, <2>1 DEF Unreachable, Active
<1>4. Amid(g, Park(h, a, n), a) /\ (Cycles(h, a) => Cycles(Park(h, a, n), a))
  BY <1>2, <1>3, ParkRests
<1>5. QED
  BY <1>4 DEF Free

\* The status a task ends its cycle with, unless it was stopped.
Marked(h, k, a, s) ==
  /\ k.at[a] = h.at[a] /\ k.kind[a] = h.kind[a] /\ k.told[a] = h.told[a] /\ k.stopped[a] = h.stopped[a]
  /\ k.recov[a] = h.recov[a] /\ k.idle[a] = h.idle[a] /\ k.bstop = h.bstop
  /\ IF h.stopped[a] THEN k.status[a] = "stopped" ELSE k.status[a] = s /\ (k.gate[a] <=> s \in Errors)

\* A status that is set, unless the agent was stopped.
LEMMA SetStep ==
  ASSUME NEW g, NEW h, NEW a \in Agents, Amid(g, h, a), NEW s \in Ends, ~Unreachable(h, a) \/ h.stopped[a]
  PROVE  Amid(g, SetStatus(h, a, s), a) /\ Marked(h, SetStatus(h, a, s), a, s)
<1> DEFINE k == SetStatus(h, a, s)
<1>1. Sound(h) /\ h.status[a] # "none"
  BY DEF Amid, Near
<1>2. CASE h.stopped[a]
  <2>1. k = h /\ h.status[a] = "stopped"
    BY <1>1, <1>2 DEF SetStatus, Sound
  <2>2. QED
    BY <1>2, <2>1 DEF Marked
<1>3. CASE ~h.stopped[a]
  <2>1. Sound(k)
    BY <1>1, SetStatusCalm, CalmSound
  <2>2. Sets(h, k, a, s)
    BY <1>1, <1>3, SetSets
  <2> HIDE DEF k
  <2>4. ~Unreachable(h, a) /\ h.status[a] # "stopped" /\ s \notin Active \cup {"none"}
    BY <1>3 DEF Unreachable, Ends, Active
  <2>5. Amid(g, k, a)
    BY <2>1, <2>2, <2>4, OwnStep DEF Sets
  <2>6. Marked(h, k, a, s)
    BY <1>3, <2>2 DEF Marked, Apart, Scan, Sets
  <2>7. QED
    BY <2>5, <2>6 DEF k
<1>4. QED
  BY <1>2, <1>3

-----------------------------------------------------------------------------
(* Where a step leaves its task. *)

\* The task is put at a point, where its agent is in its place.
LEMMA Lands ==
  ASSUME NEW g, NEW h, NEW a \in Agents, Amid(g, h, a), NEW p \in Points, p \notin {"none", "finishing"},
         Puts(h, At(h, a, p), a, p) => Local(At(h, a, p), "no", a)
  PROVE  Fine(g, At(h, a, p))
<1> DEFINE k == At(h, a, p)
<1>1. Near(h, "no", {a}) /\ Sound(h) /\ Steady(g, h) /\ h.status[a] # "none" /\ h.at[a] \notin {"none", "gone"}
  BY DEF Amid, Near, Done
<1>2. Near(k, "no", {a}) /\ Steady(h, k)
  BY <1>1, PutStep
<1>3. Puts(h, k, a, p)
  BY <1>1, AtPuts
<1>4. Local(k, "no", a)
  BY <1>3
<1> HIDE DEF k
<1>5. Near(k, "no", {})
  BY <1>2, <1>4, Back
<1>6. QED
  BY <1>1, <1>2, <1>5, SteadyTwice DEF Fine, k

\* The point after a suspension in the middle of a run.
LEMMA PutFree ==
  ASSUME NEW g, NEW h, NEW a \in Agents, Free(g, h, a), NEW p \in Mids
  PROVE  Fine(g, At(h, a, p))
<1> DEFINE k == At(h, a, p)
<1>1. p \in Points /\ p \notin {"none", "finishing", "check", "asleep", "dozing", "gone"} \cup Sleeping \cup Parked \cup Done
  BY DEF Mids, Points, Sleeping, Parked, Done
<1>2. Amid(g, h, a) /\ Cycles(h, a)
  BY DEF Free
<1>3. h.recov[a] \in Nat /\ RecoveryLimit \in Nat
  BY <1>2, Counters, Limits DEF Amid
<1>4. h.recov[a] <= RecoveryLimit /\ h.recov[a] # RecoveryLimit
  BY <1>2, <1>3 DEF Cycles
<1>5. ASSUME Puts(h, k, a, p) PROVE Local(k, "no", a)
  <2> HIDE DEF k
  <2>1. /\ k.at[a] = p /\ k.status[a] = h.status[a] /\ k.stopped[a] = h.stopped[a] /\ k.recov[a] = h.recov[a]
        /\ k.idle[a] = h.idle[a]
    BY <1>5 DEF Puts
  <2>2. QED
    BY <1>1, <1>2, <1>4, <2>1 DEF Local, Cycles
<1>6. QED
  BY <1>1, <1>2, <1>5, Lands

\* The end of a cycle, and that of the task.
LEMMA ReturnRests ==
  ASSUME NEW g, NEW h, NEW a \in Agents, Amid(g, h, a), Rests(h, a)
  PROVE  Fine(g, Return(h, a))
<1> DEFINE p == IF Interactive THEN "check" ELSE "gone"
           k == At(h, a, p)
<1>1. p \in Points /\ p \notin {"none", "finishing", "asleep", "dozing"} \cup Sleeping /\ p \in Parked \cup Done
  BY DEF Points, Sleeping, Parked, Done
<1>2. p = (IF Interactive THEN "check" ELSE "gone")
  OBVIOUS
<1>3. Return(h, a) = k
  BY DEF Return
<1> HIDE DEF p
<1>4. ASSUME Puts(h, k, a, p) PROVE Local(k, "no", a)
  <2> HIDE DEF k
  <2>1. /\ k.at[a] = p /\ k.status[a] = h.status[a] /\ k.stopped[a] = h.stopped[a] /\ k.recov[a] = h.recov[a]
        /\ k.idle[a] = h.idle[a] /\ k.told[a] = h.told[a] /\ k.gate[a] = h.gate[a] /\ k.kind[a] = h.kind[a]
        /\ k.bstop = h.bstop
    BY <1>4 DEF Puts, Apart, Scan
  <2>2. ~Interactive => k.at[a] = "gone" /\ k.at[a] \in Done
    BY <1>2, <2>1 DEF Done
  <2>3. Interactive => k.at[a] \in Parked
    BY <1>2, <2>1 DEF Parked
  <2>4. p \in {"check", "gone"}
    BY <1>2
  <2>5. QED
    BY <1>1, <2>1, <2>2, <2>3, <2>4 DEF Local, Rests
<1>5. Fine(g, k)
  BY <1>1, <1>4, Lands
<1>6. QED
  BY <1>3, <1>5

\* A task that ends, of an agent no error has parked.
LEMMA RaiseRests ==
  ASSUME NEW g, NEW h, NEW a \in Agents, Amid(g, h, a), Rests(h, a), Leaves(h, a)
  PROVE  Fine(g, Raise(h, a)) /\ (Interactive => Fine(g, At(h, a, "gone")))
<1>1. ASSUME NEW p \in {"raised", "gone"}, p = "gone" \/ a = Root PROVE Fine(g, At(h, a, p))
  <2> DEFINE k == At(h, a, p)
  <2>1. p \in Points /\ p \notin {"none", "finishing", "check", "asleep", "dozing"} \cup Sleeping /\ p \in Done
    BY <1>1 DEF Points, Sleeping, Done
  <2>2. ASSUME Puts(h, k, a, p) PROVE Local(k, "no", a)
    <3> HIDE DEF k
    <3>1. /\ k.at[a] = p /\ k.status[a] = h.status[a] /\ k.stopped[a] = h.stopped[a] /\ k.recov[a] = h.recov[a]
          /\ k.idle[a] = h.idle[a] /\ k.told[a] = h.told[a] /\ k.kind[a] = h.kind[a] /\ k.bstop = h.bstop
      BY <2>2 DEF Puts, Apart, Scan
    <3>2. k.status[a] = "stopped" /\ ~k.stopped[a] => ~Interactive
      BY <3>1 DEF Leaves
    <3>3. Interactive => k.status[a] \notin Errors
      BY <3>1 DEF Leaves
    <3>4. QED
      BY <2>1, <3>1, <3>2, <3>3 DEF Local, Rests
  <2>3. QED
    BY <2>1, <2>2, Lands
<1>2. Raise(h, a) = At(h, a, IF a = Root THEN "raised" ELSE "gone")
  BY DEF Raise
<1>3. QED
  BY <1>1, <1>2

-----------------------------------------------------------------------------
(* The parts of a step again. *)

\* A pause in the middle of a step, and one that ends it.
LEMMA PauseRests ==
  ASSUME NEW g, NEW h, NEW a \in Agents, Amid(g, h, a), Rests(h, a), Interactive, NEW i \in Flags
  PROVE  Amid(g, PauseForBudget(h, a, i), a) /\ Rests(PauseForBudget(h, a, i), a)
<1> DEFINE k == PauseForBudget(h, a, i)
<1>1. Near(h, "no", {a}) /\ ~h.bstop /\ "no" # "over"
  BY DEF Amid, Near, Sound
<1>12. /\ Near(k, "no", {a}) /\ Steady(h, k) /\ Held(h, k, a)
  BY <1>1, PauseStep
<1>2. /\ Near(k, "no", {a}) /\ Steady(h, k)
      /\ k.at[a] = h.at[a] /\ k.kind[a] = h.kind[a] /\ k.gate[a] = h.gate[a] /\ k.told[a] = h.told[a]
      /\ k.recov[a] = h.recov[a] /\ k.idle[a] = h.idle[a]
      /\ k.status[a] = h.status[a] \/ (h.status[a] \in Active /\ k.status[a] = "budget_paused")
  BY <1>12 DEF Held
<1> HIDE DEF k
<1>3. k.status[a] # "none" /\ Steady(g, k)
  BY <1>2, SteadyTwice DEF Amid
<1>4. Rests(k, a)
  <2>1. CASE k.status[a] = h.status[a]
    BY <1>1, <1>2, <2>1 DEF Rests
  <2>2. CASE h.status[a] \in Active /\ k.status[a] = "budget_paused"
    <3>1. h.status[a] \notin Errors \cup {"stopped"} /\ k.status[a] \notin Errors
      BY <2>2 DEF Active, Errors
    <3>2. QED
      BY <1>2, <3>1 DEF Rests
  <2>3. QED
    BY <1>2, <2>1, <2>2
<1>5. QED
  BY <1>2, <1>3, <1>4 DEF Amid, k

LEMMA PauseAtRests ==
  ASSUME NEW g, NEW h, NEW a \in Agents, Amid(g, h, a), Rests(h, a), Interactive
  PROVE  Fine(g, PauseAt(h, a))
<1>1. TRUE \in Flags
  BY DEF Flags
<1>2. PauseAt(h, a) = Return(PauseForBudget(h, a, TRUE), a)
  BY DEF PauseAt, Return
<1>3. QED
  BY <1>1, <1>2, PauseRests, ReturnRests

\* The counters of recovery and of idleness.
Recounts(g, h, a, r, i) ==
  /\ Apart(g, h, a) /\ h.recov[a] = r /\ h.idle[a] = i
  /\ h.status[a] = g.status[a] /\ h.at[a] = g.at[a] /\ h.kind[a] = g.kind[a] /\ h.gate[a] = g.gate[a]
  /\ h.told[a] = g.told[a] /\ h.stopped[a] = g.stopped[a] /\ h.parks[a] = g.parks[a] /\ h.notices[a] = g.notices[a]

\* A change of the agent's counters, and the four that are made.
LEMMA RecountStep ==
  ASSUME NEW g, NEW h, NEW a \in Agents, Amid(g, h, a), NEW k, Sound(k), NEW r, NEW i, Recounts(h, k, a, r, i)
  PROVE  Amid(g, k, a)
<1>1. /\ Apart(h, k, a) /\ k.parks[a] = h.parks[a] /\ k.at[a] = h.at[a] /\ k.status[a] = h.status[a]
      /\ k.told[a] = h.told[a] /\ k.notices[a] = h.notices[a]
  BY DEF Recounts
<1>2. Unreachable(h, a) => Unreachable(k, a)
  BY <1>1 DEF Unreachable
<1>3. QED
  BY <1>1, <1>2, OwnStep DEF Amid

LEMMA CounterSteps ==
  ASSUME NEW g, NEW h, NEW a \in Agents, Amid(g, h, a)
  PROVE  /\ Amid(g, ResetRecovery(h, a), a) /\ Recounts(h, ResetRecovery(h, a), a, 0, h.idle[a])
         /\ Amid(g, Retried(h, a), a) /\ Recounts(h, Retried(h, a), a, h.recov[a] + 1, h.idle[a])
         /\ Amid(g, Idled(h, a), a) /\ Recounts(h, Idled(h, a), a, h.recov[a], h.idle[a] + 1)
         /\ Amid(g, Refreshed(h, a), a) /\ Recounts(h, Refreshed(h, a), a, 0, 0)
<1>1. Sound(h)
  BY DEF Amid, Near
<1>2. Sound(ResetRecovery(h, a)) /\ Recounts(h, ResetRecovery(h, a), a, 0, h.idle[a])
  <2>1. Sound(ResetRecovery(h, a))
    BY <1>1, ResetCalm, CalmSound
  <2>2. QED
    BY <1>1, <2>1, ResetFields DEF Recounts
<1>3. Sound(Retried(h, a)) /\ Recounts(h, Retried(h, a), a, h.recov[a] + 1, h.idle[a])
  <2>1. Sound(Retried(h, a))
    BY <1>1, RecovCalm, CalmSound DEF Retried
  <2>2. QED
    BY <1>1, <2>1, RecovFields DEF Recounts
<1>4. Sound(Idled(h, a)) /\ Recounts(h, Idled(h, a), a, h.recov[a], h.idle[a] + 1)
  <2>1. Sound(Idled(h, a))
    BY <1>1, IdleCalm, CalmSound DEF Idled
  <2>2. QED
    BY <1>1, <2>1, IdleFields DEF Recounts
<1>5. Sound(Refreshed(h, a)) /\ Recounts(h, Refreshed(h, a), a, 0, 0)
  <2>1. Sound(Refreshed(h, a))
    BY <1>1, ReadCalm, CalmSound DEF Refreshed
  <2>2. QED
    BY <1>1, <2>1, ReadFields DEF Recounts
<1>6. QED
  BY <1>2, <1>3, <1>4, <1>5, RecountStep

\* The notice of a terminal status, of a task that reached one.
LEMMA ToldRests ==
  ASSUME NEW g, NEW h, NEW a \in Agents, Amid(g, h, a), h.recov[a] <= RecoveryLimit, h.idle[a] <= IdleLimit,
         Interactive /\ h.status[a] \in Errors => h.gate[a],
         h.recov[a] = RecoveryLimit => h.kind[a] # "agents" \/ h.status[a] \in Errors \cup {"stopped"}
  PROVE  /\ Amid(g, NotifyTerminal(h, a), a) /\ Rests(NotifyTerminal(h, a), a)
         /\ NotifyTerminal(h, a).recov[a] = h.recov[a]
<1> DEFINE k == NotifyTerminal(h, a)
<1>1. /\ Near(k, "no", {a}) /\ Steady(h, k) /\ Alike(h, k, a)
      /\ k.told[a] \/ a = Root \/ k.bstop
  BY NoticeStep DEF Amid
<1> HIDE DEF k
<1>2. /\ k.status[a] = h.status[a] /\ k.at[a] = h.at[a] /\ k.gate[a] = h.gate[a] /\ k.kind[a] = h.kind[a]
      /\ k.recov[a] = h.recov[a] /\ k.idle[a] = h.idle[a]
  BY <1>1 DEF Alike
<1>3. Amid(g, k, a)
  BY <1>1, <1>2, SteadyTwice DEF Amid
<1>4. Rests(k, a)
  BY <1>1, <1>2 DEF Rests
<1>5. QED
  BY <1>2, <1>3, <1>4 DEF k

-----------------------------------------------------------------------------
(* What follows a run. *)

\* An agent in its cycle can read its mail, unless it was stopped.
LEMMA FreeReads ==
  ASSUME NEW g, NEW h, NEW a \in Agents, Free(g, h, a)
  PROVE  ~Unreachable(h, a) \/ h.stopped[a]
<1>1. Amid(g, h, a) /\ Cycles(h, a)
  BY DEF Free
<1>2. h.parks[a] = Interactive /\ h.at[a] # "gone" /\ (h.stopped[a] => h.status[a] = "stopped")
  BY <1>1 DEF Amid, Near, Base, Done, Sound
<1>3. QED
  BY <1>1, <1>2 DEF Cycles, Unreachable, Active

\* AfterCycle, of an agent that may still be retried and of one in its cycle.
LEMMA AfterStep ==
  ASSUME NEW g, NEW h, NEW a \in Agents, Amid(g, h, a), Rests(h, a),
         h.status[a] = "running" => h.recov[a] < RecoveryLimit
  PROVE  Fine(g, AfterCycle(h, a))
<1>0. Sound(h) /\ h.recov[a] \in Nat /\ RecoveryLimit \in Nat /\ RecoveryLimit > 0 /\ Interactive \in BOOLEAN
  BY Counters, Limits DEF Amid, Near
<1>1. CASE h.status[a] # "running"
  <2>1. Amid(g, ResetRecovery(h, a), a) /\ Recounts(h, ResetRecovery(h, a), a, 0, h.idle[a])
    BY CounterSteps
  <2>2. Rests(ResetRecovery(h, a), a)
    BY <1>0, <2>1 DEF Rests, Recounts, Apart, Scan
  <2>3. AfterCycle(h, a) = Return(ResetRecovery(h, a), a)
    BY <1>1 DEF AfterCycle
  <2>4. QED
    BY <2>1, <2>2, <2>3, ReturnRests
<1>2. CASE h.status[a] = "running"
  <2> DEFINE k == Retried(h, a)
  <2>1. Amid(g, k, a) /\ Recounts(h, k, a, h.recov[a] + 1, h.idle[a])
    BY CounterSteps
  <2>2. AfterCycle(h, a) = (IF k.recov[a] < RecoveryLimit THEN At(k, a, "nudging")
           ELSE IF a # Root THEN Return(NotifyTerminal(SetStatus(k, a, "crashed"), a), a)
           ELSE IF Interactive THEN Return(Park(k, a, "stalled"), a)
           ELSE Raise(SetStatus(k, a, "crashed"), a))
    BY <1>2 DEF AfterCycle, Retried
  <2> HIDE DEF k
  <2>3. /\ k.recov[a] = h.recov[a] + 1 /\ k.idle[a] = h.idle[a] /\ k.status[a] = "running" /\ k.kind[a] = h.kind[a]
        /\ k.idle[a] <= IdleLimit /\ k.recov[a] <= RecoveryLimit
    BY <1>0, <1>2, <2>1 DEF Recounts, Rests
  <2>4. /\ k.status[a] \in Active /\ k.status[a] \notin Errors /\ k.parks[a] = Interactive /\ k.at[a] # "gone"
    BY <2>1, <2>3 DEF Active, Errors, Amid, Near, Base, Done
  <2>5. ~Unreachable(k, a)
    BY <2>3, <2>4 DEF Unreachable, Active, Errors
  <2>6. "crashed" \in Ends /\ "stalled" \in Kinds /\ "nudging" \in Mids /\ "crashed" \in Errors
    BY DEF Ends, Kinds, Mids, Errors
  <2>7. CASE k.recov[a] < RecoveryLimit
    <3>1. Free(g, k, a)
      BY <2>1, <2>3, <2>4, <2>7 DEF Free, Cycles
    <3>2. QED
      BY <2>2, <2>6, <2>7, <3>1, PutFree
  <2>8. CASE ~(k.recov[a] < RecoveryLimit)
    <3> DEFINE c == SetStatus(k, a, "crashed")
    <3>1. Amid(g, c, a) /\ Marked(k, c, a, "crashed")
      BY <2>1, <2>5, <2>6, SetStep
    <3> HIDE DEF c
    <3>2. ~k.stopped[a]
      BY <2>1, <2>3 DEF Amid, Near, Sound
    <3>3. c.status[a] = "crashed" /\ c.gate[a] /\ c.recov[a] = k.recov[a] /\ c.idle[a] = k.idle[a] /\ c.kind[a] = k.kind[a]
      BY <2>6, <3>1, <3>2 DEF Marked
    <3>4. CASE a # Root
      <4>1. /\ c.recov[a] <= RecoveryLimit /\ c.idle[a] <= IdleLimit /\ (Interactive /\ c.status[a] \in Errors => c.gate[a])
            /\ c.recov[a] = RecoveryLimit => c.kind[a] # "agents" \/ c.status[a] \in Errors \cup {"stopped"}
        BY <2>3, <2>6, <3>3
      <4>2. Amid(g, NotifyTerminal(c, a), a) /\ Rests(NotifyTerminal(c, a), a)
        BY <3>1, <4>1, ToldRests
      <4>3. QED
        BY <2>2, <2>8, <3>4, <4>2, ReturnRests DEF c
    <3>5. CASE a = Root /\ Interactive
      <4>1. Amid(g, Park(k, a, "stalled"), a) /\ Rests(Park(k, a, "stalled"), a)
        BY <2>1, <2>3, <2>4, <2>5, <2>6, ParkRests
      <4>2. QED
        BY <2>2, <2>8, <3>5, <4>1, ReturnRests
    <3>6. CASE a = Root /\ ~Interactive
      <4>1. Rests(c, a) /\ Leaves(c, a)
        BY <2>3, <2>6, <3>3, <3>6 DEF Rests, Leaves
      <4>2. QED
        BY <2>2, <2>8, <3>1, <3>6, <4>1, RaiseRests DEF c
    <3>7. QED
      BY <1>0, <3>4, <3>5, <3>6
  <2>9. QED
    BY <2>7, <2>8
<1>3. QED
  BY <1>1, <1>2

LEMMA AfterFree ==
  ASSUME NEW g, NEW h, NEW a \in Agents, Free(g, h, a)
  PROVE  Fine(g, AfterCycle(h, a))
<1>1. Amid(g, h, a) /\ Rests(h, a)
  BY FreeRests
<1>2. h.recov[a] < RecoveryLimit
  BY DEF Free, Cycles
<1>3. QED
  BY <1>1, <1>2, AfterStep

\* The start of a run.
LEMMA StartFree ==
  ASSUME NEW g, NEW h, NEW a \in Agents, Free(g, h, a)
  PROVE  Fine(g, Start(h, a))
<1>1. Free(g, MarkRunning(h, a), a)
  BY RunFree
<1>2. Fine(g, At(MarkRunning(h, a), a, "prep"))
  <2>1. "prep" \in Mids
    BY DEF Mids
  <2>2. QED
    BY <1>1, <2>1, PutFree
<1>3. Interactive => Fine(g, PauseAt(MarkRunning(h, a), a))
  BY <1>1, FreeRests, PauseAtRests
<1>4. Fine(g, AfterCycle(h, a))
  BY AfterFree
<1>5. QED
  BY <1>2, <1>3, <1>4 DEF Start

\* A task that quits is one of a headless scan.
LEMMA QuitFree ==
  ASSUME NEW g, NEW h, NEW a \in Agents, Free(g, h, a), h.bstop \/ h.rstop
  PROVE  Fine(g, Quit(h, a))
<1> DEFINE k == SetStatus(h, a, "stopped")
<1>1. Amid(g, h, a) /\ Rests(h, a) /\ "stopped" \in Ends /\ ~Interactive
  BY FreeRests DEF Amid, Near, Sound, Ends
<1>2. Amid(g, k, a) /\ Marked(h, k, a, "stopped")
  BY <1>1, FreeReads, SetStep
<1> HIDE DEF k
<1>3. k.status[a] = "stopped" /\ k.recov[a] = h.recov[a] /\ k.idle[a] = h.idle[a]
  BY <1>2 DEF Marked
<1>4. Rests(k, a) /\ Leaves(k, a)
  BY <1>1, <1>3 DEF Rests, Leaves, Errors
<1>5. QED
  BY <1>2, <1>4, RaiseRests DEF k, Quit

\* A cycle that begins, and a run that fails.
LEMMA DriveFree ==
  ASSUME NEW g, NEW h, NEW a \in Agents, Free(g, h, a)
  PROVE  Fine(g, Drive(h, a))
<1>1. Interactive => Fine(g, PauseAt(h, a))
  BY FreeRests, PauseAtRests
<1>2. Fine(g, Start(h, a))
  BY StartFree
<1>3. h.bstop \/ h.rstop => Fine(g, Quit(h, a))
  BY QuitFree
<1>4. QED
  BY <1>1, <1>2, <1>3 DEF Drive

LEMMA FailFree ==
  ASSUME NEW g, NEW h, NEW a \in Agents, Free(g, h, a), NEW s \in Errors \cup {"stopped"}
  PROVE  Fine(g, Fail(h, a, s)) /\ Fine(g, Settle(h, a, s))
<1> DEFINE k == SetStatus(h, a, s)
           n == NotifyTerminal(k, a)
<1>0. s \in Ends /\ s # "running"
  BY DEF Errors, Ends
<1>1. Amid(g, h, a) /\ Rests(h, a) /\ Leaves(h, a) /\ h.recov[a] < RecoveryLimit
  BY FreeRests DEF Free, Cycles
<1>2. Amid(g, k, a) /\ Marked(h, k, a, s)
  BY <1>0, <1>1, FreeReads, SetStep
<1> HIDE DEF k
<1>3. /\ k.recov[a] = h.recov[a] /\ k.idle[a] = h.idle[a]
      /\ k.status[a] = "stopped" \/ k.status[a] = s
      /\ k.status[a] = "stopped" \/ (k.gate[a] <=> s \in Errors)
  BY <1>2 DEF Marked
<1>4. /\ k.recov[a] <= RecoveryLimit /\ k.idle[a] <= IdleLimit
      /\ Interactive /\ k.status[a] \in Errors => k.gate[a]
      /\ k.recov[a] = RecoveryLimit => k.kind[a] # "agents" \/ k.status[a] \in Errors \cup {"stopped"}
  BY <1>1, <1>3 DEF Rests, Errors
<1>5. Amid(g, n, a) /\ Rests(n, a) /\ n.recov[a] = k.recov[a]
  BY <1>2, <1>4, ToldRests
<1> HIDE DEF n
<1>6. Fine(g, AfterCycle(n, a))
  BY <1>1, <1>3, <1>5, AfterStep
<1>7. Fine(g, Raise(h, a))
  BY <1>1, RaiseRests
<1>8. Fine(g, Fail(h, a, s))
  BY <1>6 DEF Fail, n, k
<1>9. QED
  BY <1>7, <1>8 DEF Settle

-----------------------------------------------------------------------------
(* The budget, the mail and the waits. *)

\* The budget is exhausted.
LEMMA OutOfBudgetFree ==
  ASSUME NEW g, NEW h, NEW a \in Agents, Free(g, h, a)
  PROVE  Fine(g, OutOfBudget(h, a))
<1> DEFINE k == SetStatus(h, a, "stopped")
           t == TriggerBudgetStop(k)
<1>1. Amid(g, h, a) /\ Rests(h, a) /\ "stopped" \in Ends /\ "no" # "over"
  BY FreeRests DEF Ends
<1>2. CASE Interactive
  BY <1>1, <1>2, PauseAtRests DEF OutOfBudget
<1>3. CASE ~Interactive
  <2>1. Amid(g, k, a) /\ Marked(h, k, a, "stopped")
    BY <1>1, FreeReads, SetStep
  <2> HIDE DEF k
  <2>2. Near(k, "no", {a}) /\ Steady(g, k) /\ k.status[a] # "none" /\ k.at[a] \notin Done \cup {"none"}
    BY <2>1 DEF Amid
  <2>3. k.status[a] = "stopped" /\ k.recov[a] = h.recov[a] /\ k.idle[a] = h.idle[a]
    BY <2>1 DEF Marked
  <2>31. t = TriggerBudgetStop(k)
    OBVIOUS
  <2> HIDE DEF t
  <2>4. /\ Near(t, "no", {a}) /\ Steady(k, t)
        /\ t.status = k.status /\ t.at = k.at /\ t.recov = k.recov /\ t.idle = k.idle
    BY <1>1, <1>3, <2>2, <2>31, BudgetStopStep DEF Untouched
  <2>5. Amid(g, t, a)
    BY <2>2, <2>4, SteadyTwice DEF Amid
  <2>6. Rests(t, a) /\ Leaves(t, a)
    BY <1>1, <1>3, <2>3, <2>4 DEF Rests, Leaves, Errors
  <2>7. QED
    BY <1>3, <2>5, <2>6, RaiseRests DEF t, k, OutOfBudget
<1>4. QED
  BY <1>2, <1>3

\* A child that may not spend the reserve tells the root, if it is the first.
LEMMA ReserveFree ==
  ASSUME NEW g, NEW h, NEW a \in Agents, a # Root, ~Interactive, Free(g, h, a)
  PROVE  Fine(g, Raise(ClaimReserve(SetStatus(h, a, "stopped")), a))
<1> DEFINE k == SetStatus(h, a, "stopped")
           w == Reserved(k)
           s == SendNow(w, Root, FALSE)
           c == ClaimReserve(k)
<1>1. Amid(g, h, a) /\ Rests(h, a) /\ "stopped" \in Ends /\ "no" # "over" /\ Root \in Agents
  BY FreeRests, RootKnown, GraphAssumption DEF Ends
<1>2. Amid(g, k, a) /\ Marked(h, k, a, "stopped")
  BY <1>1, FreeReads, SetStep
<1>3. c = k \/ c = s
  BY DEF ClaimReserve, Reserved
<1> HIDE DEF k, c
<1>4. Near(k, "no", {a}) /\ Steady(g, k) /\ k.status[a] # "none" /\ k.at[a] \notin Done \cup {"none"}
  BY <1>2 DEF Amid
<1>5. k.status[a] = "stopped" /\ k.recov[a] = h.recov[a] /\ k.idle[a] = h.idle[a]
  BY <1>2 DEF Marked
<1>6. /\ Near(w, "no", {a}) /\ Steady(k, w)
      /\ w.status = k.status /\ w.at = k.at /\ w.recov = k.recov /\ w.idle = k.idle
  BY <1>1, <1>4, BudgetStopStep DEF Untouched
<1> HIDE DEF w
<1>7. Near(s, "no", {a}) /\ Steady(w, s) /\ Apart(w, s, Root)
  BY <1>1, <1>6, PeerStep
<1> HIDE DEF s
<1>8. s.status[a] = w.status[a] /\ s.at[a] = w.at[a] /\ s.recov[a] = w.recov[a] /\ s.idle[a] = w.idle[a]
  BY <1>7 DEF Apart, Same
<1>9. /\ Near(c, "no", {a}) /\ Steady(g, c)
      /\ c.status[a] = "stopped" /\ c.at[a] = k.at[a] /\ c.recov[a] = h.recov[a] /\ c.idle[a] = h.idle[a]
  <2>1. CASE c = k
    BY <1>4, <1>5, <2>1
  <2>2. CASE c = s
    BY <1>4, <1>5, <1>6, <1>7, <1>8, <2>2, SteadyTwice
  <2>3. QED
    BY <1>3, <2>1, <2>2
<1>10. Amid(g, c, a)
  BY <1>4, <1>9 DEF Amid
<1>11. Rests(c, a) /\ Leaves(c, a)
  BY <1>1, <1>9 DEF Rests, Leaves, Errors
<1>12. QED
  BY <1>10, <1>11, RaiseRests DEF c, k

\* Mail is taken first, if there is any.
LEMMA DrainFree ==
  ASSUME NEW g, NEW h, NEW a \in Agents, Free(g, h, a), NEW p \in Mids, NEW k, Fine(g, k)
  PROVE  Fine(g, Drain(h, a, p, k))
<1>1. Free(g, TakeMail(h, a), a)
  BY MailFree
<1>2. Fine(g, At(TakeMail(h, a), a, p))
  BY <1>1, PutFree
<1>3. QED
  BY <1>2 DEF Drain

\* A wait that is over, and one that is woken.
LEMMA ResumedFree ==
  ASSUME NEW g, NEW h, NEW a \in Agents, Free(g, h, a)
  PROVE  Fine(g, Resumed(h, a))
<1>1. "ready" \in Mids
  BY DEF Mids
<1>2. QED
  BY <1>1, RunFree, PutFree DEF Resumed

LEMMA WokenFree ==
  ASSUME NEW g, NEW h, NEW a \in Agents, Free(g, h, a)
  PROVE  Fine(g, Woken(h, a))
<1>1. "ready" \in Mids /\ "took" \in Mids
  BY DEF Mids
<1>2. Fine(g, Drain(h, a, "took", Resumed(h, a)))
  BY <1>1, ResumedFree, DrainFree
<1>3. Fine(g, At(h, a, "ready"))
  BY <1>1, PutFree
<1>4. QED
  BY <1>2, <1>3 DEF Woken

\* An event is cleared in the same step that found nothing to do.
LEMMA ArmedAlike ==
  ASSUME NEW g, NEW a \in Agents, Sound(g)
  PROVE  /\ Ready(Armed(g, a), a) <=> Ready(g, a)
         /\ Timed(Armed(g, a), a) <=> Timed(g, a)
<1>1. LET h == Armed(g, a) IN
      /\ Apart(g, h, a) /\ h.status[a] = g.status[a] /\ h.pend[a] = g.pend[a] /\ h.gate[a] = g.gate[a]
      /\ h.kind[a] = g.kind[a] /\ h.idle[a] = g.idle[a]
  BY ArmFields
<1>2. QED
  BY <1>1 DEF Apart, Scan, Ready, Timed

\* wait_for_agents with nothing to read.
LEMMA BlockFree ==
  ASSUME NEW g, NEW h, NEW a \in Agents, Free(g, h, a)
  PROVE  Fine(g, Block(h, a))
<1> DEFINE k == Park(h, a, "agents")
           m == Armed(k, a)
           p == "blocked"
<1>1. "ended" \in Mids /\ "ready" \in Mids /\ "agents" \in Kinds
  BY DEF Mids, Kinds
<1>2. Free(g, k, a)
  BY <1>1, ParkFree
<1>3. Fine(g, At(k, a, "ended")) /\ Fine(g, At(h, a, "ready"))
  BY <1>1, <1>2, PutFree
<1>4. Fine(g, Woken(k, a))
  BY <1>2, WokenFree
<1>5. ASSUME ~Interactive, ~Ready(k, a) PROVE Fine(g, At(m, a, p))
  <2> HIDE DEF k
  <2>1. Free(g, m, a) /\ Sound(k)
    BY <1>2, MailFree DEF Free, Amid, Near
  <2>2. ~Ready(m, a)
    BY <1>5, <2>1, ArmedAlike
  <2> HIDE DEF m
  <2>3. Amid(g, m, a) /\ Cycles(m, a)
    BY <2>1 DEF Free
  <2>4. m.recov[a] # RecoveryLimit /\ m.recov[a] <= RecoveryLimit
    BY <2>3, Counters, Limits DEF Cycles, Amid
  <2>5. p \in Points /\ p \notin {"none", "finishing", "check", "asleep", "dozing", "gone"} \cup Parked \cup Done
    BY DEF Points, Parked, Done
  <2>6. ASSUME Puts(m, At(m, a, p), a, p) PROVE Local(At(m, a, p), "no", a)
    <3> DEFINE n == At(m, a, p)
    <3> HIDE DEF n
    <3>1. /\ n.at[a] = p /\ n.status[a] = m.status[a] /\ n.stopped[a] = m.stopped[a] /\ n.recov[a] = m.recov[a]
          /\ n.idle[a] = m.idle[a] /\ n.pend[a] = m.pend[a] /\ n.gate[a] = m.gate[a] /\ Scan(m, n)
      BY <2>6 DEF Puts, Apart, n
    <3>2. ~Ready(n, a)
      BY <2>2, <3>1 DEF Ready, Scan
    <3>3. Local(n, "no", a)
      BY <1>5, <2>3, <2>4, <2>5, <3>1, <3>2 DEF Local, Cycles
    <3>4. QED
      BY <3>3 DEF n
  <2>7. QED
    BY <2>3, <2>5, <2>6, Lands
<1>6. Block(h, a) = (IF Interactive THEN At(k, a, "ended")
         ELSE IF ActiveOthers(h, a) = {} \/ WrappingUp(h) THEN At(h, a, "ready")
         ELSE IF Ready(k, a) THEN Woken(k, a) ELSE At(m, a, p))
  BY DEF Block, Armed
<1> HIDE DEF k, m
<1>7. QED
  BY <1>3, <1>4, <1>5, <1>6, Limits

-----------------------------------------------------------------------------
(* The loop between the cycles, of an interactive agent. *)

\* Where a step between two cycles begins.
LEMMA BeginRests ==
  ASSUME NEW g, Near(g, "no", {}), NEW a \in Agents, g.at[a] \in {"check", "asleep", "dozing"}
  PROVE  /\ Amid(g, g, a) /\ Rests(g, a) /\ Interactive
         /\ g.at[a] = "dozing" =>
              g.idle[a] < IdleLimit /\ g.recov[a] < RecoveryLimit /\ g.status[a] \notin Errors
<1>1. Local(g, "no", a) /\ Near(g, "no", {a}) /\ g.recov[a] \in Nat /\ RecoveryLimit \in Nat
  BY Counters, Limits DEF Near
<1>2. Interactive
  BY <1>1 DEF Local
<1>3. g.at[a] \notin Done \cup {"none"}
  BY DEF Done
<1>4. g.status[a] # "none"
  BY <1>3 DEF Near, Base
<1>5. Amid(g, g, a)
  BY <1>1, <1>3, <1>4, SteadyItself DEF Amid
<1>6. Rests(g, a)
  BY <1>1, <1>2 DEF Local, Rests
<1>7. g.at[a] = "dozing" =>
        g.idle[a] < IdleLimit /\ g.recov[a] < RecoveryLimit /\ g.status[a] \notin Errors
  BY <1>1, <1>2, <1>3 DEF Local, Parked
<1>8. QED
  BY <1>2, <1>5, <1>6, <1>7

\* The wait begins where nothing is ready, and the loop goes on otherwise.
LEMMA SleepRests ==
  ASSUME NEW g, NEW h, NEW a \in Agents, Amid(g, h, a), Rests(h, a), Interactive, ~Ready(h, a)
  PROVE  Fine(g, Sleep(h, a))
<1> DEFINE m == Armed(h, a)
           p == IF Timed(h, a) /\ ~h.paused THEN "dozing" ELSE "asleep"
           n == At(m, a, p)
<1>1. Sound(h)
  BY DEF Amid, Near
<1>2. Sound(m) /\ Quiet(h, m, a)
  <2>1. Sound(m)
    BY <1>1, ArmCalm, CalmSound DEF Armed
  <2>2. QED
    BY <1>1, <2>1, ArmFields DEF Quiet
<1>3. Amid(g, m, a) /\ Rests(m, a)
  BY <1>2, QuietStep
<1>4. ~Ready(m, a) /\ (Timed(m, a) <=> Timed(h, a))
  BY <1>1, ArmedAlike
<1>5. Sleep(h, a) = n
  BY DEF Sleep, Armed
<1>6. p = "asleep" \/ (p = "dozing" /\ Timed(m, a))
  BY <1>4
<1> HIDE DEF m, p
<1>7. p \in Points /\ p \notin {"none", "finishing", "check", "gone"} \cup Done
  BY <1>6 DEF Points, Done
<1>8. ASSUME Puts(m, n, a, p) PROVE Local(n, "no", a)
  <2> HIDE DEF n
  <2>1. /\ n.at[a] = p /\ n.status[a] = m.status[a] /\ n.stopped[a] = m.stopped[a] /\ n.recov[a] = m.recov[a]
        /\ n.idle[a] = m.idle[a] /\ n.pend[a] = m.pend[a] /\ n.gate[a] = m.gate[a] /\ n.kind[a] = m.kind[a]
        /\ n.told[a] = m.told[a] /\ Scan(m, n)
    BY <1>8 DEF Puts, Apart
  <2>2. ~Ready(n, a)
    BY <1>4, <2>1 DEF Ready, Scan
  <2>3. n.status[a] # "stopped"
    BY <2>2 DEF Ready
  <2>4. n.at[a] = "dozing" => n.status[a] = "waiting" /\ n.kind[a] = "agents" /\ n.idle[a] < IdleLimit
    BY <1>6, <2>1 DEF Timed
  <2>5. n.at[a] # "dozing" => n.at[a] \in Parked
    BY <1>6, <2>1 DEF Parked
  <2>6. n.at[a] = "dozing" => n.status[a] \notin Errors \cup {"stopped"} /\ n.recov[a] # RecoveryLimit
    BY <1>3, <2>1, <2>4 DEF Errors, Rests
  <2>7. n.at[a] \notin {"check", "gone", "none"} \cup Done
    BY <1>7, <2>1
  <2>8. /\ a # Root /\ n.status[a] \in Errors /\ ~n.bstop => n.told[a]
        /\ Interactive /\ n.status[a] \in Errors => n.gate[a]
        /\ n.recov[a] <= RecoveryLimit /\ n.idle[a] <= IdleLimit
        /\ n.recov[a] = RecoveryLimit => n.kind[a] # "agents" \/ n.status[a] \in Errors \cup {"stopped"}
    BY <1>3, <2>1 DEF Rests, Scan
  <2>9. QED
    BY <2>2, <2>3, <2>4, <2>5, <2>6, <2>7, <2>8 DEF Local
<1>9. Fine(g, n)
  BY <1>3, <1>7, <1>8, Lands
<1>10. QED
  BY <1>5, <1>9

LEMMA ContinueRests ==
  ASSUME NEW g, NEW h, NEW a \in Agents, Amid(g, h, a), Rests(h, a), Interactive
  PROVE  Fine(g, Continue(h, a))
<1>1. Fine(g, At(h, a, "check"))
  <2>1. Return(h, a) = At(h, a, "check")
    BY DEF Return
  <2>2. Fine(g, Return(h, a))
    BY ReturnRests
  <2>3. QED
    BY <2>1, <2>2
<1>2. ~Ready(h, a) => Fine(g, Sleep(h, a))
  BY SleepRests
<1>3. QED
  BY <1>1, <1>2 DEF Continue

\* A wake-up for nothing.
LEMMA ArmedStep ==
  ASSUME NEW g, Near(g, "no", {}), NEW a \in Agents, g.at[a] \in Sleeping, ~Ready(g, a)
  PROVE  Fine(g, Armed(g, a))
<1> DEFINE m == Armed(g, a)
<1>1. Sound(g) /\ Near(g, "no", {a}) /\ Local(g, "no", a) /\ g.at[a] \notin Done \cup {"none"}
  BY DEF Near, Sleeping, Done
<1>2. Amid(g, g, a)
  BY <1>1, SteadyItself DEF Amid, Near, Base
<1>3. /\ Apart(g, m, a) /\ m.status[a] = g.status[a] /\ m.at[a] = g.at[a] /\ m.kind[a] = g.kind[a]
      /\ m.gate[a] = g.gate[a] /\ m.told[a] = g.told[a] /\ m.stopped[a] = g.stopped[a] /\ m.recov[a] = g.recov[a]
      /\ m.idle[a] = g.idle[a]
  BY <1>1, ArmFields
<1>4. Sound(m) /\ Quiet(g, m, a)
  <2>1. Sound(m)
    BY <1>1, ArmCalm, CalmSound DEF Armed
  <2>2. QED
    BY <1>1, <2>1, ArmFields DEF Quiet
<1>5. ~Ready(m, a)
  BY <1>1, ArmedAlike
<1> HIDE DEF m
<1>6. Amid(g, m, a)
  BY <1>2, <1>4, QuietStep
<1>7. Local(m, "no", a)
  BY <1>1, <1>3, <1>5 DEF Local, Apart, Scan
<1>8. Near(m, "no", {}) /\ Steady(g, m)
  BY <1>6, <1>7, Back DEF Amid
<1>9. QED
  BY <1>8 DEF Fine, m

\* The task returns, to an agent that no error has parked.
LEMMA GoneRests ==
  ASSUME NEW g, NEW h, NEW a \in Agents, Amid(g, h, a), Rests(h, a), Interactive, h.status[a] \notin Errors
  PROVE  Fine(g, At(h, a, "gone"))
<1> DEFINE k == At(h, a, "gone")
<1>1. "gone" \in Points /\ "gone" \in Done /\ "gone" \notin Sleeping
  BY DEF Points, Sleeping, Done
<1>2. ASSUME Puts(h, k, a, "gone") PROVE Local(k, "no", a)
  <2> HIDE DEF k
  <2>1. /\ k.at[a] = "gone" /\ k.status[a] = h.status[a] /\ k.recov[a] = h.recov[a]
        /\ k.idle[a] = h.idle[a] /\ k.kind[a] = h.kind[a]
    BY <1>2 DEF Puts
  <2>2. QED
    BY <1>1, <2>1 DEF Local, Rests
<1>3. QED
  BY <1>1, <1>2, Lands

\* The next cycle.
LEMMA NextCycleFree ==
  ASSUME NEW g, NEW h, NEW a \in Agents, Free(g, h, a)
  PROVE  Fine(g, NextCycle(h, a))
<1>1. "draining" \in Mids
  BY DEF Mids
<1>2. Fine(g, Drive(h, a))
  BY DriveFree
<1>3. QED
  BY <1>1, <1>2, DrainFree DEF NextCycle

\* What a peer's message leaves of its reader.
Heard(g, h, to) ==
  /\ h.at[to] = g.at[to] /\ h.stopped[to] = g.stopped[to] /\ h.recov[to] = g.recov[to] /\ h.idle[to] = g.idle[to]
  /\ h.status[to] = Received(g, to, FALSE)

\* What a message of an agent leaves of its target.
LEMMA DeliverHeard ==
  ASSUME NEW g, Typed(g), NEW to \in Agents, NEW user \in BOOLEAN, ~user
  PROVE  Heard(g, Deliver(g, to, user), to)
<1> DEFINE h == Deliver(g, to, user)
<1>1. /\ Keeps(g, h, {"status", "pend", "wake", "gate", "told", "kind", "recov", "idle", "notices", "mail"})
      /\ h.status = [g.status EXCEPT ![to] = Received(g, to, user)]
      /\ h.recov = [g.recov EXCEPT ![to] = IF user THEN 0 ELSE @]
      /\ h.idle = [g.idle EXCEPT ![to] = IF user THEN 0 ELSE @]
  BY DEF Deliver, Typed, Fields, Keeps
<1> HIDE DEF h
<1>2. h.at = g.at /\ h.stopped = g.stopped
  BY <1>1 DEF Keeps, Fields
<1>3. user = FALSE
  OBVIOUS
<1>4. QED
  BY <1>1, <1>2, <1>3 DEF Typed, Heard, h

\* A nudge to itself, of an agent that waits without a pause.
LEMMA SelfSend ==
  ASSUME NEW g, NEW h, NEW a \in Agents, Free(g, h, a), ~h.paused
  PROVE  Free(g, Send(h, a, FALSE), a)
<1> DEFINE k == Send(h, a, FALSE)
<1>1. Amid(g, h, a) /\ Cycles(h, a) /\ Near(h, "no", {a}) /\ Typed(h) /\ "no" # "over"
  BY DEF Free, Amid, Near, Sound
<1>2. Near(k, "no", {a}) /\ Steady(h, k)
  BY <1>1, PeerStep
<1>3. k = h \/ k = Deliver(h, a, FALSE)
  BY DEF Send
<1>4. CASE k = h
  BY <1>4
<1>5. CASE k = Deliver(h, a, FALSE)
  <2> DEFINE s == Received(h, a, FALSE)
  <2>1. Heard(h, k, a)
    BY <1>1, <1>5, DeliverHeard
  <2>2. s = h.status[a] \/ (h.status[a] = "completed" /\ s = "running")
    BY DEF Received
  <2> HIDE DEF k, s
  <2>4. /\ k.status[a] = s /\ k.at[a] = h.at[a] /\ k.stopped[a] = h.stopped[a] /\ k.recov[a] = h.recov[a]
        /\ k.idle[a] = h.idle[a]
    BY <2>1 DEF Heard, s
  <2>5. k.status[a] # "none"
    BY <1>1, <2>2, <2>4 DEF Amid
  <2>6. Amid(g, k, a)
    BY <1>1, <1>2, <2>4, <2>5, SteadyTwice DEF Amid
  <2>7. Cycles(k, a)
    BY <1>1, <2>2, <2>4 DEF Cycles, Errors, Active
  <2>8. QED
    BY <2>6, <2>7 DEF Free, k
<1>6. QED
  BY <1>3, <1>4, <1>5

\* What wait_for_message came back with.
LEMMA DispatchRests ==
  ASSUME NEW g, NEW a \in Agents, Amid(g, g, a), Rests(g, a), Interactive, NEW woke \in Flags,
         Ready(g, a) \/ g.status[a] \notin Errors,
         ~woke => g.idle[a] < IdleLimit /\ g.recov[a] < RecoveryLimit
  PROVE  Fine(g, Dispatch(g, a, woke))
<1>1. Sound(g) /\ ~g.bstop /\ ~g.rstop /\ g.at[a] # "gone" /\ g.parks[a] = Interactive
  BY DEF Amid, Near, Sound, Base, Done
<1>2. CASE g.status[a] = "stopped"
  <2>1. g.status[a] \notin Errors
    BY <1>2 DEF Errors
  <2>2. QED
    BY <1>2, <2>1, GoneRests DEF Dispatch
<1>3. CASE g.status[a] # "stopped" /\ g.paused
  <2>1. FALSE \in Flags
    BY DEF Flags
  <2>2. Amid(g, PauseForBudget(g, a, FALSE), a) /\ Rests(PauseForBudget(g, a, FALSE), a)
    BY <2>1, PauseRests
  <2>3. Fine(g, Continue(g, a)) /\ Fine(g, Continue(PauseForBudget(g, a, FALSE), a))
    BY <2>2, ContinueRests
  <2>4. QED
    BY <1>1, <1>3, <2>3 DEF Dispatch
<1>4. CASE g.status[a] = "budget_paused" /\ ~g.paused
  BY <1>1, <1>4, ContinueRests DEF Dispatch
<1>5. CASE g.status[a] \notin Active \cup {"stopped", "budget_paused"} /\ ~g.paused
  <2>1. g.status[a] \notin Errors
    BY <1>1, <1>5 DEF Ready, Rests
  <2>2. QED
    BY <1>1, <1>5, <2>1, GoneRests DEF Dispatch
<1>6. CASE g.status[a] \in Active /\ ~g.paused
  <2>1. /\ g.status[a] \notin Errors \cup {"stopped", "budget_paused", "none", "completed"}
        /\ ~Unreachable(g, a) /\ RecoveryLimit \in Nat /\ RecoveryLimit > 0 /\ IdleLimit \in Nat
        /\ g.recov[a] \in Nat /\ g.idle[a] \in Nat
    BY <1>1, <1>6, Counters, Limits DEF Active, Errors, Unreachable, Amid
  <2>2. CASE woke
    <3>1. Amid(g, Refreshed(g, a), a) /\ Recounts(g, Refreshed(g, a), a, 0, 0)
      BY CounterSteps
    <3>2. Cycles(Refreshed(g, a), a)
      BY <1>6, <2>1, <3>1 DEF Cycles, Recounts
    <3>3. Fine(g, NextCycle(Refreshed(g, a), a))
      BY <3>1, <3>2, NextCycleFree DEF Free
    <3>4. Dispatch(g, a, woke) = NextCycle(Refreshed(g, a), a)
      BY <1>1, <1>6, <2>1, <2>2 DEF Dispatch, Refreshed
    <3>5. QED
      BY <3>3, <3>4
  <2>3. CASE ~woke
    <3> DEFINE h == Idled(g, a)
               k == Park(h, a, "stalled")
               n == NotifyStall(k, a)
    <3>1. Amid(g, h, a) /\ Recounts(g, h, a, g.recov[a], g.idle[a] + 1)
      BY CounterSteps
    <3>2. Dispatch(g, a, woke) = (IF h.idle[a] >= IdleLimit THEN Continue(n, a) ELSE NextCycle(Send(h, a, FALSE), a))
      BY <1>1, <1>6, <2>1, <2>3 DEF Dispatch, Idled
    <3> HIDE DEF h
    <3>3. /\ h.status[a] = g.status[a] /\ h.at[a] = g.at[a] /\ h.stopped[a] = g.stopped[a]
          /\ h.recov[a] = g.recov[a] /\ h.idle[a] = g.idle[a] + 1 /\ h.parks[a] = g.parks[a]
      BY <3>1 DEF Recounts
    <3>4. h.idle[a] <= IdleLimit /\ h.recov[a] < RecoveryLimit /\ h.recov[a] <= RecoveryLimit /\ h.recov[a] # RecoveryLimit
      BY <2>1, <2>3, <3>3
    <3>5. ~h.paused
      BY <1>6, <3>1 DEF Recounts, Apart, Scan
    <3>6. Free(g, h, a)
      BY <1>6, <2>1, <3>1, <3>3, <3>4 DEF Free, Cycles
    <3>7. Fine(g, NextCycle(Send(h, a, FALSE), a))
      BY <3>5, <3>6, SelfSend, NextCycleFree
    <3>8. "stalled" \in Kinds /\ "no" # "over"
      BY DEF Kinds
    <3>9. Free(g, k, a)
      BY <3>6, <3>8, ParkFree
    <3> HIDE DEF k
    <3>10. Amid(g, k, a) /\ Rests(k, a)
      BY <3>9, FreeRests
    <3>11. Near(k, "no", {a}) /\ Steady(g, k) /\ k.status[a] # "none" /\ k.at[a] \notin Done \cup {"none"}
      BY <3>10 DEF Amid
    <3>12. Near(n, "no", {a}) /\ Steady(k, n) /\ Alike(k, n, a) /\ (k.told[a] => n.told[a])
      BY <3>8, <3>11, NoticeStep
    <3> HIDE DEF n
    <3>13. Amid(g, n, a)
      BY <3>11, <3>12, SteadyTwice DEF Amid, Alike
    <3>14. Rests(n, a)
      BY <3>10, <3>12 DEF Rests, Alike, Steady
    <3>15. Fine(g, Continue(n, a))
      BY <3>13, <3>14, ContinueRests
    <3>16. QED
      BY <3>2, <3>7, <3>15
  <2>4. QED
    BY <2>2, <2>3
<1>7. QED
  BY <1>2, <1>3, <1>4, <1>5, <1>6

-----------------------------------------------------------------------------
(* The steps of the tasks. *)

\* Between two cycles.
LEMMA LoopStep ==
  ASSUME Near(graph, "no", {}), NEW a \in Agents, Loop(a)
  PROVE  Fine(graph, graph')
<1>0. "enter" \in Mids /\ "draining" \in Mids /\ "nudging" \in Mids /\ TRUE \in Flags
  BY DEF Mids, Flags
<1>1. CASE Enter(a)
  <2>1. Free(graph, graph, a)
    BY <1>0, <1>1, BeginFree DEF Enter
  <2>2. graph.bstop \/ graph.rstop => Fine(graph, Quit(graph, a))
    BY <2>1, QuitFree
  <2>3. Interactive => Fine(graph, PauseAt(graph, a))
    BY <2>1, FreeRests, PauseAtRests
  <2>4. Fine(graph, Drive(graph, a))
    BY <2>1, DriveFree
  <2>5. Fine(graph, Drain(graph, a, "draining", Drive(graph, a)))
    BY <1>0, <2>1, <2>4, DrainFree
  <2>6. QED
    BY <1>1, <2>2, <2>3, <2>5 DEF Enter
<1>2. CASE Drained(a)
  <2>1. Free(graph, graph, a)
    BY <1>0, <1>2, BeginFree DEF Drained
  <2>2. Free(graph, ReturnMail(graph, a), a)
    BY <2>1, MailFree
  <2>3. Fine(graph, Drive(graph, a)) /\ Fine(graph, Drive(ReturnMail(graph, a), a))
    BY <2>1, <2>2, DriveFree
  <2>4. QED
    BY <1>2, <2>3 DEF Drained
<1>3. CASE Nudged(a)
  <2>1. Free(graph, graph, a)
    BY <1>0, <1>3, BeginFree DEF Nudged
  <2>2. Fine(graph, Drive(graph, a)) /\ Fine(graph, Raise(graph, a))
    BY <2>1, DriveFree, FreeRests, RaiseRests
  <2>3. QED
    BY <1>3, <2>2 DEF Nudged
<1>4. CASE Check(a)
  <2>1. Amid(graph, graph, a) /\ Rests(graph, a) /\ Interactive
    BY <1>4, BeginRests DEF Check
  <2>2. Ready(graph, a) => Fine(graph, Dispatch(graph, a, TRUE))
    BY <1>0, <2>1, DispatchRests
  <2>3. ~Ready(graph, a) => Fine(graph, Sleep(graph, a))
    BY <2>1, SleepRests
  <2>4. QED
    BY <1>4, <2>2, <2>3 DEF Check
<1>5. CASE Wake(a)
  <2>1. graph.at[a] \in {"check", "asleep", "dozing"} /\ graph.at[a] \in Sleeping
    BY <1>5 DEF Wake, Sleeping
  <2>2. Amid(graph, graph, a) /\ Rests(graph, a) /\ Interactive
    BY <2>1, BeginRests
  <2>3. Ready(graph, a) => Fine(graph, Dispatch(graph, a, TRUE))
    BY <1>0, <2>2, DispatchRests
  <2>4. ~Ready(graph, a) => Fine(graph, Armed(graph, a))
    BY <2>1, ArmedStep
  <2>5. QED
    BY <1>5, <2>3, <2>4 DEF Wake, Armed
<1>6. QED
  BY <1>1, <1>2, <1>3, <1>4, <1>5 DEF Loop

\* A timer.
LEMMA TimerStep ==
  ASSUME Near(graph, "no", {}), NEW a \in Agents, Timer(a)
  PROVE  Fine(graph, graph')
<1>1. CASE BlockedTimesOut(a)
  <2>1. Free(graph, graph, a)
    BY <1>1, BeginFree DEF BlockedTimesOut
  <2>2. QED
    BY <1>1, <2>1, ResumedFree DEF BlockedTimesOut
<1>2. CASE TimesOut(a)
  <2>1. /\ Amid(graph, graph, a) /\ Rests(graph, a) /\ Interactive /\ FALSE \in Flags
        /\ graph.idle[a] < IdleLimit /\ graph.recov[a] < RecoveryLimit /\ graph.status[a] \notin Errors
    BY <1>2, BeginRests DEF TimesOut, Flags
  <2>2. Fine(graph, Dispatch(graph, a, FALSE))
    BY <2>1, DispatchRests
  <2>3. QED
    BY <1>2, <2>2 DEF TimesOut
<1>3. QED
  BY <1>1, <1>2 DEF Timer

\* The end of a run, of an agent that is at work, was stopped, or has completed.
LEMMA EndedStep ==
  ASSUME NEW g, Near(g, "no", {}), NEW a \in Agents, g.at[a] = "ended"
  PROVE  Fine(g, AfterCycle(g, a))
<1>1. CASE g.status[a] # "completed"
  <2>1. g.at[a] \in Mids
    BY DEF Mids
  <2>2. Free(g, g, a)
    BY <1>1, <2>1, BeginFree
  <2>3. QED
    BY <2>2, AfterFree
<1>2. CASE g.status[a] = "completed"
  <2>1. Local(g, "no", a) /\ Near(g, "no", {a}) /\ g.at[a] \notin Done \cup {"none"} \cup Parked /\ g.status[a] \notin Errors
    BY <1>2 DEF Near, Done, Parked, Errors
  <2>2. Amid(g, g, a)
    BY <1>2, <2>1, SteadyItself DEF Amid
  <2>3. Rests(g, a)
    BY <2>1 DEF Local, Rests
  <2>4. QED
    BY <1>2, <2>2, <2>3, AfterStep
<1>3. QED
  BY <1>1, <1>2

\* A turn of the model.
LEMMA TurnStep ==
  ASSUME Near(graph, "no", {}), NEW a \in Agents, Turn(a)
  PROVE  Fine(graph, graph')
<1> DEFINE c == Claimed(graph, a)
<1>0. /\ {"prep", "ready", "call", "act", "ended", "salvaging_failed", "salvaging_crashed", "salvaging_stopped",
           "enter"} \subseteq Mids
      /\ {"failed", "crashed", "stopped"} \subseteq Errors \cup {"stopped"}
  BY DEF Mids, Errors
<1>1. ASSUME graph.at[a] \in {"prep", "ready", "call", "salvaging_failed", "salvaging_crashed", "salvaging_stopped"}
      PROVE  Free(graph, graph, a)
  <2>1. graph.at[a] \in Mids /\ graph.at[a] # "ended"
    BY <1>0, <1>1
  <2>2. QED
    BY <2>1, BeginFree
<1>2. ASSUME NEW h, Free(graph, h, a)
      PROVE  /\ \A p \in Mids : Fine(graph, At(h, a, p))
             /\ Interactive => Fine(graph, PauseAt(h, a))
             /\ Fine(graph, OutOfBudget(h, a)) /\ Fine(graph, AfterCycle(h, a)) /\ Fine(graph, Start(h, a))
             /\ \A s \in Errors \cup {"stopped"} : Fine(graph, Fail(h, a, s)) /\ Fine(graph, Settle(h, a, s))
  BY <1>2, PutFree, FreeRests, PauseAtRests, OutOfBudgetFree, AfterFree, StartFree, FailFree
<1>3. CASE Attach(a)
  <2>1. Free(graph, graph, a)
    BY <1>1, <1>3 DEF Attach
  <2>2. QED
    BY <1>0, <1>2, <1>3, <2>1 DEF Attach
<1>4. CASE StartTurn(a)
  <2>1. Free(graph, graph, a)
    BY <1>1, <1>4 DEF StartTurn
  <2>2. /\ Fine(graph, At(graph, a, "ended")) /\ Fine(graph, At(graph, a, "salvaging_crashed"))
        /\ Fine(graph, At(graph, a, "salvaging_stopped")) /\ (Interactive => Fine(graph, PauseAt(graph, a)))
    BY <1>0, <1>2, <2>1
  <2>3. graph.turns[a] # TurnLimit => Fine(graph, At(c, a, "call")) /\ Fine(graph, OutOfBudget(c, a))
    <3> HIDE DEF c
    <3>1. graph.turns[a] # TurnLimit => Free(graph, c, a)
      BY <2>1, MailFree DEF c
    <3>2. QED
      BY <1>0, <1>2, <3>1
  <2>4. \/ graph' = At(graph, a, "ended") \/ (Interactive /\ graph' = PauseAt(graph, a))
        \/ graph' = At(graph, a, "salvaging_crashed") \/ graph' = At(graph, a, "salvaging_stopped")
        \/ graph.turns[a] # TurnLimit /\ (graph' = At(c, a, "call") \/ graph' = OutOfBudget(c, a))
    BY <1>4 DEF StartTurn
  <2>5. QED
    BY <2>2, <2>3, <2>4
<1>5. CASE BudgetReached(a)
  <2>1. Free(graph, graph, a)
    BY <1>1, <1>5 DEF BudgetReached
  <2>2. QED
    BY <1>2, <1>5, <2>1 DEF BudgetReached
<1>6. CASE ReserveReached(a)
  <2>1. Free(graph, graph, a)
    BY <1>1, <1>6 DEF ReserveReached
  <2>2. QED
    BY <1>6, <2>1, ReserveFree DEF ReserveReached
<1>7. CASE Answered(a)
  <2>1. Free(graph, graph, a)
    BY <1>1, <1>7 DEF Answered
  <2>2. Fine(graph, At(graph, a, "act")) /\ Fine(graph, At(graph, a, "ended"))
    BY <1>0, <1>2, <2>1
  <2>3. QED
    BY <1>7, <2>2 DEF Answered
<1>8. CASE CallFails(a)
  <2>1. Free(graph, graph, a)
    BY <1>1, <1>8 DEF CallFails
  <2>2. /\ Fine(graph, At(graph, a, "salvaging_failed")) /\ Fine(graph, At(graph, a, "salvaging_crashed"))
        /\ Fine(graph, Start(graph, a))
    BY <1>0, <1>2, <2>1
  <2>3. QED
    BY <1>8, <2>2 DEF CallFails
<1>9. CASE Salvaged(a)
  <2>1. Free(graph, graph, a)
    BY <1>1, <1>9 DEF Salvaged
  <2>2. /\ \A s \in {"failed", "crashed", "stopped"} : Fine(graph, Settle(graph, a, s))
        /\ Fine(graph, Fail(graph, a, "failed"))
    BY <1>0, <1>2, <2>1
  <2>3. ASSUME NEW k \in TakenOver(graph, a) PROVE Fine(graph, k)
    <3> DEFINE d == [graph EXCEPT !.delegate = TRUE]
    <3>1. k = At(d, a, "enter")
      BY <2>3 DEF TakenOver
    <3>2. Free(graph, d, a)
      <4>1. Sound(graph) /\ Amid(graph, graph, a) /\ Cycles(graph, a) /\ Typed(graph)
        BY <2>1 DEF Free, Amid, Near, Sound
      <4>2. Sound(d)
        BY <4>1, DelegateCalm, CalmSound
      <4>3. Keeps(graph, d, {"delegate"})
        BY <4>1 DEF Typed, Fields, Keeps
      <4> HIDE DEF d
      <4>4. Quiet(graph, d, a)
        BY <4>3 DEF Keeps, Fields, Quiet, Apart, Same, Scan
      <4>5. QED
        BY <4>1, <4>2, <4>4, QuietStep DEF Free
    <3> HIDE DEF d
    <3>3. QED
      BY <1>0, <1>2, <3>1, <3>2
  <2>4. QED
    BY <1>9, <2>2, <2>3 DEF Salvaged
<1>10. CASE EndCycle(a)
  BY <1>10, EndedStep DEF EndCycle
<1>11. QED
  BY <1>3, <1>4, <1>5, <1>6, <1>7, <1>8, <1>9, <1>10 DEF Turn

-----------------------------------------------------------------------------
(* The tools. *)

\* Fine steps compose.
LEMMA FineTwice == ASSUME NEW g, NEW h, NEW k, Fine(g, h), Near(k, "no", {}), Steady(h, k) PROVE Fine(g, k)
BY SteadyTwice DEF Fine

\* The completion report of a child.
LEMMA ReportFree ==
  ASSUME NEW g, NEW h, NEW a \in Agents, Free(g, h, a), a # Root
  PROVE  Free(g, Report(h, a), a)
<1> DEFINE k == Report(h, a)
<1>1. Near(h, "no", {a}) /\ Steady(g, h) /\ h.status[a] # "none" /\ h.at[a] \notin Done \cup {"none"} /\ "no" # "over"
  BY DEF Free, Amid
<1>2. Near(k, "no", {a}) /\ Steady(h, k) /\ Alike(h, k, a)
  BY <1>1, NoticeStep
<1> HIDE DEF k
<1>3. Amid(g, k, a)
  BY <1>1, <1>2, SteadyTwice DEF Amid, Alike
<1>4. Cycles(k, a)
  BY <1>2 DEF Free, Cycles, Alike
<1>5. QED
  BY <1>3, <1>4 DEF Free, k

\* A run that completes its agent's task, unless it was stopped.
LEMMA CompletedEnds ==
  ASSUME NEW g, NEW h, NEW a \in Agents, Free(g, h, a)
  PROVE  Fine(g, At(SetStatus(h, a, "completed"), a, "ended"))
<1> DEFINE k == SetStatus(h, a, "completed")
           n == At(k, a, "ended")
<1>1. Amid(g, h, a) /\ Rests(h, a) /\ h.recov[a] # RecoveryLimit
      /\ "completed" \in Ends /\ {"completed", "stopped"} \cap Errors = {}
  BY FreeRests, Counters, Limits DEF Ends, Errors, Free, Amid, Cycles
<1>2. Amid(g, k, a) /\ Marked(h, k, a, "completed")
  BY <1>1, FreeReads, SetStep
<1> HIDE DEF k
<1>3. /\ k.recov[a] = h.recov[a] /\ k.idle[a] = h.idle[a] /\ k.stopped[a] = h.stopped[a]
      /\ IF h.stopped[a] THEN k.status[a] = "stopped" ELSE k.status[a] = "completed"
  BY <1>2 DEF Marked
<1>4. "ended" \in Points
      /\ "ended" \notin {"none", "finishing", "check", "asleep", "dozing", "gone"} \cup Sleeping \cup Parked \cup Done
  BY DEF Points, Sleeping, Parked, Done
<1>5. ASSUME Puts(k, n, a, "ended") PROVE Local(n, "no", a)
  <2> HIDE DEF n
  <2>1. /\ n.at[a] = "ended" /\ n.status[a] = k.status[a] /\ n.stopped[a] = k.stopped[a] /\ n.recov[a] = k.recov[a]
        /\ n.idle[a] = k.idle[a]
    BY <1>5 DEF Puts
  <2>2. QED
    BY <1>1, <1>3, <1>4, <2>1 DEF Local, Rests
<1>6. Fine(g, n)
  BY <1>2, <1>4, <1>5, Lands
<1>7. QED
  BY <1>6 DEF k

\* The report is being written, which no other agent's step sets off.
LEMMA FinishingNear ==
  ASSUME NEW g, Near(g, "no", {}), NEW a \in Agents, g.at[a] = "act"
  PROVE  Near(At(g, a, "finishing"), "no", {})
<1> DEFINE n == At(g, a, "finishing")
<1>1. "finishing" \in Points
      /\ "finishing" \notin {"none", "check", "asleep", "dozing", "gone"} \cup Sleeping \cup Parked \cup Done
      /\ "act" \in Mids /\ Sound(g)
  BY DEF Points, Sleeping, Parked, Done, Mids, Near
<1>2. Free(g, g, a)
  BY <1>1, BeginFree
<1>3. Puts(g, n, a, "finishing")
  BY <1>1, AtPuts
<1>4. Sound(n)
  BY <1>1, AtCalm, CalmSound
<1> HIDE DEF n
<1>5. /\ n.at[a] = "finishing" /\ n.status[a] = g.status[a] /\ n.stopped[a] = g.stopped[a] /\ n.recov[a] = g.recov[a]
      /\ n.idle[a] = g.idle[a] /\ n.told[a] = g.told[a] /\ n.notices[a] = g.notices[a] /\ n.parks[a] = g.parks[a]
      /\ Apart(g, n, a)
  BY <1>3 DEF Puts
<1>6. g.recov[a] # RecoveryLimit /\ g.recov[a] <= RecoveryLimit /\ Cycles(g, a) /\ g.status[a] # "none"
  BY <1>2, Counters, Limits DEF Free, Amid, Cycles
<1>7. Local(n, "no", a)
  BY <1>1, <1>5, <1>6 DEF Local, Cycles
<1>8. /\ n.status[a] # "none" /\ a # Root => g.status[Parent[a]] # "none"
      /\ n.told[a] /\ a # Root => n.notices[a] > 0 \/ Unreachable(g, Parent[a])
      /\ Unreachable(g, a) => Unreachable(n, a)
  BY <1>5 DEF Near, Base, Children, Unreachable
<1>9. Near(n, "no", {})
  BY <1>4, <1>5, <1>6, <1>7, <1>8, OneNear
<1>10. QED
  BY <1>9 DEF n

\* A new agent, of a parent that is at work or was stopped in its turn.
LEMMA RegisterNear ==
  ASSUME NEW g, Near(g, "no", {}), NEW b \in Children, g.status[b] = "none", g.status[Parent[b]] # "none"
  PROVE  /\ Near(Register(g, b), "no", {}) /\ Apart(g, Register(g, b), b)
         /\ Register(g, b).status[b] = "running" /\ Register(g, b).at[b] = "enter"
<1> DEFINE n == Register(g, b)
<1>1. Sound(g) /\ Typed(g) /\ Local(g, "no", b) /\ b \in Agents /\ b # Root /\ g.at[b] = "none"
  BY DEF Near, Sound, Children, Base
<1>2. Sound(n)
  BY <1>1, RegisterCalm, CalmSound
<1>3. /\ Keeps(g, n, {"status", "at"}) /\ n.status = [g.status EXCEPT ![b] = "running"]
      /\ n.at = [g.at EXCEPT ![b] = "enter"]
  BY <1>1 DEF Register, Typed, Fields, Keeps
<1> HIDE DEF n
<1>4. /\ n.kind = g.kind /\ n.gate = g.gate /\ n.wake = g.wake /\ n.pend = g.pend /\ n.told = g.told
      /\ n.stopped = g.stopped /\ n.parks = g.parks /\ n.recov = g.recov /\ n.idle = g.idle
      /\ n.notices = g.notices /\ n.paused = g.paused /\ n.bstop = g.bstop /\ n.rstop = g.rstop
  BY <1>3 DEF Keeps, Fields
<1>5. Apart(g, n, b) /\ n.status[b] = "running" /\ n.at[b] = "enter"
  BY <1>1, <1>3, <1>4 DEF Apart, Scan, Same, Typed
<1>6. "enter" \notin {"none", "check", "asleep", "dozing", "gone"} \cup Sleeping \cup Parked \cup Done
      /\ "none" \notin Parked \cup Done
  BY DEF Sleeping, Parked, Done
<1>7. g.recov[b] # RecoveryLimit
  BY <1>1, <1>6 DEF Local
<1>8. Local(n, "no", b)
  BY <1>1, <1>4, <1>5, <1>6, <1>7 DEF Local, Active, Errors
<1>9. n.told[b] => n.notices[b] > 0 \/ Unreachable(g, Parent[b])
  BY <1>4 DEF Near, Base
<1>10. ~Unreachable(g, b)
  BY <1>1 DEF Unreachable, Errors
<1>11. Near(n, "no", {})
  BY <1>1, <1>2, <1>4, <1>5, <1>8, <1>9, <1>10, OneNear
<1>12. QED
  BY <1>5, <1>11 DEF n

\* The gate of finish_scan lets the root through to its report.
ReportOpens(a) ==
  /\ a = Root /\ graph.at[a] = "act" /\ (ActiveOthers(graph, a) = {} \/ graph.rstop)
  /\ graph' = At(graph, a, "finishing")

\* A tool. Only the registration of an agent and the start of the report are not steady.
LEMMA ToolStep ==
  ASSUME Near(graph, "no", {}), NEW a \in Agents, Tool(a)
  PROVE  Near(graph', "no", {}) /\ (Steady(graph, graph') \/ CreateAgent(a) \/ ReportOpens(a))
<1> DEFINE Goal == Near(graph', "no", {}) /\ (Steady(graph, graph') \/ CreateAgent(a) \/ ReportOpens(a))
<1>0. /\ {"act", "ready", "ended", "taking_user", "taking_agents", "took"} \subseteq Mids
      /\ {"user", "agents"} \subseteq Kinds /\ "no" # "over"
  BY DEF Mids, Kinds
<1>1. ASSUME graph.at[a] \in {"act", "taking_user", "taking_agents", "took", "blocked", "finishing"}
      PROVE  Free(graph, graph, a)
  <2>1. graph.at[a] \in Mids \cup {"blocked", "dozing", "finishing"} /\ graph.at[a] # "ended"
    BY <1>0, <1>1
  <2>2. QED
    BY <2>1, BeginFree
<1>2. ASSUME NEW h, Free(graph, h, a) PROVE \A p \in Mids : Fine(graph, At(h, a, p))
  BY <1>2, PutFree
<1>3. ASSUME Fine(graph, graph') PROVE Goal
  BY <1>3 DEF Fine
<1>4. ASSUME graph.at[a] = "act"
      PROVE  /\ Free(graph, graph, a)
             /\ Fine(graph, At(graph, a, "ready"))
             /\ \A b \in Agents : Fine(graph, SendNow(At(graph, a, "ready"), b, FALSE))
             /\ \A b \in Agents : Fine(graph, StopTree(At(graph, a, "ready"), b))
             /\ \A b \in Agents : Fine(graph, RequestStop(At(graph, a, "ready"), b, FALSE))
  <2> DEFINE r == At(graph, a, "ready")
  <2>1. Free(graph, graph, a) /\ Fine(graph, r)
    BY <1>0, <1>1, <1>2, <1>4
  <2>2. Near(r, "no", {})
    BY <2>1 DEF Fine
  <2> HIDE DEF r
  <2>3. ASSUME NEW b \in Agents PROVE Fine(graph, SendNow(r, b, FALSE))
    <3>1. Near(SendNow(r, b, FALSE), "no", {}) /\ Steady(r, SendNow(r, b, FALSE))
      BY <1>0, <2>2, PeerStep
    <3>2. QED
      BY <2>1, <3>1, FineTwice
  <2>4. ASSUME NEW b \in Agents PROVE Fine(graph, StopTree(r, b))
    <3>1. Near(StopTree(r, b), "no", {}) /\ Steady(r, StopTree(r, b))
      BY <1>0, <2>2, TreeStep
    <3>2. QED
      BY <2>1, <3>1, FineTwice
  <2>5. ASSUME NEW b \in Agents PROVE Fine(graph, RequestStop(r, b, FALSE))
    <3>1. Near(RequestStop(r, b, FALSE), "no", {}) /\ Steady(r, RequestStop(r, b, FALSE))
      BY <1>0, <2>2, RequestStopStep
    <3>2. QED
      BY <2>1, <3>1, FineTwice
  <2>6. QED
    BY <2>1, <2>3, <2>4, <2>5 DEF r
<1>5. CASE UseTool(a)
  BY <1>3, <1>4, <1>5 DEF UseTool
<1>6. CASE CreateAgent(a)
  <2>1. PICK b \in Children : Parent[b] = a /\ graph.status[b] = "none" /\ graph' = At(Register(graph, b), a, "ready")
    BY <1>6 DEF CreateAgent
  <2> DEFINE n == Register(graph, b)
  <2>2. graph.at[a] = "act"
    BY <1>6 DEF CreateAgent
  <2>3. graph.status[a] # "none"
    BY <1>4, <2>2 DEF Free, Amid
  <2>4. Near(n, "no", {}) /\ Apart(graph, n, b)
    BY <2>1, <2>3, RegisterNear
  <2> HIDE DEF n
  <2>5. a # b
    BY <2>1, <2>3
  <2>6. n.at[a] = "act"
    BY <2>2, <2>4, <2>5 DEF Apart, Same
  <2>7. n.at[a] \in Mids /\ n.at[a] # "ended"
    BY <1>0, <2>6
  <2>8. Free(n, n, a)
    BY <2>4, <2>7, BeginFree
  <2>9. Fine(n, At(n, a, "ready"))
    BY <1>0, <2>8, PutFree
  <2>10. QED
    BY <1>6, <2>1, <2>9 DEF Fine, n
<1>7. CASE SendMessage(a)
  BY <1>3, <1>4, <1>7 DEF SendMessage
<1>8. CASE StopAgent(a)
  BY <1>3, <1>4, <1>8 DEF StopAgent
<1>9. CASE AgentFinish(a)
  <2>1. Free(graph, graph, a) /\ a # Root
    BY <1>4, <1>9 DEF AgentFinish
  <2>2. Free(graph, Report(graph, a), a)
    BY <2>1, ReportFree
  <2>3. /\ Fine(graph, At(SetStatus(graph, a, "completed"), a, "ended"))
        /\ Fine(graph, At(SetStatus(Report(graph, a), a, "completed"), a, "ended"))
    BY <2>1, <2>2, CompletedEnds
  <2>4. QED
    BY <1>3, <1>9, <2>3 DEF AgentFinish
<1>10. CASE FinishScan(a)
  <2>1. graph.at[a] = "act" => Fine(graph, At(graph, a, "ready")) /\ Near(At(graph, a, "finishing"), "no", {})
    BY <1>4, FinishingNear DEF Fine
  <2>2. graph.at[a] = "finishing" => /\ Fine(graph, At(graph, a, "ready"))
                                     /\ Fine(graph, At(SetStatus(graph, a, "completed"), a, "ended"))
    BY <1>0, <1>1, <1>2, CompletedEnds
  <2>3. CASE graph.at[a] = "act"
    <3>1. a = Root /\ graph' = At(graph, a, IF ActiveOthers(graph, a) = {} \/ graph.rstop THEN "finishing" ELSE "ready")
      BY <1>10, <2>3 DEF FinishScan
    <3>2. CASE ActiveOthers(graph, a) = {} \/ graph.rstop
      BY <2>1, <2>3, <3>1, <3>2 DEF ReportOpens
    <3>3. CASE ~(ActiveOthers(graph, a) = {} \/ graph.rstop)
      BY <1>3, <2>1, <2>3, <3>1, <3>3
    <3>4. QED
      BY <3>2, <3>3
  <2>4. CASE graph.at[a] # "act"
    BY <1>3, <1>10, <2>2, <2>4 DEF FinishScan
  <2>5. QED
    BY <2>3, <2>4
<1>11. CASE RespondToUser(a)
  <2>1. Free(graph, graph, a) /\ Fine(graph, At(graph, a, "ready"))
    BY <1>4, <1>11 DEF RespondToUser
  <2>2. Free(graph, Park(graph, a, "user"), a)
    BY <1>0, <2>1, ParkFree
  <2>3. Fine(graph, At(Park(graph, a, "user"), a, "ended"))
    BY <1>0, <1>2, <2>2
  <2>4. Fine(graph, Drain(graph, a, "taking_user", At(Park(graph, a, "user"), a, "ended")))
    BY <1>0, <2>1, <2>3, DrainFree
  <2>5. QED
    BY <1>3, <1>11, <2>1, <2>4 DEF RespondToUser
<1>12. CASE WaitForAgents(a)
  <2>1. Free(graph, graph, a) /\ Fine(graph, At(graph, a, "ready"))
    BY <1>4, <1>12 DEF WaitForAgents
  <2>2. Fine(graph, Block(graph, a))
    BY <2>1, BlockFree
  <2>3. Fine(graph, Drain(graph, a, "taking_agents", Block(graph, a)))
    BY <1>0, <2>1, <2>2, DrainFree
  <2>4. QED
    BY <1>3, <1>12, <2>1, <2>3 DEF WaitForAgents
<1>13. CASE Taken(a)
  <2> DEFINE r == ReturnMail(graph, a)
  <2>1. Free(graph, graph, a)
    BY <1>1, <1>13 DEF Taken
  <2>2. Free(graph, r, a)
    BY <2>1, MailFree
  <2> HIDE DEF r
  <2>3. Fine(graph, Resumed(graph, a)) /\ Fine(graph, Resumed(r, a)) /\ Fine(graph, Block(r, a))
    BY <2>1, <2>2, ResumedFree, BlockFree
  <2>4. Free(graph, Park(r, a, "user"), a)
    BY <1>0, <2>2, ParkFree
  <2>5. Fine(graph, At(Park(r, a, "user"), a, "ended"))
    BY <1>0, <1>2, <2>4
  <2>6. QED
    BY <1>3, <1>13, <2>3, <2>5 DEF Taken, r
<1>14. CASE BlockedWakes(a)
  <2>1. Free(graph, graph, a) /\ graph.at[a] \in Sleeping
    BY <1>1, <1>14 DEF BlockedWakes, Sleeping
  <2>2. Fine(graph, Woken(graph, a)) /\ (~Ready(graph, a) => Fine(graph, Armed(graph, a)))
    BY <2>1, WokenFree, ArmedStep
  <2>3. QED
    BY <1>3, <1>14, <2>2 DEF BlockedWakes, Armed
<1>15. QED
  BY <1>5, <1>6, <1>7, <1>8, <1>9, <1>10, <1>11, <1>12, <1>13, <1>14 DEF Tool

-----------------------------------------------------------------------------
(* The operator, the deadline and the end of the scan. *)

\* Only the flags of the scan have changed that no agent's place depends on.
LEMMA FlagStep ==
  ASSUME NEW g, NEW e, NEW X, Near(g, e, X), NEW h, Sound(h), Keeps(g, h, {"closing", "clock"})
  PROVE  Near(h, e, X) /\ Steady(g, h) /\ h.at = g.at /\ h.status = g.status
<1>1. Scan(g, h) /\ \A b \in Agents : Same(g, h, b)
  BY DEF Keeps, Fields, Scan, Same
<1>2. h.at = g.at /\ h.status = g.status /\ h.parks = g.parks /\ h.told = g.told /\ h.notices = g.notices
      /\ h.bstop = g.bstop /\ h.rstop = g.rstop
  BY DEF Keeps, Fields
<1>3. \A b : Unreachable(h, b) <=> Unreachable(g, b)
  BY <1>2 DEF Unreachable
<1>4. Base(h)
  BY <1>2, <1>3 DEF Near, Base
<1>5. Steady(g, h)
  BY <1>2, <1>3 DEF Steady
<1>6. \A b \in Agents \ X : Local(h, e, b)
  BY <1>1, LocalSame DEF Near
<1>7. QED
  BY <1>2, <1>4, <1>5, <1>6 DEF Near

\* The end of the scan is in progress once the root's task is done.
LEMMA EndStep ==
  ASSUME NEW g, NEW e, e # "over", Near(g, e, {}), g.at[Root] \in Done, NEW f \in {"cancelling", "abandoned"}
  PROVE  Near(g, f, {})
BY DEF Near, Local

\* The root's task is done and the scan begins to end.
LEMMA RootEndsStep ==
  ASSUME Near(graph, end, {}), RootEnds
  PROVE  Near(graph', end', {}) /\ Steady(graph, graph')
<1>1. graph' = [graph EXCEPT !.closing = @ \/ graph.at[Root] = "gone"] /\ end = "no" /\ end' = "cancelling"
      /\ graph.at[Root] \in Done
  BY DEF RootEnds
<1>2. Sound(graph) /\ Typed(graph)
  BY DEF Near, Sound
<1>3. Sound(graph')
  BY <1>1, <1>2, ClosingCalm, CalmSound
<1>4. Keeps(graph, graph', {"closing", "clock"})
  BY <1>1, <1>2 DEF Typed, Keeps, Fields
<1>5. Near(graph', end, {}) /\ Steady(graph, graph') /\ graph'.at = graph.at
  BY <1>3, <1>4, FlagStep
<1>6. Near(graph', "cancelling", {})
  BY <1>1, <1>5, EndStep
<1>7. QED
  BY <1>1, <1>5, <1>6

\* A task that was cancelled.
LEMMA PutBack ==
  ASSUME NEW g, NEW e, Near(g, e, {}), NEW a \in Agents, NEW p \in {"gone", "cancelled"},
         g.status[a] # "none", g.at[a] = "gone" => a = Root, Local(At(g, a, p), e, a)
  PROVE  Near(At(g, a, p), e, {}) /\ Steady(g, At(g, a, p))
<1>1. p \in Points /\ p # "none" /\ p # "finishing"
  BY DEF Points
<1>2. g.at[a] = "gone" => p = "gone" \/ a = Root
  OBVIOUS
<1>3. a \notin {} => Local(At(g, a, p), e, a)
  OBVIOUS
<1>4. QED
  BY <1>1, <1>2, <1>3, PutStep

\* A child that is cancelled.
LEMMA CancelStep ==
  ASSUME Near(graph, end, {}), NEW a \in Agents, CancelChild(a)
  PROVE  Near(graph', end', {}) /\ Steady(graph, graph')
<1>1. /\ end \in {"cancelling", "abandoned"} /\ end' = end /\ a # Root /\ graph.at[a] \notin {"none", "gone"}
      /\ graph' = At(IF graph.at[a] \in {"check", "asleep", "dozing"} THEN graph
                     ELSE RequestStop(graph, a, TRUE), a, "gone")
  BY DEF CancelChild
<1>2. end # "over" /\ end # "no" /\ "gone" \in Points /\ "gone" \in Done /\ "gone" \notin Sleeping
  BY <1>1 DEF Points, Done, Sleeping
<1>3. PICK k : graph' = At(k, a, "gone") /\ (k = graph \/ k = RequestStop(graph, a, TRUE))
  BY <1>1
<1>4. Near(k, end, {}) /\ Steady(graph, k) /\ k.at[a] = graph.at[a]
  <2>1. CASE k = graph
    BY <2>1, SteadyItself
  <2>2. CASE k = RequestStop(graph, a, TRUE)
    BY <1>2, <2>2, RequestStopStep DEF Stays
  <2>3. QED
    BY <1>3, <2>1, <2>2
<1>5. Sound(k) /\ Local(k, end, a) /\ k.status[a] # "none" /\ k.at[a] # "gone"
  BY <1>1, <1>4 DEF Near, Base
<1> DEFINE p == "gone"
           n == At(k, a, p)
<1>6. Puts(k, n, a, "gone") /\ p \in {"gone", "cancelled"} /\ p = "gone"
  BY <1>2, <1>5, AtPuts
<1> HIDE DEF p
<1>7. Local(n, end, a)
  <2> HIDE DEF n
  <2>1. /\ n.at[a] = "gone" /\ n.status[a] = k.status[a] /\ n.stopped[a] = k.stopped[a] /\ n.recov[a] = k.recov[a]
        /\ n.idle[a] = k.idle[a] /\ n.told[a] = k.told[a] /\ n.kind[a] = k.kind[a] /\ n.bstop = k.bstop
    BY <1>6 DEF Puts, Apart, Scan
  <2>2. QED
    BY <1>1, <1>2, <1>5, <2>1 DEF Local
<1>8. Near(n, end, {}) /\ Steady(k, n)
  BY <1>4, <1>5, <1>6, <1>7, PutBack
<1>9. graph' = n /\ end' = end
  BY <1>1, <1>3, <1>6
<1> HIDE DEF n
<1>10. Steady(graph, n)
  BY <1>4, <1>8, SteadyTwice
<1>11. QED
  BY <1>8, <1>9, <1>10

\* What is left when nobody runs any more is settled.
LEMMA ScanOverStep ==
  ASSUME Near(graph, end, {}), ScanOver
  PROVE  Near(graph', end', {}) /\ Steady(graph, graph')
<1> DEFINE swept == [graph EXCEPT !.status = [a \in Agents |->
                       IF a # Root /\ @[a] \in Active THEN "stopped" ELSE @[a]]]
           h == graph'
<1>1. /\ end = "cancelling" /\ end' = "over" /\ \A a \in Children : graph.at[a] \in {"none", "gone"}
      /\ Root \in Agents /\ Sound(graph) /\ Typed(graph)
  BY RootKnown, GraphAssumption DEF ScanOver, Near, Sound
<1>2. Sound(h)
  BY <1>1, EndingCalm, CalmSound, GraphAssumption DEF Ending
<1>3. /\ Keeps(graph, swept, {"status"})
      /\ swept.status = [a \in Agents |-> IF a # Root /\ graph.status[a] \in Active THEN "stopped"
                                          ELSE graph.status[a]]
  BY <1>1 DEF Typed, Fields, Keeps
<1>4. h \in IF graph.at[Root] = "cancelled" THEN {SetStatus(swept, Root, "failed")}
            ELSE IF graph.at[Root] = "raised"
              THEN {SetStatus(swept, Root, s) : s \in {"stopped", "failed"}}
            ELSE IF graph.status[Root] \in Active THEN {SetStatus(swept, Root, "completed")} ELSE {swept}
  BY DEF ScanOver
<1> HIDE DEF swept, h
<1>5. /\ swept.at = graph.at /\ swept.kind = graph.kind /\ swept.told = graph.told /\ swept.stopped = graph.stopped
      /\ swept.parks = graph.parks /\ swept.recov = graph.recov /\ swept.idle = graph.idle
      /\ swept.notices = graph.notices /\ swept.bstop = graph.bstop /\ swept.rstop = graph.rstop
      /\ swept.gate = graph.gate /\ swept.wake = graph.wake
  BY <1>3 DEF Keeps, Fields
<1>6. swept.status[Root] = graph.status[Root] /\ graph.status[Root] # "none" /\ graph.at[Root] \in Done
  BY <1>1, <1>3 DEF Near, Base, Local
<1>7. ASSUME NEW s \in {"failed", "stopped", "completed"}
      PROVE  /\ Keeps(swept, SetStatus(swept, Root, s), {"status", "gate", "wake"})
             /\ SetStatus(swept, Root, s).status =
                  IF graph.stopped[Root] THEN swept.status ELSE [swept.status EXCEPT ![Root] = s]
  BY <1>1, <1>3, <1>5, <1>6 DEF SetStatus, Typed, Fields, Keeps
<1>8. /\ Keeps(swept, h, {"status", "gate", "wake"})
      /\ \/ graph.at[Root] # "gone" /\ \E s \in {"failed", "stopped"} :
              h.status = IF graph.stopped[Root] THEN swept.status ELSE [swept.status EXCEPT ![Root] = s]
         \/ graph.at[Root] = "gone" /\ graph.status[Root] \in Active /\
              h.status = IF graph.stopped[Root] THEN swept.status ELSE [swept.status EXCEPT ![Root] = "completed"]
         \/ graph.at[Root] = "gone" /\ graph.status[Root] \notin Active /\ h.status = swept.status
  <2>1. CASE graph.at[Root] = "cancelled"
    BY <1>4, <1>7, <2>1
  <2>2. CASE graph.at[Root] = "raised"
    BY <1>4, <1>7, <2>2
  <2>3. CASE graph.at[Root] = "gone" /\ graph.status[Root] \in Active
    BY <1>4, <1>7, <2>3
  <2>4. CASE graph.at[Root] = "gone" /\ graph.status[Root] \notin Active
    BY <1>3, <1>4, <2>4 DEF Keeps
  <2>5. QED
    BY <1>6, <2>1, <2>2, <2>3, <2>4 DEF Done
<1>9. /\ h.at = graph.at /\ h.kind = graph.kind /\ h.told = graph.told /\ h.stopped = graph.stopped
      /\ h.parks = graph.parks /\ h.recov = graph.recov /\ h.idle = graph.idle
      /\ h.notices = graph.notices /\ h.bstop = graph.bstop /\ h.rstop = graph.rstop
  BY <1>5, <1>8 DEF Keeps, Fields
<1>10. \A a \in Children : h.status[a] = IF graph.status[a] \in Active THEN "stopped" ELSE graph.status[a]
  BY <1>1, <1>3, <1>8 DEF Children
<1>11. \/ graph.at[Root] # "gone" /\ (IF graph.stopped[Root] THEN h.status[Root] = graph.status[Root]
                                       ELSE h.status[Root] \in {"failed", "stopped"})
       \/ graph.at[Root] = "gone" /\ graph.status[Root] \in Active /\ ~graph.stopped[Root] /\ h.status[Root] = "completed"
       \/ graph.at[Root] = "gone" /\ graph.status[Root] \notin Active /\ h.status[Root] = graph.status[Root]
  <2>1. graph.status[Root] \in Active => ~graph.stopped[Root]
    BY <1>1 DEF Sound, Active
  <2>2. \A s \in {"failed", "stopped", "completed"} : [swept.status EXCEPT ![Root] = s][Root] = s
    BY <1>1, <1>3
  <2>3. QED
    BY <1>6, <1>8, <2>1, <2>2
<1>12. graph.stopped[Root] => graph.status[Root] = "stopped"
  BY <1>1 DEF Sound
<1>13. Interactive /\ graph.status[Root] = "stopped" => graph.at[Root] = "gone" \/ graph.stopped[Root]
  BY <1>1, <1>6 DEF Near, Local, Done
<1>14. ASSUME NEW a \in Agents
       PROVE  /\ h.status[a] = "none" <=> graph.status[a] = "none"
              /\ h.status[a] \notin Active
              /\ Unreachable(graph, a) => Unreachable(h, a)
              /\ Interactive /\ graph.status[a] = "stopped" => h.status[a] = "stopped"
  <2>1. CASE a # Root
    <3>1. a \in Children
      BY <2>1 DEF Children
    <3>2. h.status[a] = IF graph.status[a] \in Active THEN "stopped" ELSE graph.status[a]
      BY <1>10, <3>1
    <3>3. QED
      BY <1>9, <2>1, <3>2 DEF Unreachable, Active, Errors
  <2>2. CASE a = Root
    <3>1. graph.parks[Root] = Interactive
      BY <1>1 DEF Near, Base
    <3>2. h.status[Root] \notin Active \cup {"none"}
      BY <1>6, <1>11, <1>12 DEF Active
    <3>3. Interactive /\ graph.status[Root] = "stopped" => h.status[Root] = "stopped"
      BY <1>11, <1>13 DEF Active
    <3>4. Unreachable(graph, Root) => Unreachable(h, Root)
      BY <1>9, <1>11, <1>12, <3>1, <3>3 DEF Unreachable, Active, Errors
    <3>5. QED
      BY <1>6, <2>2, <3>2, <3>3, <3>4
  <2>3. QED
    BY <2>1, <2>2
<1>15. Steady(graph, h)
  BY <1>9, <1>14 DEF Steady
<1>16. Base(h)
  <2>1. ASSUME NEW b \in Children
        PROVE  /\ h.status[b] # "none" => h.status[Parent[b]] # "none"
               /\ h.told[b] => h.notices[b] > 0 \/ Unreachable(h, Parent[b])
    <3>1. b \in Agents /\ Parent[b] \in Agents
      BY ParentKnown, GraphAssumption DEF Children
    <3>2. QED
      BY <1>9, <1>14, <3>1 DEF Near, Base
  <2>2. \A b \in Agents : h.parks[b] = Interactive /\ (h.at[b] = "none" <=> h.status[b] = "none")
    BY <1>9, <1>14 DEF Near, Base
  <2>3. h.status[Root] # "none"
    BY <1>1, <1>6, <1>14
  <2>4. QED
    BY <2>1, <2>2, <2>3 DEF Base
<1>17. ASSUME NEW a \in Agents PROVE Local(h, "over", a)
  <2>1. Local(graph, "cancelling", a)
    BY <1>1 DEF Near
  <2>2. graph.at[a] \in Done \cup {"none"} /\ graph.at[a] \notin Sleeping \cup {"dozing"}
    BY <1>1, <1>6 DEF Children, Done, Sleeping
  <2>3. h.status[a] = "stopped" => h.at[a] \in Done
    BY <1>9, <1>14, <2>2 DEF Near, Base
  <2>4. a # Root /\ h.status[a] \in Errors /\ ~h.bstop => h.told[a]
    BY <1>9, <1>10, <2>1 DEF Local, Children, Errors
  <2>5. h.recov[a] = RecoveryLimit => h.kind[a] # "agents" \/ h.status[a] \in Errors \cup {"stopped"}
    <3>1. CASE a # Root
      BY <1>9, <1>10, <2>1, <3>1 DEF Local, Children, Errors
    <3>2. CASE a = Root
      BY <1>9, <1>11, <2>1, <3>2 DEF Local, Errors, Active
    <3>3. QED
      BY <3>1, <3>2
  <2>6. h.recov[a] <= RecoveryLimit /\ h.idle[a] <= IdleLimit /\ (h.recov[a] = RecoveryLimit => h.at[a] \in Parked \cup Done)
    BY <1>9, <2>1 DEF Local
  <2>7. h.at[a] \in Done \cup {"none"} /\ h.at[a] \notin Sleeping \cup {"dozing", "check", "asleep"}
    BY <1>9, <2>2 DEF Sleeping, Done
  <2>8. a = Root => h.at[a] \in Done
    BY <1>6, <1>9
  <2>9. QED
    BY <1>14, <2>3, <2>4, <2>5, <2>6, <2>7, <2>8 DEF Local
<1>18. Near(h, "over", {})
  BY <1>2, <1>16, <1>17 DEF Near
<1>19. QED
  BY <1>1, <1>15, <1>18 DEF h

\* The wrap-up, the deadline and its cancellation.
LEMMA DeadlineStep ==
  ASSUME Near(graph, end, {}), Deadline
  PROVE  Near(graph', end', {}) /\ Steady(graph, graph')
<1>1. ~Interactive /\ end \in {"no", "cancelling"} /\ end # "over" /\ Sound(graph) /\ Typed(graph)
  BY DEF Deadline, WrapUp, NotifyWrap, Expires, HardStop, Running, Near, Sound
<1>2. ASSUME NEW t \in {"wrap", "told", "past", "fired"}
      PROVE  /\ Near(ClockTo(t), end, {}) /\ Steady(graph, ClockTo(t))
             /\ ClockTo(t).at = graph.at /\ ClockTo(t).status = graph.status
  <2> DEFINE h == ClockTo(t)
  <2>1. Sound(h)
    BY <1>1, ClockCalm, CalmSound DEF ClockTo
  <2>2. Keeps(graph, h, {"closing", "clock"})
    BY <1>1 DEF ClockTo, Typed, Keeps, Fields
  <2> HIDE DEF h
  <2>3. QED
    BY <2>1, <2>2, FlagStep DEF h
<1>3. CASE WrapUp
  BY <1>2, <1>3 DEF WrapUp
<1>4. CASE Expires
  BY <1>2, <1>4 DEF Expires
<1>5. CASE NotifyWrap
  <2> DEFINE h == ClockTo("told")
  <2>1. Near(h, end, {}) /\ Steady(graph, h) /\ graph' = WrapSent(h) /\ end' = end
    BY <1>2, <1>5 DEF NotifyWrap
  <2> HIDE DEF h
  <2>2. Near(WrapSent(h), end, {}) /\ Steady(h, WrapSent(h))
    BY <1>1, <2>1, TreeStep
  <2>3. Steady(graph, WrapSent(h))
    BY <2>1, <2>2, SteadyTwice
  <2>4. QED
    BY <2>1, <2>2, <2>3
<1>6. CASE HardStop
  <2> DEFINE h == ClockTo("fired")
             p == "cancelled"
             n == At(h, Root, p)
  <2>1. /\ Near(h, end, {}) /\ Steady(graph, h) /\ h.at = graph.at
        /\ \/ graph' = n /\ end' = end /\ (end = "no" => graph.at[Root] # "raised")
           \/ graph' = h /\ end = "cancelling" /\ end' = "abandoned" /\ graph.at[Root] = "raised"
    BY <1>2, <1>6 DEF HardStop
  <2>2. p \in {"gone", "cancelled"} /\ p = "cancelled" /\ p \in Done /\ p \in Points
        /\ p \notin {"check", "asleep", "dozing", "gone", "none"} \cup Sleeping
    BY DEF Points, Done, Sleeping
  <2> HIDE DEF h, p
  <2>3. CASE graph' = n /\ end' = end
    <3>1. Sound(h) /\ Root \in Agents /\ h.status[Root] # "none" /\ Local(h, end, Root)
      BY <2>1, RootKnown, GraphAssumption DEF Near, Base
    <3>2. Puts(h, n, Root, p)
      BY <2>2, <3>1, AtPuts
    <3>3. Local(n, end, Root)
      <4> HIDE DEF n
      <4>1. /\ n.at[Root] = p /\ n.status[Root] = h.status[Root] /\ n.stopped[Root] = h.stopped[Root]
            /\ n.recov[Root] = h.recov[Root] /\ n.idle[Root] = h.idle[Root] /\ n.kind[Root] = h.kind[Root]
        BY <3>2 DEF Puts
      <4>2. QED
        BY <1>1, <2>2, <3>1, <4>1 DEF Local
    <3>4. Near(n, end, {}) /\ Steady(h, n)
      BY <2>1, <2>2, <3>1, <3>3, PutBack
    <3> HIDE DEF n
    <3>5. Steady(graph, n)
      BY <2>1, <3>4, SteadyTwice
    <3>6. QED
      BY <2>3, <3>4, <3>5
  <2>4. CASE graph' = h /\ end = "cancelling" /\ end' = "abandoned" /\ graph.at[Root] = "raised"
    <3>1. h.at[Root] \in Done /\ end # "over" /\ "abandoned" \in {"cancelling", "abandoned"}
      BY <2>1, <2>4 DEF Done
    <3>2. Near(h, "abandoned", {})
      BY <2>1, <3>1, EndStep
    <3>3. QED
      BY <2>1, <2>4, <3>2
  <2>5. QED
    BY <2>1, <2>3, <2>4
<1>7. QED
  BY <1>3, <1>4, <1>5, <1>6 DEF Deadline

\* The operator.
LEMMA UserStep ==
  ASSUME Near(graph, end, {}), NEW a \in Agents, UserMessage(a) \/ OperatorStop(a) \/ OperatorResume
  PROVE  Near(graph', end', {}) /\ Steady(graph, graph')
<1>1. end # "over" /\ Interactive /\ end' = end
      /\ (graph' = SendNow(graph, a, TRUE) \/ graph' = StopTree(graph, a) \/ graph' = ResumeAll(graph))
  BY DEF UserMessage, OperatorStop, OperatorResume
<1>2. TRUE \in Flags /\ (TRUE => Interactive)
  BY <1>1 DEF Flags
<1>3. LET h == SendNow(graph, a, TRUE) IN Near(h, end, {}) /\ Steady(graph, h)
  BY <1>1, <1>2, SendNowStep
<1>4. LET h == StopTree(graph, a) IN Near(h, end, {}) /\ Steady(graph, h)
  BY <1>1, TreeStep
<1>5. LET h == ResumeAll(graph) IN Near(h, end, {}) /\ Steady(graph, h)
  BY <1>1, ResumeStep
<1>6. QED
  BY <1>1, <1>3, <1>4, <1>5

\* A task that is done takes no step.
LEMMA TaskRuns ==
  ASSUME NEW a \in Agents, Loop(a) \/ Turn(a) \/ Tool(a) \/ Timer(a)
  PROVE  graph.at[a] \notin Done
BY DEF Loop, Enter, Drained, Nudged, Check, Wake,
       Turn, Attach, StartTurn, BudgetReached, ReserveReached, Answered, CallFails, Salvaged, EndCycle,
       Tool, UseTool, CreateAgent, SendMessage, StopAgent, AgentFinish, FinishScan, RespondToUser,
       WaitForAgents, Taken, BlockedWakes, Timer, BlockedTimesOut, TimesOut, Done

\* What any step does.
LEMMA NearStep ==
  ASSUME Near(graph, end, {}), end \in {"no", "cancelling", "over", "abandoned"}, [Next]_vars
  PROVE  /\ Near(graph', end', {}) /\ end' \in {"no", "cancelling", "over", "abandoned"}
         /\ Steady(graph, graph') \/ \E a \in Agents : end = "no" /\ (CreateAgent(a) \/ ReportOpens(a))
<1>0. end' \in {"no", "cancelling", "over", "abandoned"}
  BY DEF Next, vars, Task, Clock, UserMessage, OperatorStop, OperatorResume, Deadline, WrapUp, NotifyWrap, Expires,
         HardStop, Ending, RootEnds, CancelChild, ScanOver, Over
<1>1. ASSUME NEW a \in Agents, Loop(a) \/ Turn(a) \/ Tool(a) \/ Timer(a), end = "no" \/ a = Root PROVE end = "no"
  <2>1. graph.at[a] \notin Done
    BY <1>1, TaskRuns
  <2>2. CASE a = Root
    BY <2>1, <2>2 DEF Near, Local
  <2>3. QED
    BY <1>1, <2>2
<1>2. ASSUME NEW a \in Agents, Task(a) \/ Clock(a)
      PROVE  /\ Near(graph', end', {})
             /\ Steady(graph, graph') \/ (end = "no" /\ (CreateAgent(a) \/ ReportOpens(a)))
  <2>1. end = "no" /\ end' = end /\ (Loop(a) \/ Turn(a) \/ Tool(a) \/ Timer(a))
    BY <1>1, <1>2 DEF Task, Clock
  <2>2. Near(graph, "no", {})
    BY <2>1
  <2>3. CASE Loop(a) \/ Turn(a) \/ Timer(a)
    BY <2>1, <2>2, <2>3, LoopStep, TurnStep, TimerStep DEF Fine
  <2>4. CASE Tool(a)
    BY <2>1, <2>2, <2>4, ToolStep
  <2>5. QED
    BY <2>1, <2>3, <2>4
<1>3. CASE UNCHANGED vars \/ Over
  <2>1. graph' = graph /\ end' = end
    BY <1>3 DEF vars, Over
  <2>2. QED
    BY <1>0, <2>1, SteadyItself
<1>4. ASSUME NEW a \in Agents, UserMessage(a) \/ OperatorStop(a) \/ OperatorResume
      PROVE Near(graph', end', {}) /\ Steady(graph, graph')
  BY <1>4, UserStep
<1>5. CASE OperatorResume
  BY <1>0, <1>4, <1>5, RootKnown, GraphAssumption
<1>6. CASE Deadline
  BY <1>0, <1>6, DeadlineStep
<1>7. CASE Ending
  BY <1>0, <1>7, RootEndsStep, CancelStep, ScanOverStep DEF Ending
<1>8. QED
  BY <1>0, <1>2, <1>3, <1>4, <1>5, <1>6, <1>7 DEF Next

-----------------------------------------------------------------------------
(* The theorems about where the tasks are. *)

\* The inductive invariant of a scan.
Placed == Near(graph, end, {}) /\ end \in {"no", "cancelling", "over", "abandoned"}

\* A scan begins with everybody in place, and Placed is inductive.
LEMMA InitPlaced ==
  ASSUME Init
  PROVE  Placed
<1>1. graph = Blank /\ end = "no" /\ Sound(graph) /\ Root \in Agents
  BY InitSound, RootKnown, GraphAssumption DEF Init
<1>2. RecoveryLimit \in Nat \ {0} /\ IdleLimit \in Nat \ {0} /\ 0 <= RecoveryLimit /\ 0 <= IdleLimit
  BY GraphAssumption
<1>3. ASSUME NEW b \in Agents
      PROVE  /\ graph.status[b] = (IF b = Root THEN "running" ELSE "none")
             /\ graph.at[b] = (IF b = Root THEN "enter" ELSE "none")
             /\ ~graph.told[b] /\ ~graph.stopped[b] /\ graph.parks[b] = Interactive
             /\ graph.recov[b] = 0 /\ graph.idle[b] = 0
  BY <1>1 DEF Blank, Fresh, Zero
<1>4. ASSUME NEW b \in Agents PROVE Local(graph, end, b)
  BY <1>1, <1>2, <1>3 DEF Local, Sleeping, Parked, Done, Active, Errors
<1>5. Base(graph)
  <2>1. ASSUME NEW b \in Children PROVE graph.status[b] = "none" /\ ~graph.told[b]
    BY <1>3 DEF Children
  <2>2. QED
    BY <1>1, <1>3, <2>1 DEF Base
<1>6. QED
  BY <1>1, <1>4, <1>5 DEF Near, Placed

LEMMA PlacedKept == Spec => []Placed
<1>1. Init => Placed
  BY InitPlaced
<1>2. Placed /\ [Next]_vars => Placed'
  BY NearStep DEF Placed
<1>3. QED
  BY <1>1, <1>2, PTL DEF Spec

\* The graph keeps its types and every counter its limit: in particular the recoveries
\* and the idle resumes of an agent never pass the limits at which run_agent_loop parks it.
THEOREM GraphTyped == Spec => []TypeOK
<1>1. Placed => TypeOK
  <2>1. SUFFICES ASSUME Placed PROVE TypeOK
    OBVIOUS
  <2>2. Typed(graph) /\ end \in {"no", "cancelling", "over", "abandoned"}
    BY <2>1 DEF Placed, Near, Sound
  <2>3. \A b \in Agents : graph.recov[b] <= RecoveryLimit /\ graph.idle[b] <= IdleLimit
    BY <2>1 DEF Placed, Near, Local
  <2>4. RecoveryLimit \in Nat /\ IdleLimit \in Nat
    BY GraphAssumption
  <2>5. graph.recov \in [Agents -> 0..RecoveryLimit] /\ graph.idle \in [Agents -> 0..IdleLimit]
    BY <2>2, <2>3, <2>4 DEF Typed
  <2>6. \A f \in {"gate", "wake", "mail", "pend", "told", "stopped", "parks"} : graph[f] \in [Agents -> BOOLEAN]
    BY <2>2 DEF Typed
  <2>7. QED
    BY <2>2, <2>5, <2>6 DEF Typed, TypeOK
<1>2. QED
  BY <1>1, PlacedKept, PTL

\* Whoever sleeps while there is something for it to do was woken: the event is cleared
\* before the state is read (wait_for_message), and every operation that makes an agent
\* ready sets it.
THEOREM NoWakeIsLost == Spec => []NoLostWake
<1>1. Placed => NoLostWake
  BY DEF Placed, Near, Local, NoLostWake, Sleeping
<1>2. QED
  BY <1>1, PlacedKept, PTL

\* A child that failed or crashed told its parent, or the parent cannot read any more:
\* the claim of the notice (_parent_notified) is never taken without a delivery, and no
\* path settles an agent in error without it.
THEOREM ErrorsAreReported == Spec => []TerminalReported
<1>1. Placed => TerminalReported
  <2>1. SUFFICES ASSUME Placed, NEW b \in Children, graph.status[b] \in Errors, ~graph.bstop
                 PROVE  graph.notices[b] > 0 \/ Unreachable(graph, Parent[b])
    BY DEF TerminalReported
  <2>2. b \in Agents /\ b # Root /\ Local(graph, end, b) /\ Base(graph)
    BY <2>1 DEF Placed, Near, Children
  <2>3. graph.told[b]
    BY <2>1, <2>2 DEF Local
  <2>4. QED
    BY <2>1, <2>2, <2>3 DEF Base
<1>2. QED
  BY <1>1, PlacedKept, PTL

\* An interactive agent in error is still in its loop, whatever its peers sent it
\* meanwhile, so that the user can drive it again.
THEOREM ErrorsCanBeDriven == Spec => []ErrorsStayDrivable
<1>1. Placed => ErrorsStayDrivable
  BY DEF Placed, Near, Local, ErrorsStayDrivable, Parked
<1>2. QED
  BY <1>1, PlacedKept, PTL

\* Once the runner has ended the scan no agent looks at work and none is in a model call
\* or a tool (the cancellations and the final sweep of run_scan).
THEOREM ScansEndSettled == Spec => []EndedScansAreSettled
<1>1. Placed => EndedScansAreSettled
  BY DEF Placed, Near, Local, EndedScansAreSettled, Done, Streaming
<1>2. QED
  BY <1>1, PlacedKept, PTL

\* A registration and the opening of the report.
LEMMA OtherSteps ==
  ASSUME Placed, NEW a \in Agents, CreateAgent(a) \/ ReportOpens(a)
  PROVE  \A b \in Agents : graph.status[b] # "none" => graph'.status[b] = graph.status[b]
<1>1. Typed(graph)
  BY DEF Placed, Near, Sound
<1>2. CASE CreateAgent(a)
  <2>1. PICK c \in Children : graph.status[c] = "none" /\ graph' = At(Register(graph, c), a, "ready")
    BY <1>2 DEF CreateAgent
  <2>2. graph'.status = [graph.status EXCEPT ![c] = "running"]
    BY <1>1, <2>1 DEF At, Register, Typed, Fields
  <2>3. QED
    BY <1>1, <2>1, <2>2 DEF Typed
<1>3. CASE ReportOpens(a)
  BY <1>1, <1>3 DEF ReportOpens, At, Typed, Fields
<1>4. QED
  BY <1>2, <1>3

\* Whoever writes to the graph after an agent of an interactive scan was stopped, be it
\* a late set_status, a park, a message or the settling of a failed run, the agent stays
\* stopped and claims no turn (_operator_stopped, claim_model_start). A headless stop can
\* be overwritten by the agent that was stopped in its own turn.
THEOREM StopsHold ==
  ASSUME Interactive
  PROVE  Spec => StopsAreFinal
<1>1. Placed /\ [Next]_vars =>
        [\A a \in Agents : graph.status[a] = "stopped" =>
           graph'.status[a] = "stopped" /\ graph'.turns[a] = graph.turns[a]]_vars
  <2>1. SUFFICES ASSUME Placed, [Next]_vars, NEW a \in Agents, graph.status[a] = "stopped"
                 PROVE  graph'.status[a] = "stopped" /\ graph'.turns[a] = graph.turns[a]
    OBVIOUS
  <2>2. graph'.turns[a] = graph.turns[a]
    <3>1. Sound(graph)
      BY <2>1 DEF Placed, Near
    <3>2. QED
      BY <2>1, <3>1, StepFlows, GraphAssumption DEF Flows
  <2>3. graph'.status[a] = "stopped"
    <3>1. CASE Steady(graph, graph')
      BY <2>1, <3>1 DEF Steady
    <3>2. ASSUME NEW b \in Agents, CreateAgent(b) \/ ReportOpens(b) PROVE graph'.status[a] = "stopped"
      BY <2>1, <3>2, OtherSteps
    <3>3. QED
      BY <2>1, <3>1, <3>2, NearStep DEF Placed
  <2>4. QED
    BY <2>2, <2>3
<1>2. QED
  BY <1>1, PlacedKept, PTL DEF Spec, StopsAreFinal

-----------------------------------------------------------------------------
(* Who is at work while the report is written. *)

\* Below is a walk too.
LEMMA BelowWalks ==
  ASSUME NEW b
  PROVE  \E s : Walk("below", b, {}, s) /\ Below(b) = s[Len(Line)]
<1> DEFINE under == CHOOSE s : s = [i \in 0..Len(Line) |->
             IF i = 0 THEN {}
             ELSE IF Line[i] = b \/ (Line[i] # Root /\ Parent[Line[i]] \in s[i - 1])
               THEN s[i - 1] \cup {Line[i]} ELSE s[i - 1]]
<1>1. Below(b) = under[Len(Line)]
  BY Zenon DEF Below
<1>2. \E s : Walk("below", b, {}, s)
  BY WalkExists, GraphAssumption
<1>3. \A s, n : Step("below", b, s[n - 1], n) =
                  IF Line[n] = b \/ (Line[n] # Root /\ Parent[Line[n]] \in s[n - 1])
                    THEN s[n - 1] \cup {Line[n]} ELSE s[n - 1]
  BY DEF Step
<1>4. \A s : Walk("below", b, {}, s) <=> s = [i \in 0..Len(Line) |->
             IF i = 0 THEN {}
             ELSE IF Line[i] = b \/ (Line[i] # Root /\ Parent[Line[i]] \in s[i - 1])
               THEN s[i - 1] \cup {Line[i]} ELSE s[i - 1]]
  <2>1. \A s : [n \in 0..Len(Line) |-> IF n = 0 THEN {} ELSE Step("below", b, s[n - 1], n)]
               = [i \in 0..Len(Line) |->
                   IF i = 0 THEN {}
                   ELSE IF Line[i] = b \/ (Line[i] # Root /\ Parent[Line[i]] \in s[i - 1])
                     THEN s[i - 1] \cup {Line[i]} ELSE s[i - 1]]
    BY <1>3
  <2>2. QED
    BY <2>1, Zenon DEF Walk
<1>5. Walk("below", b, {}, under)
  BY <1>2, <1>4, Zenon
<1>6. QED
  BY <1>1, <1>5, Zenon

\* An agent is below itself, and what it spawned is below whatever it is below.
LEMMA BelowFacts ==
  ASSUME NEW b \in Agents
  PROVE  /\ b \in Below(b)
         /\ \A c \in Children : Parent[c] \in Below(b) => c \in Below(b)
<1>1. PICK s : Walk("below", b, {}, s) /\ Below(b) = s[Len(Line)]
  BY BelowWalks
<1> DEFINE N == Len(Line)
<1>2. N \in Nat /\ N \in 0..N
  BY LineLength, GraphAssumption
<1>3. s[0] = {} /\ \A n \in 1..N : s[n] = Step("below", b, s[n - 1], n)
  <2>1. \A n \in 0..N : s[n] = IF n = 0 THEN {} ELSE Step("below", b, s[n - 1], n)
    BY <1>1 DEF Walk
  <2>2. 0 \in 0..N /\ \A n \in 1..N : n \in 0..N /\ n # 0
    BY <1>2
  <2>3. QED
    BY <2>1, <2>2
<1>4. \A n \in 1..N : s[n] = IF Line[n] = b \/ (Line[n] # Root /\ Parent[Line[n]] \in s[n - 1])
                               THEN s[n - 1] \cup {Line[n]} ELSE s[n - 1]
  BY <1>3 DEF Step
<1>5. \A k \in 0..N : \A j \in 0..k : s[j] \subseteq s[k]
  <2> DEFINE S == {k \in 0..N : \A j \in 0..k : s[j] \subseteq s[k]}
  <2>1. 0 \in S
    <3>1. \A j \in 0..0 : j = 0
      OBVIOUS
    <3>2. \A j \in 0..0 : s[j] \subseteq s[0]
      BY <3>1
    <3>3. 0 \in 0..N
      BY <1>2
    <3>4. QED
      BY <3>2, <3>3
  <2>2. ASSUME NEW k \in 1..N, k - 1 \in S PROVE k \in S
    <3>1. s[k - 1] \subseteq s[k] /\ k \in 0..N
      <4>1. s[k] = s[k - 1] \cup {Line[k]} \/ s[k] = s[k - 1]
        BY <1>4
      <4>2. QED
        BY <1>2, <4>1
    <3>2. ASSUME NEW j \in 0..k PROVE s[j] \subseteq s[k]
      <4>1. j = k \/ j \in 0..(k - 1)
        BY <1>2
      <4>2. QED
        BY <2>2, <3>1, <4>1
    <3>3. QED
      BY <3>1, <3>2
  <2>3. S \in SUBSET (0..N)
    BY Zenon
  <2> HIDE DEF S
  <2>4. S = 0..N
    BY <1>2, <2>1, <2>2, <2>3, UpTo
  <2>5. QED
    BY <2>4 DEF S
<1>6. ASSUME NEW j \in 1..N, Line[j] \in s[N] PROVE Line[j] \in s[j]
  <2> DEFINE S == {k \in 0..N : k >= j /\ Line[j] \in s[k] => Line[j] \in s[j]}
  <2>1. S \in SUBSET (0..N) /\ 0 \in S
    BY <1>2
  <2>2. ASSUME NEW k \in 1..N, k - 1 \in S PROVE k \in S
    <3>1. SUFFICES ASSUME k >= j, k # j, Line[j] \in s[k] PROVE Line[j] \in s[j]
      BY <1>2
    <3>2. k - 1 >= j /\ Line[j] # Line[k]
      BY <1>2, <3>1, LineAssumption
    <3>3. Line[j] \in s[k - 1]
      BY <1>4, <3>1, <3>2
    <3>4. QED
      BY <2>2, <3>2, <3>3
  <2> HIDE DEF S
  <2>3. S = 0..N
    BY <1>2, <2>1, <2>2, UpTo
  <2>4. N \in S /\ N >= j
    BY <1>2, <2>3
  <2>5. QED
    BY <1>6, <2>4 DEF S
<1>7. b \in Below(b)
  <2>1. PICK i \in 1..N : b = Line[i]
    BY GraphAssumption
  <2>2. b \in s[i]
    BY <1>4, <2>1
  <2>3. i \in 0..N
    BY <1>2
  <2>4. QED
    BY <1>1, <1>2, <1>5, <2>2, <2>3
<1>8. ASSUME NEW c \in Children, Parent[c] \in Below(b) PROVE c \in Below(b)
  <2>1. PICK i \in 1..N : c = Line[i]
    BY GraphAssumption DEF Children
  <2>2. c # Root /\ i \in 2..N
    BY <1>2, <2>1 DEF Children, Root
  <2>3. PICK j \in 1..(i - 1) : Parent[c] = Line[j]
    BY <2>1, <2>2, GraphAssumption
  <2>4. j \in 1..N /\ j \in 0..(i - 1) /\ i - 1 \in 0..N /\ i \in 0..N
    BY <1>2, <2>2
  <2>5. Parent[c] \in s[i - 1]
    BY <1>1, <1>5, <1>6, <1>8, <2>3, <2>4
  <2>6. c \in s[i]
    BY <1>4, <2>1, <2>2, <2>5
  <2>7. QED
    BY <1>1, <1>2, <1>5, <2>4, <2>6
<1>9. QED
  BY <1>7, <1>8

\* An agent that is at work while the report of a headless scan is written stays below
\* a stopped one, and a new one is.
LEMMA StraysStep ==
  ASSUME Placed, OnlyStraysAtFinish, [Next]_vars
  PROVE  OnlyStraysAtFinish'
<1>1. SUFFICES ASSUME ~Interactive, graph'.at[Root] = "finishing", ~graph'.rstop,
                      NEW b \in Agents \ {Root}, graph'.status[b] \in Active
               PROVE  \E c \in Children \ {b} : b \in Below(c) /\ graph'.stopped[c]
  BY DEF OnlyStraysAtFinish, ActiveOthers
<1>2. Sound(graph) /\ Base(graph) /\ Typed(graph) /\ Root \in Agents /\ \A c \in Agents : Local(graph, end, c)
  BY RootKnown, GraphAssumption DEF Placed, Near, Sound
<1>3. \A c \in Agents : graph.stopped[c] => graph'.stopped[c]
  <2>1. Flows(graph, graph')
    BY <1>1, <1>2, StepFlows, GraphAssumption DEF OperatorResume
  <2>2. QED
    BY <2>1 DEF Flows
<1>4. ASSUME graph.at[Root] = "finishing", ~graph.rstop, NEW c \in Agents \ {Root}, graph.status[c] \in Active
      PROVE  \E d \in Children \ {c} : c \in Below(d) /\ graph.stopped[d]
  BY <1>1, <1>4 DEF OnlyStraysAtFinish, ActiveOthers
<1>5. ASSUME graph.at[Root] = "finishing", ~graph.rstop, graph.status[b] \in Active
      PROVE  \E c \in Children \ {b} : b \in Below(c) /\ graph'.stopped[c]
  BY <1>3, <1>4, <1>5 DEF Children
<1>6. CASE Steady(graph, graph')
  BY <1>1, <1>2, <1>5, <1>6 DEF Steady
<1>7. ASSUME NEW a \in Agents, ReportOpens(a) PROVE FALSE
  <2>1. graph'.status = graph.status /\ graph'.rstop = graph.rstop
    BY <1>2, <1>7 DEF ReportOpens, At, Typed, Fields
  <2>2. a = Root /\ ActiveOthers(graph, a) = {}
    BY <1>1, <1>7, <2>1 DEF ReportOpens
  <2>3. QED
    BY <1>1, <2>1, <2>2 DEF ActiveOthers
<1>8. ASSUME NEW a \in Agents, CreateAgent(a)
      PROVE  \E c \in Children \ {b} : b \in Below(c) /\ graph'.stopped[c]
  <2>1. PICK c \in Children : Parent[c] = a /\ graph.status[c] = "none" /\ graph' = At(Register(graph, c), a, "ready")
    BY <1>8 DEF CreateAgent
  <2>2. /\ graph'.status = [graph.status EXCEPT ![c] = "running"]
        /\ graph'.at = [graph.at EXCEPT ![c] = "enter", ![a] = "ready"]
        /\ graph'.rstop = graph.rstop /\ graph.at[a] = "act"
    BY <1>2, <1>8, <2>1 DEF At, Register, Typed, Fields, CreateAgent
  <2>3. a # Root /\ c # Root /\ c \in Agents /\ graph.at[Root] = "finishing" /\ ~graph.rstop
    BY <1>1, <1>2, <2>1, <2>2 DEF Typed, Children
  <2>4. CASE b # c
    BY <1>1, <1>2, <1>5, <2>2, <2>3, <2>4 DEF Typed
  <2>5. CASE b = c
    <3>1. a # c /\ ~graph.stopped[c] /\ a \in Children
      BY <1>2, <2>1, <2>2, <2>3 DEF Base, Sound, Children
    <3>2. \A d \in Agents : a \in Below(d) => c \in Below(d)
      BY <2>1, BelowFacts
    <3>3. CASE graph.status[a] \in Active
      <4>1. PICK d \in Children \ {a} : a \in Below(d) /\ graph.stopped[d]
        BY <1>4, <2>3, <3>3
      <4>2. d \in Agents /\ d # c /\ c \in Below(d) /\ graph'.stopped[d]
        BY <1>3, <3>1, <3>2, <4>1 DEF Children
      <4>3. QED
        BY <2>5, <4>1, <4>2
    <3>4. CASE graph.status[a] \notin Active
      <4>1. graph.stopped[a]
        BY <1>1, <1>2, <2>2, <3>4 DEF Local, Done
      <4>2. c \in Below(a) /\ graph'.stopped[a]
        BY <1>3, <3>2, <4>1, BelowFacts
      <4>3. QED
        BY <2>5, <3>1, <4>2
    <3>5. QED
      BY <3>3, <3>4
  <2>6. QED
    BY <2>4, <2>5
<1>9. QED
  BY <1>6, <1>7, <1>8, NearStep DEF Placed

\* While finish_scan writes the report of a headless scan, in a thread and after its look
\* at the other agents, the only ones at work are those a stopped agent spawned in its
\* last turn: nothing else registers an agent or takes one back to work meanwhile.
THEOREM StraysAlone == Spec => []OnlyStraysAtFinish
<1>1. Init => OnlyStraysAtFinish
  <2>1. SUFFICES ASSUME Init PROVE OnlyStraysAtFinish
    OBVIOUS
  <2>2. graph.at[Root] = "enter"
    BY <2>1, RootKnown, GraphAssumption DEF Init, Blank
  <2>3. QED
    BY <2>2 DEF OnlyStraysAtFinish
<1>2. Placed /\ OnlyStraysAtFinish /\ [Next]_vars => OnlyStraysAtFinish'
  BY StraysStep
<1>3. QED
  BY <1>1, <1>2, PlacedKept, PTL DEF Spec

-----------------------------------------------------------------------------
(* The snapshot. *)

\* What agents.json must say for the graph that is rebuilt from it to be sound.
Snapshot ==
  /\ disk.status \in [Agents -> Statuses]
  /\ disk.kind \in [Agents -> {"none", "user", "agents", "stalled"}]
  /\ disk.gate \in [Agents -> BOOLEAN] /\ disk.mail \in [Agents -> BOOLEAN]
  /\ disk.pend \in [Agents -> BOOLEAN]
  /\ disk.recov \in [Agents -> Nat] /\ disk.idle \in [Agents -> Nat]
  /\ disk.turns = graph.turns /\ disk.stopped = graph.stopped /\ disk.paused = graph.paused

\* The inductive invariant under restarts: nothing about where the tasks are.
RInv == Sound(graph) /\ Snapshot /\ MailOnDisk

\* The record a step leaves on disk.
LEMMA KeptFields ==
  ASSUME NEW g, Sound(g), NEW h, Sound(h)
  PROVE  LET now == Kept(Unsaved(g, h)) IN
         /\ now.status \in [Agents -> Statuses]
         /\ now.kind = h.kind /\ now.gate = h.gate /\ now.recov = h.recov /\ now.idle = h.idle
         /\ now.turns = h.turns /\ now.stopped = h.stopped /\ now.paused = h.paused
         /\ now.mail \in [Agents -> BOOLEAN] /\ now.pend \in [Agents -> BOOLEAN]
         /\ \A a \in Agents : (h.mail[a] => now.mail[a]) /\ (h.pend[a] => now.pend[a])
<1> DEFINE taken(a) == h.at[a] \in Appending /\ h.at[a] # g.at[a]
           held(a) == g.paused /\ h.at[a] = "ready" /\ g.at[a] \in Appending
           u == Unsaved(g, h)
           now == Kept(u)
<1>1. Typed(g) /\ Typed(h)
  BY DEF Sound
<1>2. /\ Keeps(h, u, {"mail", "pend", "status"})
      /\ u.mail = [a \in Agents |-> h.mail[a] \/ taken(a)]
      /\ u.pend = [a \in Agents |-> h.pend[a] \/ (taken(a) /\ (g.pend[a] \/ g.at[a] = "dozing"))]
      /\ u.status = [a \in Agents |-> IF held(a) THEN g.status[a] ELSE h.status[a]]
  BY <1>1 DEF Unsaved, Typed, Fields, Keeps
<1> HIDE DEF u
<1>3. /\ now.status = u.status /\ now.kind = u.kind /\ now.gate = u.gate /\ now.mail = u.mail /\ now.pend = u.pend
      /\ now.recov = u.recov /\ now.idle = u.idle /\ now.turns = u.turns /\ now.stopped = u.stopped
      /\ now.paused = u.paused
  BY DEF Kept
<1>4. /\ u.kind = h.kind /\ u.gate = h.gate /\ u.recov = h.recov /\ u.idle = h.idle
      /\ u.turns = h.turns /\ u.stopped = h.stopped /\ u.paused = h.paused
  BY <1>2 DEF Keeps, Fields
<1>5. u.status \in [Agents -> Statuses]
  <2>1. g.status \in [Agents -> Statuses] /\ h.status \in [Agents -> Statuses]
    BY <1>1 DEF Typed
  <2> HIDE DEF held
  <2>2. QED
    BY <1>2, <2>1
<1>6. /\ u.mail \in [Agents -> BOOLEAN] /\ u.pend \in [Agents -> BOOLEAN]
      /\ \A a \in Agents : (h.mail[a] => u.mail[a]) /\ (h.pend[a] => u.pend[a])
  BY <1>2
<1> HIDE DEF now
<1>7. QED
  BY <1>3, <1>4, <1>5, <1>6 DEF now, u

\* A step of AgentLoop that saves.
LEMMA SavedStep ==
  ASSUME GraphAssumption, RInv, [Next]_vars, Saves
  PROVE  RInv'
<1> DEFINE now == Kept(Unsaved(graph, graph'))
<1>1. Sound(graph) /\ Sound(graph')
  BY StepFlows DEF Flows, RInv
<1>2. /\ now.status \in [Agents -> Statuses]
      /\ now.kind = graph'.kind /\ now.gate = graph'.gate /\ now.recov = graph'.recov /\ now.idle = graph'.idle
      /\ now.turns = graph'.turns /\ now.stopped = graph'.stopped /\ now.paused = graph'.paused
      /\ now.mail \in [Agents -> BOOLEAN] /\ now.pend \in [Agents -> BOOLEAN]
      /\ \A a \in Agents : (graph'.mail[a] => now.mail[a]) /\ (graph'.pend[a] => now.pend[a])
  BY <1>1, KeptFields
<1>3. /\ graph'.kind \in [Agents -> {"none", "user", "agents", "stalled"}] /\ graph'.gate \in [Agents -> BOOLEAN]
      /\ graph'.recov \in [Agents -> Nat] /\ graph'.idle \in [Agents -> Nat]
  BY <1>1 DEF Sound, Typed
<1>4. CASE disk' = now
  <2>1. Snapshot'
    BY <1>2, <1>3, <1>4 DEF Snapshot
  <2>2. MailOnDisk'
    BY <1>2, <1>4 DEF MailOnDisk
  <2>3. QED
    BY <1>1, <2>1, <2>2 DEF RInv
<1>5. CASE now = Kept(graph) /\ disk' = disk
  <2>1. /\ now.mail = graph.mail /\ now.pend = graph.pend /\ now.turns = graph.turns
        /\ now.stopped = graph.stopped /\ now.paused = graph.paused
    BY <1>5 DEF Kept
  <2> HIDE DEF now
  <2>2. Snapshot'
    BY <1>2, <1>5, <2>1 DEF Snapshot, RInv
  <2>3. MailOnDisk'
    BY <1>2, <1>5, <2>1 DEF MailOnDisk, RInv
  <2>4. QED
    BY <1>1, <2>2, <2>3 DEF RInv
<1>6. QED
  BY <1>4, <1>5 DEF Saves

\* restore rebuilds a sound graph, with the turns and stops of the one that was lost.
LEMMA RestoredSound ==
  ASSUME GraphAssumption, RInv, NEW spent \in {"below", "reserve", "budget"}
  PROVE  LET g == Restored(spent) IN
         Sound(g) /\ g.turns = graph.turns /\ g.stopped = graph.stopped
         /\ (Interactive /\ graph.paused => g.paused)
<1> DEFINE g == Restored(spent)
           statuses == [a \in Agents |-> IF disk.stopped[a] THEN "stopped" ELSE disk.status[a]]
<1>1. Typed(Blank)
  BY DEF Blank, Typed, Fields, Fresh, Zero, GraphAssumption, Points, Statuses, Active, Errors
<1>2. Interactive \in BOOLEAN /\ Typed(graph) /\ Snapshot /\ "none" \in Points /\ {"waiting", "stopped"} \subseteq Statuses
  BY DEF GraphAssumption, RInv, Sound, Points, Statuses, Active
<1>3. /\ DOMAIN g = Fields
      /\ g.status = Reset(statuses, PausedAgain(spent)) /\ g.wake = disk.stopped /\ g.kind = disk.kind
      /\ g.gate = disk.gate /\ g.mail = disk.mail /\ g.pend = disk.pend /\ g.recov = disk.recov
      /\ g.idle = disk.idle /\ g.turns = disk.turns /\ g.stopped = disk.stopped
      /\ g.at = [a \in Agents |-> "none"] /\ g.parks = [a \in Agents |-> TRUE]
      /\ g.told = Blank.told /\ g.notices = Blank.notices /\ g.closing = Blank.closing
      /\ g.delegate = Blank.delegate /\ g.clock = Blank.clock
  BY <1>1 DEF Restored, Typed, Fields
<1>4. /\ g.paused = PausedAgain(spent) /\ g.bstop = (~Interactive /\ spent = "budget")
      /\ g.rstop = (~Interactive /\ spent # "below")
  BY <1>1 DEF Restored, Typed, Fields
<1>5. /\ g.status \in [Agents -> Statuses]
      /\ \A a \in Agents : disk.stopped[a] => g.status[a] = "stopped"
      /\ ~PausedAgain(spent) => \A a \in Agents : g.status[a] # "budget_paused"
  <2>1. disk.stopped \in [Agents -> BOOLEAN] /\ disk.status \in [Agents -> Statuses]
    BY <1>2 DEF Snapshot, Typed
  <2>2. statuses \in [Agents -> Statuses] /\ \A a \in Agents : disk.stopped[a] => statuses[a] = "stopped"
    BY <1>2, <2>1
  <2> HIDE DEF statuses
  <2>3. QED
    BY <1>2, <1>3, <2>1, <2>2 DEF Reset
<1>6. /\ g.paused \in BOOLEAN /\ g.bstop \in BOOLEAN /\ g.rstop \in BOOLEAN
      /\ (g.paused => Interactive) /\ (Interactive => ~g.bstop /\ ~g.rstop)
      /\ (Interactive /\ disk.paused => g.paused)
  <2>1. disk.paused \in BOOLEAN
    BY <1>2 DEF Snapshot, Typed
  <2> HIDE DEF g
  <2>2. g.paused \in BOOLEAN /\ (g.paused => Interactive) /\ (Interactive /\ disk.paused => g.paused)
    BY <1>2, <1>4, <2>1 DEF PausedAgain
  <2>3. g.bstop \in BOOLEAN /\ (Interactive => ~g.bstop)
    BY <1>2, <1>4
  <2>4. g.rstop \in BOOLEAN /\ (Interactive => ~g.rstop)
    BY <1>2, <1>4
  <2>5. QED
    BY <2>2, <2>3, <2>4
<1> HIDE DEF g, statuses
<1>7. /\ g.wake \in [Agents -> BOOLEAN] /\ g.stopped \in [Agents -> BOOLEAN] /\ g.turns \in [Agents -> 0..TurnLimit]
      /\ g.at \in [Agents -> Points] /\ g.parks \in [Agents -> BOOLEAN]
  <2>1. disk.stopped \in [Agents -> BOOLEAN] /\ disk.turns \in [Agents -> 0..TurnLimit]
    <3>1. disk.stopped = graph.stopped /\ disk.turns = graph.turns
      BY <1>2 DEF Snapshot
    <3>2. graph.stopped \in [Agents -> BOOLEAN] /\ graph.turns \in [Agents -> 0..TurnLimit]
      BY <1>2 DEF Typed
    <3>3. QED
      BY <3>1, <3>2
  <2>2. g.wake = disk.stopped /\ g.stopped = disk.stopped /\ g.turns = disk.turns
    BY <1>3
  <2>3. g.at \in [Agents -> Points]
    BY <1>2, <1>3
  <2>4. g.parks \in [Agents -> BOOLEAN]
    BY <1>3
  <2>5. QED
    BY <2>1, <2>2, <2>3, <2>4
<1>8. ~g.paused => \A a \in Agents : g.status[a] # "budget_paused"
  BY <1>4, <1>5
<1> HIDE DEF g
<1>9. Typed(g)
  BY <1>1, <1>2, <1>3, <1>5, <1>6, <1>7 DEF Typed, Snapshot
<1>10. Sound(g)
  BY <1>3, <1>5, <1>6, <1>8, <1>9 DEF Sound
<1>11. QED
  BY <1>2, <1>3, <1>6, <1>10 DEF g, Snapshot

\* So does the whole of --resume, which wakes the agents and may bring a message.
LEMMA RestartSound ==
  ASSUME GraphAssumption, RInv, Restart
  PROVE  /\ Sound(graph') /\ graph'.turns = graph.turns
         /\ \A a \in Agents : graph.stopped[a] => graph'.stopped[a]
         /\ Interactive /\ graph.paused => graph'.paused
         /\ RInv'
<1>1. PICK spent \in {"below", "reserve", "budget"}, instructed \in BOOLEAN, broken \in SUBSET Children :
        graph' = Started(IF instructed THEN Send(Respawned(Restored(spent), broken), Root, TRUE)
                         ELSE Respawned(Restored(spent), broken), Root)
  BY DEF Restart
<1> DEFINE g == Restored(spent)
           h == Respawned(g, broken)
           k == IF instructed THEN Send(h, Root, TRUE) ELSE h
<1>2. /\ Sound(g) /\ g.turns = graph.turns /\ g.stopped = graph.stopped
      /\ (Interactive /\ graph.paused => g.paused)
  BY RestoredSound
<1> HIDE DEF g
<1>3. Calm(g, h)
  BY <1>2, TreeCalm
<1> HIDE DEF h
<1>4. Calm(g, k)
  <2>1. TRUE \in Flags
    BY DEF Flags
  <2>2. Calm(g, Send(h, Root, TRUE))
    BY <1>3, <2>1, RootKnown, CalmSound, SendCalm, CalmTwice
  <2>3. QED
    BY <1>3, <2>2
<1> HIDE DEF k
<1>5. Calm(g, Started(k, Root))
  BY <1>4, RootKnown, CalmSound, StartedCalm, CalmTwice
<1>6. graph' = Started(k, Root)
  BY <1>1 DEF g, h, k
<1>7. Calm(g, graph')
  BY <1>5, <1>6
<1>8. /\ Sound(graph') /\ graph'.turns = graph.turns
      /\ \A a \in Agents : graph.stopped[a] => graph'.stopped[a]
      /\ Interactive /\ graph.paused => graph'.paused
  BY <1>2, <1>7 DEF Calm
<1>9. disk' = Kept(graph')
  BY DEF Restart
<1>10. /\ disk'.status = graph'.status /\ disk'.kind = graph'.kind /\ disk'.gate = graph'.gate
       /\ disk'.mail = graph'.mail /\ disk'.pend = graph'.pend /\ disk'.recov = graph'.recov
       /\ disk'.idle = graph'.idle /\ disk'.turns = graph'.turns /\ disk'.stopped = graph'.stopped
       /\ disk'.paused = graph'.paused
  BY <1>9 DEF Kept
<1>11. Snapshot' /\ MailOnDisk'
  BY <1>8, <1>10 DEF Sound, Typed, Snapshot, MailOnDisk
<1>12. QED
  BY <1>8, <1>11 DEF RInv

\* A restart or a saved step keeps RInv.
LEMMA RInvKept ==
  ASSUME GraphAssumption
  PROVE  RestartSpec => []RInv
<1>1. RestartInit => RInv
  <2>1. SUFFICES ASSUME RestartInit PROVE RInv
    OBVIOUS
  <2>2. Sound(graph)
    BY <2>1, InitSound DEF RestartInit
  <2>3. /\ disk.status = graph.status /\ disk.kind = graph.kind /\ disk.gate = graph.gate
        /\ disk.mail = graph.mail /\ disk.pend = graph.pend /\ disk.recov = graph.recov
        /\ disk.idle = graph.idle /\ disk.turns = graph.turns /\ disk.stopped = graph.stopped
        /\ disk.paused = graph.paused
    BY <2>1 DEF RestartInit, Kept
  <2>4. Snapshot /\ MailOnDisk
    BY <2>2, <2>3 DEF Sound, Typed, Snapshot, MailOnDisk
  <2>5. QED
    BY <2>2, <2>4 DEF RInv
<1>2. RInv /\ [RestartNext]_world => RInv'
  <2>1. SUFFICES ASSUME RInv, [RestartNext]_world PROVE RInv'
    OBVIOUS
  <2>2. CASE UNCHANGED world
    BY <2>1, <2>2 DEF world, RInv, Snapshot, MailOnDisk
  <2>3. CASE Saved(Next)
    BY <2>1, <2>3, SavedStep DEF Saved
  <2>4. CASE Restart
    BY <2>1, <2>4, RestartSound
  <2>5. QED
    BY <2>1, <2>2, <2>3, <2>4 DEF RestartNext
<1>3. QED
  BY <1>1, <1>2, PTL DEF RestartSpec

\* A message that was accepted and that nobody has begun to read is in agents.json,
\* whenever the process dies (send and its _maybe_snapshot, consume_pending and the
\* return of the mail when the append failed).
THEOREM MailSurvives ==
  ASSUME GraphAssumption
  PROVE  RestartSpec => []MailOnDisk
<1>1. RInv => MailOnDisk
  BY DEF RInv
<1>2. QED
  BY <1>1, RInvKept, PTL

\* No step and no restart, with a ledger in any state, gives an agent back a turn of
\* its allowance or starts again one that was stopped (snapshot, restore_coordinator,
\* respawn_subagents).
THEOREM RestartsKeepTurnsAndStops ==
  ASSUME GraphAssumption
  PROVE  RestartSpec => RestartsForgetNothing
<1>1. RInv /\ [RestartNext]_world =>
        [\A a \in Agents :
           /\ graph'.turns[a] >= graph.turns[a]
           /\ graph.stopped[a] => graph'.status[a] = "stopped" /\ graph'.turns[a] = graph.turns[a]]_world
  <2>1. SUFFICES ASSUME RInv, RestartNext, NEW a \in Agents
                 PROVE  /\ graph'.turns[a] >= graph.turns[a]
                        /\ graph.stopped[a] => graph'.status[a] = "stopped" /\ graph'.turns[a] = graph.turns[a]
    OBVIOUS
  <2>2. graph.turns[a] >= graph.turns[a]
    <3>1. graph.turns \in [Agents -> 0..TurnLimit]
      BY <2>1 DEF RInv, Sound, Typed
    <3>2. graph.turns[a] \in 0..TurnLimit
      BY <3>1
    <3>3. QED
      BY <3>2
  <2>3. CASE Saved(Next)
    <3>1. Flows(graph, graph') \/ (Sound(graph') /\ graph'.turns = graph.turns /\ graph'.stopped = graph.stopped)
      BY <2>1, <2>3, StepFlows DEF Saved, RInv
    <3>2. QED
      BY <2>2, <3>1 DEF Flows, Sound
  <2>4. CASE Restart
    BY <2>1, <2>2, <2>4, RestartSound DEF Sound
  <2>5. QED
    BY <2>1, <2>3, <2>4 DEF RestartNext
<1>2. QED
  BY <1>1, RInvKept, PTL DEF RestartSpec, RestartsForgetNothing

\* The pause of an interactive scan ends with the operator's resume and with nothing
\* else: no message, tool, deadline or restart lifts it, even where the ledger has
\* room again (restore_coordinator, resume_budget).
THEOREM OperatorAloneResumes ==
  ASSUME GraphAssumption
  PROVE  RestartSpec => OnlyOperatorResumes
<1>1. RInv /\ [RestartNext]_world =>
        [Interactive /\ graph.paused /\ ~graph'.paused => OperatorResume]_world
  <2>1. SUFFICES ASSUME RInv, RestartNext, Interactive, graph.paused, ~graph'.paused PROVE OperatorResume
    OBVIOUS
  <2>2. CASE Saved(Next)
    BY <2>1, <2>2, StepFlows DEF Saved, RInv, Flows
  <2>3. CASE Restart
    BY <2>1, <2>3, RestartSound
  <2>4. QED
    BY <2>1, <2>2, <2>3 DEF RestartNext
<1>2. QED
  BY <1>1, RInvKept, PTL DEF RestartSpec, OnlyOperatorResumes
=============================================================================
