------------------------- MODULE AgentSessionsProofs -------------------------
(***************************************************************************)
(* What AgentSessions keeps, for every length of a conversation, every     *)
(* limit and every bound: no result without its call, however the          *)
(* conversation is cut, and nothing forgotten by a rewrite that is not cut *)
(* off.  A compaction is shown to keep results by what the count of open   *)
(* calls counts: no call before the boundary waits for a result behind it. *)
(***************************************************************************)
EXTENDS AgentSessions, TotalsProofs, SequenceTheorems, FiniteSetTheorems

-----------------------------------------------------------------------------
(* The inductive invariant. *)

Kinds == {"text", "call", "output", "shot", "elided", "reasoning"}
Items == [id : Nat, kind : Kinds, tie : Nat, covers : SUBSET Nat]

Calls(s) == {i \in 1..Len(s) : s[i].kind = "call"}
Outputs(s) == {i \in 1..Len(s) : IsOutput(s[i])}

\* Each result has a call before it, and no call has two results or the ID of another.
Answered(s) == \A i \in Outputs(s) : \E j \in Calls(s) : j < i /\ s[j].id = s[i].tie
AnsweredOnce(s) == \A i, j \in Outputs(s) : s[i].tie = s[j].tie => i = j
CalledOnce(s) == \A i, j \in Calls(s) : s[i].id = s[j].id => i = j

\* A call that came from a reasoning stands behind it; texts and reasoning need nothing.
Reasoned(s) ==
  \A i \in Calls(s) :
    s[i].tie # 0 => i > 1 /\ s[i - 1].kind = "reasoning" /\ s[i - 1].id = s[i].tie
Unbound(s) == \A i \in 1..Len(s) : s[i].kind \in {"text", "reasoning"} => s[i].tie = 0

Paired(s) ==
  /\ s \in Seq(Items)
  /\ Answered(s) /\ AnsweredOnce(s) /\ CalledOnce(s) /\ Reasoned(s) /\ Unbound(s)

\* Nothing but messages and summaries.
Texts(s) == \A i \in 1..Len(s) : s[i].kind = "text"

CallsUpTo(s, n) == \A i \in Calls(s) : s[i].id <= n

Places == {"idle", "images", "compact", "summary", "call", "running", "salvage",
           "clear", "store", "clear again", "restore"}
Works == [old : Seq(Items), new : Seq(Items), next : {"idle", "images", "compact", "call"},
          failed : {"idle", "images", "compact", "call", "salvage"}]

TypeOK ==
  /\ {session, read, copy, late} \subseteq Seq(Items)
  /\ at \in Places /\ work \in Works /\ forced \in BOOLEAN
  /\ tries \in [Reasons -> Nat]
  /\ {made, faults, stops} \subseteq Nat

\* Every conversation the agent holds could be sent to the provider, and has no call
\* that did not come to be.
Good(s, n) == Paired(s) /\ CallsUpTo(s, n)
AllGood == \A s \in {session, read, copy, work.old, work.new} : Good(s, made)
LateIsText == Texts(late) /\ Paired(late)

\* Between the clearing and the storing of a rewrite only messages come in.
Emptied == at \in {"store", "restore"} => Texts(session)

AtRest == ~Rewriting => work = NoWork
Failing == at \in {"clear again", "restore"} => faults > 0

\* The conversation begins with what was read before the run, while no call of the
\* database has failed.
Begins(r, s) == Len(r) <= Len(s) /\ \A i \in 1..Len(r) : s[i] = r[i]
ReadBegins ==
  /\ faults = 0 /\ at \in {"compact", "summary", "running", "salvage"} => Begins(read, session)
  /\ "compact" \in {work.next, work.failed} => read = <<>>

\* What is about to be cleared is in what will be stored, but for the mistaken salvage.
Unlike == faults > 0 /\ work.next = "idle" /\ Before(work.new, Len(work.old)) # work.old
Covered == at \in {"clear", "store"} => Ids(work.old) \subseteq Ids(work.new) \/ Unlike
StillThere == at = "clear" => Ids(work.old) \subseteq Ids(session)

IInv ==
  /\ TypeOK /\ AllGood /\ LateIsText /\ Emptied /\ AtRest /\ Failing
  /\ ReadBegins /\ Covered /\ StillThere

-----------------------------------------------------------------------------
(* Items of a conversation that is put together from two. *)

LEMMA JoinedItems ==
  ASSUME NEW s \in Seq(Items), NEW t \in Seq(Items)
  PROVE  /\ s \o t \in Seq(Items)
         /\ Len(s \o t) = Len(s) + Len(t)
         /\ \A i \in 1..Len(s) : (s \o t)[i] = s[i]
         /\ \A i \in 1..Len(t) : (s \o t)[Len(s) + i] = t[i]
OBVIOUS

\* An item of s \o t is one of s or one of t.
LEMMA FromEither ==
  ASSUME NEW s \in Seq(Items), NEW t \in Seq(Items), NEW i \in 1..Len(s \o t)
  PROVE  \/ i \in 1..Len(s) /\ (s \o t)[i] = s[i]
         \/ \E k \in 1..Len(t) : i = Len(s) + k /\ (s \o t)[i] = t[k]
<1>1. CASE i <= Len(s)
  BY <1>1, JoinedItems
<1>2. CASE i > Len(s)
  <2>1. i - Len(s) \in 1..Len(t) /\ i = Len(s) + (i - Len(s))
    BY <1>2, JoinedItems
  <2>2. QED
    BY <2>1, JoinedItems
<1>3. QED
  BY <1>1, <1>2, JoinedItems

\* Two conversations in one are paired when they share no call.
LEMMA Joined ==
  ASSUME NEW s, NEW t, Paired(s), Paired(t),
         \A i \in Calls(s), j \in Calls(t) : s[i].id # t[j].id
  PROVE  Paired(s \o t)
<1> DEFINE u == s \o t
<1>1. s \in Seq(Items) /\ t \in Seq(Items)
  BY DEF Paired
<1>2. /\ u \in Seq(Items)
      /\ Len(u) = Len(s) + Len(t) /\ Len(s) \in Nat /\ Len(t) \in Nat
      /\ \A i \in 1..Len(s) : u[i] = s[i]
      /\ \A i \in 1..Len(t) : u[Len(s) + i] = t[i]
  BY <1>1, JoinedItems
<1>3. \A i \in 1..Len(u) :
        \/ i \in 1..Len(s) /\ u[i] = s[i]
        \/ \E k \in 1..Len(t) : i = Len(s) + k /\ u[i] = t[k]
  BY <1>1, FromEither
<1> HIDE DEF u
<1>4. \A i \in Calls(u) :
        \/ i \in Calls(s) /\ u[i] = s[i]
        \/ \E k \in Calls(t) : i = Len(s) + k /\ u[i] = t[k]
  BY <1>3 DEF Calls
<1>5. \A i \in Outputs(u) :
        \/ i \in Outputs(s) /\ u[i] = s[i]
        \/ \E k \in Outputs(t) : i = Len(s) + k /\ u[i] = t[k]
  BY <1>3 DEF Outputs
<1>6. /\ \A i \in Calls(s) : i \in Calls(u) /\ u[i] = s[i]
      /\ \A i \in Calls(t) : Len(s) + i \in Calls(u) /\ u[Len(s) + i] = t[i]
  BY <1>2 DEF Calls
<1>7. Answered(u)
  <2> SUFFICES ASSUME NEW i \in Outputs(u) PROVE \E j \in Calls(u) : j < i /\ u[j].id = u[i].tie
    BY DEF Answered
  <2>1. CASE i \in Outputs(s) /\ u[i] = s[i]
    <3>1. PICK j \in Calls(s) : j < i /\ s[j].id = s[i].tie
      BY <2>1 DEF Paired, Answered
    <3>2. QED
      BY <2>1, <3>1, <1>6
  <2>2. CASE \E k \in Outputs(t) : i = Len(s) + k /\ u[i] = t[k]
    <3>1. PICK k \in Outputs(t) : i = Len(s) + k /\ u[i] = t[k]
      BY <2>2
    <3>2. PICK j \in Calls(t) : j < k /\ t[j].id = t[k].tie
      BY <3>1 DEF Paired, Answered
    <3>3. Len(s) + j \in Calls(u) /\ u[Len(s) + j] = t[j] /\ Len(s) + j < i
      BY <1>2, <1>6, <3>1, <3>2 DEF Calls, Outputs
    <3>4. QED
      BY <3>1, <3>2, <3>3
  <2>3. QED
    BY <1>5, <2>1, <2>2
<1>8. \A i \in Outputs(s), k \in Outputs(t) : s[i].tie # t[k].tie
  BY DEF Paired, Answered
<1>9. AnsweredOnce(u)
  <2> SUFFICES ASSUME NEW i \in Outputs(u), NEW j \in Outputs(u), u[i].tie = u[j].tie PROVE i = j
    BY DEF AnsweredOnce
  <2>1. QED
    BY <1>5, <1>8 DEF Paired, AnsweredOnce
<1>10. CalledOnce(u)
  <2> SUFFICES ASSUME NEW i \in Calls(u), NEW j \in Calls(u), u[i].id = u[j].id PROVE i = j
    BY DEF CalledOnce
  <2>1. QED
    BY <1>4 DEF Paired, CalledOnce
<1>11. Reasoned(u)
  <2> SUFFICES ASSUME NEW i \in Calls(u), u[i].tie # 0
               PROVE  i > 1 /\ u[i - 1].kind = "reasoning" /\ u[i - 1].id = u[i].tie
    BY DEF Reasoned
  <2>1. CASE i \in Calls(s) /\ u[i] = s[i]
    <3>1. i > 1 /\ s[i - 1].kind = "reasoning" /\ s[i - 1].id = s[i].tie
      BY <2>1 DEF Paired, Reasoned
    <3>2. i - 1 \in 1..Len(s)
      BY <2>1, <3>1, <1>2 DEF Calls
    <3>3. QED
      BY <2>1, <3>1, <3>2, <1>2
  <2>2. CASE \E k \in Calls(t) : i = Len(s) + k /\ u[i] = t[k]
    <3>1. PICK k \in Calls(t) : i = Len(s) + k /\ u[i] = t[k]
      BY <2>2
    <3>2. k > 1 /\ t[k - 1].kind = "reasoning" /\ t[k - 1].id = t[k].tie
      BY <3>1 DEF Paired, Reasoned
    <3>3. k - 1 \in 1..Len(t) /\ i - 1 = Len(s) + (k - 1) /\ i > 1
      BY <3>1, <3>2, <1>2 DEF Calls
    <3>4. u[i - 1] = t[k - 1]
      BY <3>3, <1>2
    <3>5. QED
      BY <3>1, <3>2, <3>3, <3>4
  <2>3. QED
    BY <1>4, <2>1, <2>2
<1>12. Unbound(u)
  BY <1>3 DEF Paired, Unbound
<1>13. QED
  BY <1>2, <1>7, <1>9, <1>10, <1>11, <1>12 DEF Paired, u

-----------------------------------------------------------------------------
(* What a cycle adds. *)

\* The calls of s are numbered from n on, below the item after the last.
NumberedFrom(s, n) == \A i \in Calls(s) : n <= s[i].id /\ s[i].id < n + Len(s)

LEMMA ItemFields ==
  ASSUME NEW id \in Nat, NEW kind \in Kinds, NEW tie \in Nat
  PROVE  /\ Item(id, kind, tie) \in Items
         /\ Item(id, kind, tie).id = id
         /\ Item(id, kind, tie).kind = kind
         /\ Item(id, kind, tie).tie = tie
BY DEF Item, Items

\* Texts are paired, and none of them is a call.
LEMMA TextsPaired ==
  ASSUME NEW s \in Seq(Items), Texts(s), Unbound(s)
  PROVE  Paired(s) /\ Calls(s) = {}
<1>1. Calls(s) = {} /\ Outputs(s) = {}
  BY DEF Texts, Calls, Outputs, IsOutput
<1>2. QED
  BY <1>1 DEF Paired, Answered, AnsweredOnce, CalledOnce, Reasoned

LEMMA EmptyPaired ==
  /\ <<>> \in Seq(Items) /\ Paired(<<>>) /\ Texts(<<>>)
  /\ Calls(<<>>) = {} /\ Len(<<>>) = 0
<1>1. <<>> \in Seq(Items) /\ Texts(<<>>) /\ Unbound(<<>>) /\ Len(<<>>) = 0
  BY DEF Texts, Unbound
<1>2. QED
  BY <1>1, TextsPaired

LEMMA MessagePaired ==
  ASSUME NEW n \in Nat
  PROVE  /\ Paired(<<Item(n, "text", 0)>>)
         /\ Texts(<<Item(n, "text", 0)>>)
         /\ Calls(<<Item(n, "text", 0)>>) = {}
         /\ Len(<<Item(n, "text", 0)>>) = 1
<1> DEFINE a == Item(n, "text", 0)
<1>1. a \in Items /\ a.kind = "text" /\ a.tie = 0
  BY ItemFields DEF Kinds
<1> HIDE DEF a
<1> DEFINE t == <<a>>
<1>2. t \in Seq(Items) /\ Len(t) = 1 /\ \A i \in 1..Len(t) : t[i] = a
  BY <1>1
<1> HIDE DEF t
<1>3. Texts(t) /\ Unbound(t)
  BY <1>1, <1>2 DEF Texts, Unbound
<1>4. Paired(t) /\ Calls(t) = {}
  BY <1>2, <1>3, TextsPaired
<1>5. QED
  BY <1>2, <1>3, <1>4 DEF t, a

\* A call with its result.
LEMMA CallAndResult ==
  ASSUME NEW n \in Nat \ {0}, NEW kind \in {"output", "shot"}
  PROVE  LET t == <<Item(n, "call", 0), Item(n + 1, kind, n)>>
         IN  Paired(t) /\ NumberedFrom(t, n) /\ Len(t) = 2
<1> DEFINE a == Item(n, "call", 0)
           b == Item(n + 1, kind, n)
<1>1. /\ a \in Items /\ a.kind = "call" /\ a.tie = 0 /\ a.id = n
      /\ b \in Items /\ b.kind = kind /\ b.tie = n
  BY ItemFields DEF Kinds
<1> HIDE DEF a, b
<1> DEFINE t == <<a, b>>
<1>2. t \in Seq(Items) /\ Len(t) = 2 /\ t[1] = a /\ t[2] = b
  BY <1>1
<1> HIDE DEF t
<1>3. Calls(t) = {1} /\ Outputs(t) = {2}
  BY <1>1, <1>2 DEF Calls, Outputs, IsOutput
<1>4. Answered(t) /\ AnsweredOnce(t) /\ CalledOnce(t) /\ Reasoned(t)
  BY <1>1, <1>2, <1>3 DEF Answered, AnsweredOnce, CalledOnce, Reasoned
<1>5. Unbound(t)
  BY <1>1, <1>2 DEF Unbound
<1>6. NumberedFrom(t, n)
  BY <1>1, <1>2, <1>3 DEF NumberedFrom
<1>7. QED
  BY <1>2, <1>4, <1>5, <1>6 DEF Paired, t, a, b

\* Two calls at once, and then their results.
LEMMA ParallelCalls ==
  ASSUME NEW n \in Nat \ {0}
  PROVE  LET t == <<Item(n, "call", 0), Item(n + 1, "call", 0), Item(n + 2, "output", n), Item(n + 3, "output", n + 1)>>
         IN  Paired(t) /\ NumberedFrom(t, n) /\ Len(t) = 4
<1> DEFINE a == Item(n, "call", 0)
           b == Item(n + 1, "call", 0)
           c == Item(n + 2, "output", n)
           d == Item(n + 3, "output", n + 1)
<1>1. /\ a \in Items /\ a.kind = "call" /\ a.tie = 0 /\ a.id = n
      /\ b \in Items /\ b.kind = "call" /\ b.tie = 0 /\ b.id = n + 1
      /\ c \in Items /\ c.kind = "output" /\ c.tie = n
      /\ d \in Items /\ d.kind = "output" /\ d.tie = n + 1
  BY ItemFields DEF Kinds
<1> HIDE DEF a, b, c, d
<1> DEFINE t == <<a, b, c, d>>
<1>2. t \in Seq(Items) /\ Len(t) = 4 /\ t[1] = a /\ t[2] = b /\ t[3] = c /\ t[4] = d
  BY <1>1
<1> HIDE DEF t
<1>3. Calls(t) = {1, 2} /\ Outputs(t) = {3, 4}
  BY <1>1, <1>2 DEF Calls, Outputs, IsOutput
<1>4. Answered(t) /\ AnsweredOnce(t) /\ CalledOnce(t) /\ Reasoned(t)
  BY <1>1, <1>2, <1>3 DEF Answered, AnsweredOnce, CalledOnce, Reasoned
<1>5. Unbound(t)
  BY <1>1, <1>2 DEF Unbound
<1>6. NumberedFrom(t, n)
  BY <1>1, <1>2, <1>3 DEF NumberedFrom
<1>7. QED
  BY <1>2, <1>4, <1>5, <1>6 DEF Paired, t, a, b, c, d

\* A reasoning with its call, and the result of that.
LEMMA ReasonedCall ==
  ASSUME NEW n \in Nat \ {0}
  PROVE  LET t == <<Item(n, "reasoning", 0), Item(n + 1, "call", n), Item(n + 2, "output", n + 1)>>
             r == <<Item(n, "reasoning", 0), Item(n + 1, "call", n)>>
         IN  /\ Paired(t) /\ NumberedFrom(t, n) /\ Len(t) = 3
             /\ Paired(r) /\ NumberedFrom(r, n) /\ Len(r) = 2
<1> DEFINE a == Item(n, "reasoning", 0)
           b == Item(n + 1, "call", n)
           c == Item(n + 2, "output", n + 1)
<1>1. /\ a \in Items /\ a.kind = "reasoning" /\ a.tie = 0 /\ a.id = n
      /\ b \in Items /\ b.kind = "call" /\ b.tie = n /\ b.id = n + 1
      /\ c \in Items /\ c.kind = "output" /\ c.tie = n + 1
  BY ItemFields DEF Kinds
<1> HIDE DEF a, b, c
<1> DEFINE t == <<a, b, c>>
           r == <<a, b>>
<1>2. /\ t \in Seq(Items) /\ Len(t) = 3 /\ t[1] = a /\ t[2] = b /\ t[3] = c
      /\ r \in Seq(Items) /\ Len(r) = 2 /\ r[1] = a /\ r[2] = b
  BY <1>1
<1> HIDE DEF t, r
<1>3. Calls(t) = {2} /\ Outputs(t) = {3} /\ Calls(r) = {2} /\ Outputs(r) = {}
  BY <1>1, <1>2 DEF Calls, Outputs, IsOutput
<1>4. Answered(t) /\ AnsweredOnce(t) /\ CalledOnce(t) /\ Reasoned(t)
  BY <1>1, <1>2, <1>3 DEF Answered, AnsweredOnce, CalledOnce, Reasoned
<1>5. Answered(r) /\ AnsweredOnce(r) /\ CalledOnce(r) /\ Reasoned(r)
  BY <1>1, <1>2, <1>3 DEF Answered, AnsweredOnce, CalledOnce, Reasoned
<1>6. Unbound(t) /\ Unbound(r)
  BY <1>1, <1>2 DEF Unbound
<1>7. NumberedFrom(t, n) /\ NumberedFrom(r, n)
  BY <1>1, <1>2, <1>3 DEF NumberedFrom
<1>8. QED
  BY <1>2, <1>4, <1>5, <1>6, <1>7 DEF Paired, t, r, a, b, c

LEMMA TurnPaired ==
  ASSUME NEW n \in Nat \ {0}, NEW t \in Turn(n)
  PROVE  Paired(t) /\ NumberedFrom(t, n) /\ Len(t) \in Nat
BY CallAndResult, ParallelCalls, ReasonedCall DEF Turn

LEMMA UnstoredPaired ==
  ASSUME NEW n \in Nat \ {0}, NEW t \in Unstored(n)
  PROVE  Paired(t) /\ NumberedFrom(t, n) /\ Len(t) \in Nat
<1>1. Paired(<<>>) /\ NumberedFrom(<<>>, n) /\ Len(<<>>) \in Nat
  BY EmptyPaired DEF NumberedFrom
<1>2. QED
  BY <1>1, CallAndResult, ReasonedCall DEF Unstored

-----------------------------------------------------------------------------
(* Screenshots are replaced by a note: the items keep their places and their ties. *)

LEMMA ElidedItems ==
  ASSUME NEW s \in Seq(Items), NEW S \in SUBSET Shots(s)
  PROVE  /\ Elided(s, S) \in Seq(Items) /\ Len(Elided(s, S)) = Len(s)
         /\ \A i \in 1..Len(s) :
              /\ Elided(s, S)[i].id = s[i].id /\ Elided(s, S)[i].tie = s[i].tie
              /\ Elided(s, S)[i].covers = s[i].covers
              /\ IF i \in S THEN s[i].kind = "shot" /\ Elided(s, S)[i].kind = "elided"
                            ELSE Elided(s, S)[i].kind = s[i].kind
<1> DEFINE e == Elided(s, S)
<1>1. DOMAIN s = 1..Len(s) /\ Len(s) \in Nat /\ \A i \in 1..Len(s) : s[i] \in Items
  OBVIOUS
<1>2. e = [i \in 1..Len(s) |-> IF i \in S THEN [s[i] EXCEPT !.kind = "elided"] ELSE s[i]]
  BY <1>1 DEF Elided
<1> HIDE DEF e
<1>3. \A i \in 1..Len(s) : e[i] = IF i \in S THEN [s[i] EXCEPT !.kind = "elided"] ELSE s[i]
  BY <1>2
<1>4. \A i \in 1..Len(s) : i \in S => s[i].kind = "shot"
  BY <1>1 DEF Shots
<1>5. ASSUME NEW i \in 1..Len(s)
      PROVE  /\ e[i] \in Items
             /\ e[i].id = s[i].id /\ e[i].tie = s[i].tie /\ e[i].covers = s[i].covers
             /\ IF i \in S THEN s[i].kind = "shot" /\ e[i].kind = "elided" ELSE e[i].kind = s[i].kind
  <2>1. s[i] \in Items
    BY <1>1
  <2>2. CASE i \in S
    <3>1. e[i] = [s[i] EXCEPT !.kind = "elided"] /\ s[i].kind = "shot"
      BY <1>3, <1>4, <2>2
    <3>2. QED
      BY <2>1, <2>2, <3>1 DEF Items, Kinds
  <2>3. CASE i \notin S
    BY <1>3, <2>1, <2>3
  <2>4. QED
    BY <2>2, <2>3
<1>6. e \in [1..Len(s) -> Items]
  BY <1>2, <1>5
<1>7. e \in Seq(Items) /\ Len(e) = Len(s)
  BY <1>1, <1>6
<1>8. QED
  BY <1>5, <1>7 DEF e

LEMMA ElidedPaired ==
  ASSUME NEW s, Paired(s), NEW S \in SUBSET Shots(s), NEW n \in Nat, CallsUpTo(s, n)
  PROVE  Paired(Elided(s, S)) /\ CallsUpTo(Elided(s, S), n)
<1> DEFINE e == Elided(s, S)
<1>1. s \in Seq(Items)
  BY DEF Paired
<1>2. /\ e \in Seq(Items) /\ Len(e) = Len(s)
      /\ \A i \in 1..Len(s) :
           /\ e[i].id = s[i].id /\ e[i].tie = s[i].tie
           /\ IF i \in S THEN s[i].kind = "shot" /\ e[i].kind = "elided" ELSE e[i].kind = s[i].kind
  BY <1>1, ElidedItems
<1> HIDE DEF e
<1>3. \A i \in 1..Len(s) :
        /\ e[i].kind = "call" <=> s[i].kind = "call"
        /\ e[i].kind = "reasoning" <=> s[i].kind = "reasoning"
        /\ e[i].kind = "text" <=> s[i].kind = "text"
        /\ IsOutput(e[i]) <=> IsOutput(s[i])
  BY <1>2 DEF IsOutput
<1>4. Calls(e) = Calls(s) /\ Outputs(e) = Outputs(s)
  BY <1>2, <1>3 DEF Calls, Outputs
<1>5. \A i \in Calls(s) \cup Outputs(s) : e[i].id = s[i].id /\ e[i].tie = s[i].tie
  BY <1>2 DEF Calls, Outputs
<1>6. Answered(e) /\ AnsweredOnce(e) /\ CalledOnce(e)
  BY <1>4, <1>5 DEF Paired, Answered, AnsweredOnce, CalledOnce
<1>7. Reasoned(e)
  <2> SUFFICES ASSUME NEW i \in Calls(e), e[i].tie # 0
               PROVE  i > 1 /\ e[i - 1].kind = "reasoning" /\ e[i - 1].id = e[i].tie
    BY DEF Reasoned
  <2>1. i > 1 /\ s[i - 1].kind = "reasoning" /\ s[i - 1].id = s[i].tie
    BY <1>4, <1>5 DEF Paired, Reasoned
  <2>2. i - 1 \in 1..Len(s)
    BY <1>1, <1>4, <2>1 DEF Calls
  <2>3. QED
    BY <1>2, <1>3, <1>4, <1>5, <2>1, <2>2
<1>8. Unbound(e)
  BY <1>2, <1>3 DEF Paired, Unbound
<1>9. CallsUpTo(e, n)
  BY <1>4, <1>5 DEF CallsUpTo
<1>10. QED
  BY <1>2, <1>6, <1>7, <1>8, <1>9 DEF Paired, e

-----------------------------------------------------------------------------
(* What a conversation knows. *)

LEMMA KnownIds ==
  ASSUME NEW s \in Seq(Items), NEW x
  PROVE  x \in Ids(s) <=> x # 0 /\ \E i \in 1..Len(s) : x = s[i].id \/ x \in s[i].covers
<1> DEFINE Of(i) == {s[i].id} \cup s[i].covers
           All == UNION {Of(i) : i \in DOMAIN s}
<1>1. DOMAIN s = 1..Len(s)
  OBVIOUS
<1>2. \A i : x \in Of(i) <=> x = s[i].id \/ x \in s[i].covers
  OBVIOUS
<1>3. Ids(s) = All \ {0}
  BY DEF Ids
<1> HIDE DEF Of
<1>4. x \in All <=> \E i \in DOMAIN s : x \in Of(i)
  OBVIOUS
<1> HIDE DEF All
<1>5. QED
  BY <1>1, <1>2, <1>3, <1>4

LEMMA JoinedIds ==
  ASSUME NEW s \in Seq(Items), NEW t \in Seq(Items)
  PROVE  Ids(s \o t) = Ids(s) \cup Ids(t)
<1> DEFINE u == s \o t
<1>1. /\ u \in Seq(Items)
      /\ Len(u) = Len(s) + Len(t) /\ Len(s) \in Nat /\ Len(t) \in Nat
      /\ \A i \in 1..Len(s) : u[i] = s[i]
      /\ \A i \in 1..Len(t) : u[Len(s) + i] = t[i]
  BY JoinedItems
<1>2. \A i \in 1..Len(u) :
        \/ i \in 1..Len(s) /\ u[i] = s[i]
        \/ \E k \in 1..Len(t) : i = Len(s) + k /\ u[i] = t[k]
  BY FromEither
<1> HIDE DEF u
<1>3. ASSUME NEW x \in Ids(u) PROVE x \in Ids(s) \cup Ids(t)
  <2>1. x # 0
    BY <1>1, KnownIds
  <2>2. PICK i \in 1..Len(u) : x = u[i].id \/ x \in u[i].covers
    BY <1>1, KnownIds
  <2>3. (\E k \in 1..Len(s) : u[i] = s[k]) \/ (\E k \in 1..Len(t) : u[i] = t[k])
    BY <1>2
  <2>4. QED
    BY <2>1, <2>2, <2>3, KnownIds
<1>4. ASSUME NEW x \in Ids(s) PROVE x \in Ids(u)
  <2>1. PICK i \in 1..Len(s) : x = s[i].id \/ x \in s[i].covers
    BY KnownIds
  <2>2. i \in 1..Len(u) /\ u[i] = s[i] /\ x # 0
    BY <1>1, KnownIds
  <2>3. QED
    BY <1>1, <2>1, <2>2, KnownIds
<1>5. ASSUME NEW x \in Ids(t) PROVE x \in Ids(u)
  <2>1. PICK i \in 1..Len(t) : x = t[i].id \/ x \in t[i].covers
    BY KnownIds
  <2>2. Len(s) + i \in 1..Len(u) /\ u[Len(s) + i] = t[i] /\ x # 0
    BY <1>1, KnownIds
  <2>3. QED
    BY <1>1, <2>1, <2>2, KnownIds
<1>6. QED
  BY <1>3, <1>4, <1>5 DEF u

LEMMA ElidedIds ==
  ASSUME NEW s \in Seq(Items), NEW S \in SUBSET Shots(s)
  PROVE  Ids(Elided(s, S)) = Ids(s)
<1> DEFINE e == Elided(s, S)
<1>1. /\ e \in Seq(Items) /\ Len(e) = Len(s)
      /\ \A i \in 1..Len(s) : e[i].id = s[i].id /\ e[i].covers = s[i].covers
  BY ElidedItems
<1> HIDE DEF e
<1>2. \A x : x \in Ids(e) <=> x \in Ids(s)
  BY <1>1, KnownIds
<1>3. QED
  BY <1>2 DEF e

LEMMA NumberedIds ==
  ASSUME NEW s \in Seq(Items)
  PROVE  Ids(s) \in SUBSET Nat
<1>1. ASSUME NEW x \in Ids(s) PROVE x \in Nat
  <2>1. PICK i \in 1..Len(s) : x = s[i].id \/ x \in s[i].covers
    BY KnownIds
  <2>2. s[i] \in Items
    OBVIOUS
  <2>3. QED
    BY <2>1, <2>2 DEF Items
<1>2. QED
  BY <1>1

\* Cutting a conversation in two loses nothing.
LEMMA CutItems ==
  ASSUME NEW s \in Seq(Items), NEW n \in 0..Len(s)
  PROVE  /\ Before(s, n) \in Seq(Items) /\ Len(Before(s, n)) = n
         /\ \A i \in 1..n : Before(s, n)[i] = s[i]
         /\ After(s, n) \in Seq(Items) /\ Len(After(s, n)) = Len(s) - n
         /\ \A i \in 1..(Len(s) - n) : After(s, n)[i] = s[n + i]
<1>1. n \in Nat /\ Len(s) \in Nat /\ n <= Len(s) /\ \A i \in 1..Len(s) : s[i] \in Items
  OBVIOUS
<1>2. \A i \in 1..(Len(s) - n) : (n + 1) + i - 1 = n + i
  BY <1>1
<1>3. QED
  BY <1>1, <1>2 DEF Before, After

LEMMA CutIds ==
  ASSUME NEW s \in Seq(Items), NEW n \in 0..Len(s)
  PROVE  Ids(s) \subseteq Ids(Before(s, n)) \cup Ids(After(s, n))
<1> DEFINE b == Before(s, n)
           a == After(s, n)
<1>1. /\ b \in Seq(Items) /\ Len(b) = n
      /\ \A i \in 1..n : b[i] = s[i]
      /\ a \in Seq(Items) /\ Len(a) = Len(s) - n
      /\ \A i \in 1..(Len(s) - n) : a[i] = s[n + i]
  BY CutItems
<1> HIDE DEF a, b
<1>2. ASSUME NEW x \in Ids(s) PROVE x \in Ids(b) \cup Ids(a)
  <2>1. x # 0
    BY KnownIds
  <2>2. PICK i \in 1..Len(s) : x = s[i].id \/ x \in s[i].covers
    BY KnownIds
  <2>3. CASE i <= n
    <3>1. i \in 1..Len(b) /\ b[i] = s[i]
      BY <1>1, <2>3
    <3>2. QED
      BY <1>1, <2>1, <2>2, <3>1, KnownIds
  <2>4. CASE i > n
    <3>1. i - n \in 1..(Len(s) - n) /\ n + (i - n) = i
      BY <2>4
    <3>2. i - n \in 1..Len(a) /\ a[i - n] = s[i]
      BY <1>1, <3>1
    <3>3. QED
      BY <1>1, <2>1, <2>2, <3>2, KnownIds
  <2>5. QED
    BY <2>3, <2>4
<1>3. QED
  BY <1>2 DEF a, b

-----------------------------------------------------------------------------
(* The count of open calls. *)

\* The count behind an item, given the one before it.
CountAfter(item, c) ==
  IF item.kind = "call" THEN c + 1
  ELSE IF IsOutput(item) /\ c > 0 THEN c - 1
  ELSE c

Counting(s, f) ==
  f = [n \in Positions(s) |->
         IF n = 0 THEN 0
         ELSE CASE s[n].kind = "call" -> f[n - 1] + 1
                [] IsOutput(s[n]) /\ f[n - 1] > 0 -> f[n - 1] - 1
                [] OTHER -> f[n - 1]]

CountsTo(s, f, k) == f[0] = 0 /\ \A i \in 1..k : f[i] = CountAfter(s[i], f[i - 1])

LEMMA CountAfterNatural ==
  ASSUME NEW item, NEW c \in Nat
  PROVE  CountAfter(item, c) \in Nat
BY DEF CountAfter

LEMMA CountCases ==
  ASSUME NEW item \in Items, NEW c
  PROVE  (CASE item.kind = "call" -> c + 1 [] IsOutput(item) /\ c > 0 -> c - 1 [] OTHER -> c)
           = CountAfter(item, c)
<1>1. item.kind = "call" => ~IsOutput(item)
  BY DEF IsOutput
<1>2. QED
  BY <1>1 DEF CountAfter

\* The count exists: a partial one extends by one item at a time.
LEMMA CountExists ==
  ASSUME NEW s \in Seq(Items)
  PROVE  \E f \in [0..Len(s) -> Nat] : CountsTo(s, f, Len(s))
<1> DEFINE n == Len(s)
           S == {k \in 0..n : \E f \in [0..n -> Nat] : CountsTo(s, f, k)}
<1>0. n \in Nat
  OBVIOUS
<1> HIDE DEF n
<1>1. 0 \in S
  <2>1. [i \in 0..n |-> 0] \in [0..n -> Nat] /\ CountsTo(s, [i \in 0..n |-> 0], 0)
    BY <1>0 DEF CountsTo
  <2>2. 0 \in 0..n
    BY <1>0
  <2>3. QED
    BY <2>1, <2>2
<1>2. ASSUME NEW k \in 1..n, k - 1 \in S PROVE k \in S
  <2>1. PICK f \in [0..n -> Nat] : CountsTo(s, f, k - 1)
    BY <1>2
  <2> DEFINE c == CountAfter(s[k], f[k - 1])
  <2>2. k \in 0..n /\ k - 1 \in 0..n /\ f[k - 1] \in Nat
    BY <1>0
  <2>3. c \in Nat
    BY <2>2, CountAfterNatural
  <2> HIDE DEF c
  <2> DEFINE g == [f EXCEPT ![k] = c]
  <2>4. g \in [0..n -> Nat] /\ g[k] = c /\ \A i \in 0..n : i # k => g[i] = f[i]
    BY <2>2, <2>3
  <2> HIDE DEF g
  <2>5. g[0] = 0
    BY <1>0, <2>1, <2>4 DEF CountsTo
  <2>6. ASSUME NEW i \in 1..k PROVE g[i] = CountAfter(s[i], g[i - 1])
    <3>1. CASE i = k
      <4>1. g[k - 1] = f[k - 1]
        BY <2>2, <2>4
      <4>2. QED
        BY <3>1, <4>1, <2>4 DEF c
    <3>2. CASE i # k
      <4>1. i \in 1..(k - 1) /\ i \in 0..n /\ i - 1 \in 0..n /\ i - 1 # k
        BY <1>0, <3>2
      <4>2. g[i] = f[i] /\ g[i - 1] = f[i - 1]
        BY <2>4, <3>2, <4>1
      <4>3. QED
        BY <2>1, <4>1, <4>2 DEF CountsTo
    <3>3. QED
      BY <3>1, <3>2
  <2>7. CountsTo(s, g, k)
    BY <2>5, <2>6 DEF CountsTo
  <2>8. QED
    BY <2>2, <2>4, <2>7
<1>3. n \in S
  <2>1. S \in SUBSET (0..n) /\ n \in 0..n
    BY <1>0
  <2> HIDE DEF S
  <2>2. S = 0..n
    BY <1>0, <1>1, <1>2, <2>1, UpTo
  <2>3. QED
    BY <2>1, <2>2
<1>4. QED
  BY <1>3 DEF n

LEMMA OpenCalls ==
  ASSUME NEW s \in Seq(Items)
  PROVE  /\ OpenCallsAt(s)[0] = 0
         /\ \A i \in 0..Len(s) : OpenCallsAt(s)[i] \in Nat
         /\ \A i \in 1..Len(s) : OpenCallsAt(s)[i] = CountAfter(s[i], OpenCallsAt(s)[i - 1])
<1>0. Len(s) \in Nat /\ \A i \in 1..Len(s) : s[i] \in Items
  OBVIOUS
<1>1. \E f : Counting(s, f)
  <2>1. PICK f \in [0..Len(s) -> Nat] : CountsTo(s, f, Len(s))
    BY CountExists
  <2>2. ASSUME NEW i \in 0..Len(s)
        PROVE  f[i] = IF i = 0 THEN 0
                      ELSE CASE s[i].kind = "call" -> f[i - 1] + 1
                             [] IsOutput(s[i]) /\ f[i - 1] > 0 -> f[i - 1] - 1
                             [] OTHER -> f[i - 1]
    <3>1. CASE i = 0
      BY <2>1, <3>1 DEF CountsTo
    <3>2. CASE i # 0
      <4>1. i \in 1..Len(s) /\ s[i] \in Items
        BY <1>0, <3>2
      <4>2. f[i] = CountAfter(s[i], f[i - 1])
        BY <2>1, <4>1 DEF CountsTo
      <4>3. QED
        BY <3>2, <4>1, <4>2, CountCases
    <3>3. QED
      BY <3>1, <3>2
  <2>3. Counting(s, f)
    BY <2>2 DEF Counting, Positions
  <2>4. QED
    BY <2>3
<1> DEFINE open == OpenCallsAt(s)
<1>2. Counting(s, open)
  BY <1>1, Zenon DEF OpenCallsAt, Counting
<1> HIDE DEF open
<1>3. open[0] = 0
  BY <1>0, <1>2 DEF Counting, Positions
<1>4. ASSUME NEW i \in 1..Len(s) PROVE open[i] = CountAfter(s[i], open[i - 1])
  <2>1. i \in Positions(s) /\ i # 0 /\ s[i] \in Items
    BY <1>0 DEF Positions
  <2>2. open[i] = CASE s[i].kind = "call" -> open[i - 1] + 1
                    [] IsOutput(s[i]) /\ open[i - 1] > 0 -> open[i - 1] - 1
                    [] OTHER -> open[i - 1]
    BY <1>2, <2>1 DEF Counting
  <2>3. QED
    BY <2>1, <2>2, CountCases
<1> DEFINE S == {k \in 0..Len(s) : open[k] \in Nat}
<1>5. S \in SUBSET (0..Len(s)) /\ 0 \in S
  BY <1>0, <1>3
<1>6. ASSUME NEW i \in 1..Len(s), i - 1 \in S PROVE i \in S
  BY <1>0, <1>4, <1>6, CountAfterNatural
<1>7. S = 0..Len(s)
  <2> HIDE DEF S
  <2>1. QED
    BY <1>0, <1>5, <1>6, UpTo
<1>8. QED
  BY <1>3, <1>4, <1>7 DEF open

-----------------------------------------------------------------------------
(* What is counted, and where a conversation may be cut. *)

\* The calls up to n whose results are not there yet.
Waiting(s, n) == {c \in Calls(s) : c <= n /\ \A j \in Outputs(s) : j <= n => s[j].tie # s[c].id}

LEMMA CallsWait ==
  ASSUME NEW s, Paired(s), NEW n \in 0..Len(s)
  PROVE  IsFiniteSet(Waiting(s, n)) /\ OpenCallsAt(s)[n] = Cardinality(Waiting(s, n))
<1> DEFINE open == OpenCallsAt(s)
           W(k) == Waiting(s, k)
           S == {k \in 0..Len(s) : IsFiniteSet(W(k)) /\ open[k] = Cardinality(W(k))}
<1>1. s \in Seq(Items) /\ Len(s) \in Nat /\ \A i \in 1..Len(s) : s[i] \in Items
  BY DEF Paired
<1>2. /\ open[0] = 0
      /\ \A i \in 0..Len(s) : open[i] \in Nat
      /\ \A i \in 1..Len(s) : open[i] = CountAfter(s[i], open[i - 1])
  BY <1>1, OpenCalls
<1> HIDE DEF open
<1>3. S \in SUBSET (0..Len(s))
  OBVIOUS
<1>4. 0 \in S
  <2>1. W(0) = {}
    BY <1>1 DEF Waiting, Calls
  <2>2. IsFiniteSet({}) /\ Cardinality({}) = 0
    BY FS_EmptySet
  <2>3. IsFiniteSet(W(0)) /\ open[0] = Cardinality(W(0))
    BY <1>2, <2>1, <2>2, Zenon
  <2>4. 0 \in 0..Len(s)
    BY <1>1
  <2>5. QED
    BY <2>3, <2>4
<1>5. ASSUME NEW i \in 1..Len(s), i - 1 \in S PROVE i \in S
  <2>1. /\ i \in Nat /\ i - 1 \in Nat /\ i \in 0..Len(s) /\ i - 1 \in 0..Len(s)
        /\ IsFiniteSet(W(i - 1)) /\ open[i - 1] = Cardinality(W(i - 1))
        /\ open[i] = CountAfter(s[i], open[i - 1])
    BY <1>1, <1>2, <1>5
  <2>2. CASE s[i].kind = "call"
    <3>1. i \in Calls(s) /\ i \notin Outputs(s)
      BY <2>2 DEF Calls, Outputs, IsOutput
    <3>2. ASSUME NEW j \in Outputs(s), j < i PROVE s[j].tie # s[i].id
      <4>1. PICK c \in Calls(s) : c < j /\ s[c].id = s[j].tie
        BY DEF Paired, Answered
      <4>2. c # i
        BY <1>1, <2>1, <3>2, <4>1 DEF Calls, Outputs
      <4>3. QED
        BY <3>1, <4>1, <4>2 DEF Paired, CalledOnce
    <3>3. \A c \in Calls(s) : c <= i <=> c = i \/ c <= i - 1
      BY <1>1 DEF Calls
    <3>4. \A j \in Outputs(s) : j <= i <=> j <= i - 1
      BY <1>1, <3>1 DEF Outputs
    <3>5. \A j \in Outputs(s) : j <= i => s[j].tie # s[i].id
      BY <1>1, <3>1, <3>2 DEF Outputs
    <3>6. W(i) = W(i - 1) \cup {i} /\ i \notin W(i - 1)
      <4>1. ~(i <= i - 1) /\ i <= i
        BY <2>1
      <4>2. QED
        BY <3>1, <3>3, <3>4, <3>5, <4>1 DEF Waiting
    <3>7. IsFiniteSet(W(i)) /\ Cardinality(W(i)) = Cardinality(W(i - 1)) + 1
      BY <2>1, <3>6, FS_AddElement
    <3>8. open[i] = open[i - 1] + 1
      BY <2>1, <2>2 DEF CountAfter
    <3>9. QED
      BY <2>1, <3>7, <3>8
  <2>3. CASE IsOutput(s[i])
    <3>1. i \in Outputs(s) /\ i \notin Calls(s)
      BY <2>3 DEF Calls, Outputs, IsOutput
    <3>2. PICK c \in Calls(s) : c < i /\ s[c].id = s[i].tie
      BY <3>1 DEF Paired, Answered
    <3>3. \A j \in Outputs(s) : s[j].tie = s[c].id => j = i
      BY <3>1, <3>2 DEF Paired, AnsweredOnce
    <3>4. \A d \in Calls(s) : d <= i <=> d <= i - 1
      BY <1>1, <3>1 DEF Calls
    <3>5. \A j \in Outputs(s) : j <= i <=> j = i \/ j <= i - 1
      BY <1>1 DEF Outputs
    <3>6. \A d \in Calls(s) : s[i].tie = s[d].id <=> d = c
      BY <3>2 DEF Paired, CalledOnce
    <3>7. c <= i - 1 /\ ~(i <= i - 1) /\ i <= i
      BY <1>1, <2>1, <3>2 DEF Calls
    <3>8. c \in W(i - 1)
      BY <3>2, <3>3, <3>7 DEF Waiting
    <3>9. W(i) = W(i - 1) \ {c}
      BY <3>1, <3>4, <3>5, <3>6, <3>7 DEF Waiting
    <3>10. IsFiniteSet(W(i)) /\ Cardinality(W(i)) = Cardinality(W(i - 1)) - 1
      BY <2>1, <3>8, <3>9, FS_RemoveElement
    <3>11. Cardinality(W(i - 1)) \in Nat /\ Cardinality(W(i - 1)) # 0
      BY <2>1, <3>8, FS_CardinalityType, FS_EmptySet
    <3>12. open[i] = open[i - 1] - 1
      BY <2>1, <2>3, <3>11 DEF CountAfter, IsOutput
    <3>13. QED
      BY <2>1, <3>10, <3>12
  <2>4. CASE s[i].kind # "call" /\ ~IsOutput(s[i])
    <3>1. i \notin Calls(s) /\ i \notin Outputs(s)
      BY <2>4 DEF Calls, Outputs
    <3>2. /\ \A c \in Calls(s) : c <= i <=> c <= i - 1
          /\ \A j \in Outputs(s) : j <= i <=> j <= i - 1
      BY <1>1, <3>1 DEF Calls, Outputs
    <3>3. W(i) = W(i - 1)
      BY <3>2 DEF Waiting
    <3>4. open[i] = open[i - 1]
      BY <2>1, <2>4 DEF CountAfter
    <3>5. QED
      BY <2>1, <3>3, <3>4
  <2>5. QED
    BY <2>2, <2>3, <2>4
<1>6. S = 0..Len(s)
  <2> HIDE DEF S
  <2>1. QED
    BY <1>1, <1>3, <1>4, <1>5, UpTo
<1>7. QED
  BY <1>6 DEF open

\* Where no call is open, no result further on is one to a call before it.
LEMMA ClosedAt ==
  ASSUME NEW s, Paired(s), NEW n \in 0..Len(s), OpenCallsAt(s)[n] = 0
  PROVE  \A i \in Outputs(s), c \in Calls(s) : i > n /\ s[c].id = s[i].tie => c > n
<1>1. s \in Seq(Items) /\ Len(s) \in Nat /\ n \in Nat
  BY DEF Paired
<1>2. Waiting(s, n) = {}
  BY CallsWait, FS_EmptySet
<1> SUFFICES ASSUME NEW i \in Outputs(s), NEW c \in Calls(s), i > n, s[c].id = s[i].tie, c <= n
             PROVE  FALSE
  BY <1>1 DEF Calls
<1>3. PICK j \in Outputs(s) : j <= n /\ s[j].tie = s[c].id
  BY <1>2 DEF Waiting
<1>4. j = i
  BY <1>3 DEF Paired, AnsweredOnce
<1>5. QED
  BY <1>1, <1>3, <1>4 DEF Outputs

LEMMA GreatestIsThere ==
  ASSUME NEW n \in Nat, NEW S \in SUBSET (0..n), S # {}
  PROVE  Greatest(S) \in S /\ \A k \in S : Greatest(S) >= k
<1> DEFINE T == {n - k : k \in S}
<1>1. T \in SUBSET Nat /\ T # {}
  OBVIOUS
<1>2. PICK m \in T : \A k \in T : m <= k
  <2> HIDE DEF T
  <2>1. QED
    BY <1>1, LeastNatural
<1>3. PICK g \in S : m = n - g
  BY <1>2
<1>4. ASSUME NEW k \in S PROVE g >= k
  <2>1. n - k \in T
    OBVIOUS
  <2>2. n - g <= n - k
    BY <1>2, <1>3, <2>1
  <2>3. QED
    BY <2>2
<1>5. \E x \in S : \A k \in S : x >= k
  BY <1>4
<1>6. QED
  BY <1>5, Zenon DEF Greatest

LEMMA LeastIs ==
  ASSUME NEW S \in SUBSET Nat, NEW m \in S, \A k \in S : m <= k
  PROVE  Least(S) = m
<1>1. \E n \in S : \A k \in S : n <= k
  OBVIOUS
<1>2. Least(S) \in S /\ \A k \in S : Least(S) <= k
  BY <1>1, Zenon DEF Least
<1>3. m \in Nat /\ Least(S) \in Nat /\ m <= Least(S) /\ Least(S) <= m
  BY <1>2
<1>4. QED
  BY <1>3

\* The boundary of a compaction: no result behind it has its call before it, no call
\* behind it its reasoning.
LEMMA SplitIsClean ==
  ASSUME NEW s, Paired(s)
  PROVE  /\ SelectSplit(s) \in 0..Len(s)
         /\ SelectSplit(s) # 0 => s[SelectSplit(s)].kind # "reasoning"
         /\ \A i \in Outputs(s), c \in Calls(s) :
              i > SelectSplit(s) /\ s[c].id = s[i].tie => c > SelectSplit(s)
<1> DEFINE recent == IF Len(s) > Keep THEN Len(s) - Keep ELSE 0
           open == OpenCallsAt(s)
           Closed == {n \in 0..recent : open[n] = 0}
           closed == Greatest(Closed)
           Past == {n \in closed..Len(s) : n = Len(s) \/ ~IsOutput(s[n + 1])}
           past == Least(Past)
           Ends == {n \in 0..past : n = 0 \/ s[n].kind # "reasoning"}
<1>1. s \in Seq(Items) /\ Len(s) \in Nat
  BY DEF Paired
<1>2. recent \in 0..Len(s)
  BY <1>1, SessionsAssumption
<1>3. open[0] = 0
  BY <1>1, OpenCalls
<1>4. SelectSplit(s) = Greatest(Ends)
  BY DEF SelectSplit
<1> HIDE DEF recent, open
<1>5. closed \in 0..recent /\ open[closed] = 0
  <2>1. Closed \in SUBSET (0..recent) /\ 0 \in Closed /\ recent \in Nat
    BY <1>2, <1>3
  <2> HIDE DEF Closed
  <2>2. closed \in Closed
    BY <2>1, GreatestIsThere
  <2>3. QED
    BY <2>2 DEF Closed
<1> HIDE DEF closed
<1>6. closed \in 0..Len(s) /\ closed \in Nat
  BY <1>2, <1>5
<1>7. \A i \in Outputs(s), c \in Calls(s) : i > closed /\ s[c].id = s[i].tie => c > closed
  BY <1>5, <1>6, ClosedAt DEF open
<1>8. closed \in Past
  <2>1. SUFFICES ASSUME closed # Len(s), IsOutput(s[closed + 1]) PROVE FALSE
    BY <1>1, <1>6
  <2>2. closed + 1 \in Outputs(s)
    BY <1>1, <1>6, <2>1 DEF Outputs
  <2>3. PICK c \in Calls(s) : c < closed + 1 /\ s[c].id = s[closed + 1].tie
    BY <2>2 DEF Paired, Answered
  <2>4. c > closed
    BY <1>6, <1>7, <2>2, <2>3
  <2>5. QED
    BY <1>6, <2>3, <2>4 DEF Calls
<1>9. past = closed
  <2>1. Past \in SUBSET Nat /\ \A k \in Past : closed <= k
    BY <1>6
  <2> HIDE DEF Past
  <2>2. QED
    BY <1>8, <2>1, LeastIs
<1> HIDE DEF past, Past
<1> DEFINE p == Greatest(Ends)
<1>10. p \in Ends /\ \A k \in Ends : p >= k
  <2>1. Ends \in SUBSET (0..past) /\ 0 \in Ends /\ past \in Nat
    BY <1>6, <1>9
  <2> HIDE DEF Ends
  <2>2. QED
    BY <2>1, GreatestIsThere
<1> HIDE DEF p
<1>11. p \in 0..closed /\ (p # 0 => s[p].kind # "reasoning")
  BY <1>9, <1>10
<1>12. \A n \in 1..closed : n > p => s[n].kind = "reasoning"
  BY <1>6, <1>9, <1>10, <1>11
<1>13. ASSUME NEW i \in Outputs(s), NEW c \in Calls(s), i > p, s[c].id = s[i].tie PROVE c > p
  <2>1. i > closed
    <3>1. SUFFICES ASSUME i <= closed PROVE FALSE
      BY <1>6 DEF Outputs
    <3>2. i \in 1..closed
      BY <1>6, <3>1 DEF Outputs
    <3>3. QED
      BY <1>12, <1>13, <3>2 DEF Outputs, IsOutput
  <2>2. c > closed
    BY <1>7, <1>13, <2>1
  <2>3. QED
    BY <1>6, <1>11, <2>2 DEF Calls
<1>14. QED
  BY <1>4, <1>6, <1>11, <1>13 DEF p

\* A compaction keeps each result with its call, and names what it replaces.
LEMMA CompactedKeeps ==
  ASSUME NEW s, Paired(s), NEW n \in Nat, CallsUpTo(s, n)
  PROVE  /\ Paired(Compacted(s)) /\ CallsUpTo(Compacted(s), n)
         /\ Ids(s) \subseteq Ids(Compacted(s))
<1> DEFINE p == SelectSplit(s)
           b == Before(s, p)
           a == After(s, p)
           summary == Summary(b)
           t == <<summary>>
<1>1. s \in Seq(Items) /\ Len(s) \in Nat
  BY DEF Paired
<1>2. /\ p \in 0..Len(s)
      /\ p # 0 => s[p].kind # "reasoning"
      /\ \A i \in Outputs(s), c \in Calls(s) : i > p /\ s[c].id = s[i].tie => c > p
  BY SplitIsClean
<1>3. Compacted(s) = t \o a
  BY DEF Compacted
<1> HIDE DEF p
<1>4. p \in Nat /\ p <= Len(s)
  BY <1>1, <1>2
<1>5. /\ b \in Seq(Items) /\ a \in Seq(Items) /\ Len(a) = Len(s) - p
      /\ \A i \in 1..(Len(s) - p) : a[i] = s[p + i]
      /\ Ids(s) \subseteq Ids(b) \cup Ids(a)
  BY <1>1, <1>2, CutItems, CutIds
<1> HIDE DEF a, b
<1>6. \A i \in 1..Len(a) : i \in Nat /\ p + i \in 1..Len(s) /\ a[i] = s[p + i]
  BY <1>1, <1>4, <1>5
<1>7. /\ \A i \in Calls(a) : i \in 1..Len(a) /\ p + i \in Calls(s) /\ a[i] = s[p + i]
      /\ \A i \in Outputs(a) : i \in 1..Len(a) /\ p + i \in Outputs(s) /\ a[i] = s[p + i]
  BY <1>6 DEF Calls, Outputs
<1>8. Answered(a)
  <2> SUFFICES ASSUME NEW i \in Outputs(a) PROVE \E j \in Calls(a) : j < i /\ a[j].id = a[i].tie
    BY DEF Answered
  <2>1. i \in Nat /\ p + i \in Outputs(s) /\ a[i] = s[p + i] /\ i >= 1
    BY <1>6, <1>7
  <2>2. PICK c \in Calls(s) : c < p + i /\ s[c].id = s[p + i].tie
    BY <2>1 DEF Paired, Answered
  <2>3. c > p /\ c \in 1..Len(s)
    BY <1>2, <1>4, <2>1, <2>2 DEF Calls
  <2>4. c - p \in 1..Len(a) /\ p + (c - p) = c /\ c - p < i
    BY <1>1, <1>4, <1>5, <2>1, <2>2, <2>3
  <2>5. c - p \in Calls(a) /\ a[c - p] = s[c]
    BY <1>6, <2>2, <2>4 DEF Calls
  <2>6. QED
    BY <2>1, <2>2, <2>4, <2>5
<1>9. AnsweredOnce(a)
  <2> SUFFICES ASSUME NEW i \in Outputs(a), NEW j \in Outputs(a), a[i].tie = a[j].tie PROVE i = j
    BY DEF AnsweredOnce
  <2>1. p + i = p + j
    BY <1>7 DEF Paired, AnsweredOnce
  <2>2. QED
    BY <1>4, <1>6, <1>7, <2>1
<1>10. CalledOnce(a)
  <2> SUFFICES ASSUME NEW i \in Calls(a), NEW j \in Calls(a), a[i].id = a[j].id PROVE i = j
    BY DEF CalledOnce
  <2>1. p + i = p + j
    BY <1>7 DEF Paired, CalledOnce
  <2>2. QED
    BY <1>4, <1>6, <1>7, <2>1
<1>11. Reasoned(a)
  <2> SUFFICES ASSUME NEW i \in Calls(a), a[i].tie # 0
               PROVE  i > 1 /\ a[i - 1].kind = "reasoning" /\ a[i - 1].id = a[i].tie
    BY DEF Reasoned
  <2>1. i \in 1..Len(a) /\ i \in Nat /\ p + i \in Calls(s) /\ a[i] = s[p + i]
    BY <1>6, <1>7
  <2>2. s[(p + i) - 1].kind = "reasoning" /\ s[(p + i) - 1].id = s[p + i].tie /\ p + i > 1
    BY <2>1 DEF Paired, Reasoned
  <2>3. i # 1
    <3>1. SUFFICES ASSUME i = 1 PROVE FALSE
      OBVIOUS
    <3>2. (p + i) - 1 = p /\ p # 0
      BY <1>4, <2>2, <3>1
    <3>3. QED
      BY <1>2, <2>2, <3>2
  <2>4. i - 1 \in 1..Len(a) /\ p + (i - 1) = (p + i) - 1 /\ i > 1
    BY <1>1, <1>4, <1>5, <2>1, <2>3
  <2>5. a[i - 1] = s[(p + i) - 1]
    BY <1>6, <2>4
  <2>6. QED
    BY <2>1, <2>2, <2>4, <2>5
<1>12. Unbound(a)
  BY <1>6 DEF Paired, Unbound
<1>13. Paired(a)
  BY <1>5, <1>8, <1>9, <1>10, <1>11, <1>12 DEF Paired
<1>14. /\ summary \in Items /\ summary.kind = "text" /\ summary.tie = 0
       /\ summary.covers = Ids(b)
  BY <1>5, NumberedIds DEF Summary, Items, Kinds
<1> HIDE DEF summary
<1>15. t \in Seq(Items) /\ Len(t) = 1 /\ t[1] = summary
  BY <1>14
<1> HIDE DEF t
<1>16. Texts(t) /\ Unbound(t)
  BY <1>14, <1>15 DEF Texts, Unbound
<1>17. Paired(t) /\ Calls(t) = {}
  BY <1>15, <1>16, TextsPaired
<1>18. Paired(t \o a)
  BY <1>13, <1>17, Joined
<1>19. CallsUpTo(t \o a, n)
  <2> SUFFICES ASSUME NEW i \in Calls(t \o a) PROVE (t \o a)[i].id <= n
    BY DEF CallsUpTo
  <2>1. i \in 1..Len(t \o a) /\ (t \o a)[i].kind = "call"
    BY DEF Calls
  <2>2. \/ i \in 1..Len(t) /\ (t \o a)[i] = t[i]
        \/ \E k \in 1..Len(a) : i = Len(t) + k /\ (t \o a)[i] = a[k]
    BY <1>5, <1>15, <2>1, FromEither
  <2>3. ~(i \in 1..Len(t) /\ (t \o a)[i] = t[i])
    BY <1>17, <2>1 DEF Calls
  <2>4. PICK k \in 1..Len(a) : (t \o a)[i] = a[k]
    BY <2>2, <2>3
  <2>5. p + k \in Calls(s) /\ a[k] = s[p + k]
    BY <1>6, <2>1, <2>4 DEF Calls
  <2>6. QED
    BY <2>4, <2>5 DEF CallsUpTo
<1>20. Ids(b) \subseteq Ids(t)
  <2>1. \A x \in Ids(b) : x # 0
    BY <1>5, KnownIds
  <2>2. QED
    BY <1>14, <1>15, <2>1, KnownIds
<1>21. Ids(s) \subseteq Ids(t \o a)
  BY <1>5, <1>15, <1>20, JoinedIds
<1>22. QED
  BY <1>3, <1>18, <1>19, <1>21

\* What is new has calls of its own.
LEMMA Continued ==
  ASSUME NEW s, NEW t, Paired(s), Paired(t), NEW n \in Nat,
         CallsUpTo(s, n), NumberedFrom(t, n + 1)
  PROVE  Paired(s \o t) /\ CallsUpTo(s \o t, n + Len(t))
<1>0. s \in Seq(Items) /\ t \in Seq(Items)
  BY DEF Paired
<1>1. /\ s \in Seq(Items) /\ t \in Seq(Items) /\ Len(t) \in Nat
      /\ \A i \in Calls(s) : s[i].id \in Nat
      /\ \A i \in Calls(t) : t[i].id \in Nat
  <2>1. (\A i \in 1..Len(s) : s[i] \in Items) /\ (\A i \in 1..Len(t) : t[i] \in Items) /\ Len(t) \in Nat
    BY <1>0
  <2>2. QED
    BY <1>0, <2>1 DEF Calls, Items
<1>2. Paired(s \o t)
  <2>1. \A i \in Calls(s), j \in Calls(t) : s[i].id # t[j].id
    BY <1>1 DEF CallsUpTo, NumberedFrom
  <2>2. QED
    BY <2>1, Joined
<1>3. ASSUME NEW i \in Calls(s \o t) PROVE (s \o t)[i].id <= n + Len(t)
  <2>1. i \in 1..Len(s \o t) /\ (s \o t)[i].kind = "call"
    BY DEF Calls
  <2>2. \/ i \in 1..Len(s) /\ (s \o t)[i] = s[i]
        \/ \E k \in 1..Len(t) : (s \o t)[i] = t[k]
    BY <1>1, <2>1, FromEither
  <2>3. CASE i \in 1..Len(s) /\ (s \o t)[i] = s[i]
    <3>1. i \in Calls(s)
      BY <2>1, <2>3 DEF Calls
    <3>2. QED
      BY <1>1, <2>3, <3>1 DEF CallsUpTo
  <2>4. CASE \E k \in 1..Len(t) : (s \o t)[i] = t[k]
    <3>1. PICK k \in 1..Len(t) : (s \o t)[i] = t[k]
      BY <2>4
    <3>2. k \in Calls(t)
      BY <2>1, <3>1 DEF Calls
    <3>3. t[k].id < (n + 1) + Len(t)
      BY <3>2 DEF NumberedFrom
    <3>4. QED
      BY <1>1, <3>1, <3>2, <3>3
  <2>5. QED
    BY <2>2, <2>3, <2>4
<1>4. QED
  BY <1>2, <1>3 DEF CallsUpTo

\* Messages can come between anything.
LEMMA Interposed ==
  ASSUME NEW s, NEW t, Paired(s), Paired(t), NEW n \in Nat,
         CallsUpTo(s, n), CallsUpTo(t, n), Texts(s) \/ Texts(t)
  PROVE  /\ Paired(s \o t) /\ CallsUpTo(s \o t, n)
         /\ Texts(s) /\ Texts(t) => Texts(s \o t)
<1>1. s \in Seq(Items) /\ t \in Seq(Items)
  BY DEF Paired
<1>2. Calls(s) = {} \/ Calls(t) = {}
  BY DEF Texts, Calls
<1>3. Paired(s \o t)
  BY <1>2, Joined
<1>4. \A i \in 1..Len(s \o t) :
        \/ i \in 1..Len(s) /\ (s \o t)[i] = s[i]
        \/ \E k \in 1..Len(t) : (s \o t)[i] = t[k]
  BY <1>1, FromEither
<1>5. CallsUpTo(s \o t, n)
  BY <1>4 DEF CallsUpTo, Calls
<1>6. ASSUME Texts(s), Texts(t) PROVE Texts(s \o t)
  BY <1>4, <1>6 DEF Texts
<1>7. QED
  BY <1>3, <1>5, <1>6

-----------------------------------------------------------------------------
(* Steps. *)

LEMMA EmptyGood ==
  ASSUME NEW n \in Nat
  PROVE  Good(<<>>, n) /\ Texts(<<>>) /\ <<>> \in Seq(Items)
BY EmptyPaired DEF Good, CallsUpTo

LEMMA TextsGood ==
  ASSUME NEW s, Paired(s), Texts(s), NEW n
  PROVE  Good(s, n)
BY DEF Good, CallsUpTo, Texts, Calls

LEMMA GoodLater ==
  ASSUME NEW s, NEW n \in Nat, NEW m \in Nat, n <= m, Good(s, n)
  PROVE  Good(s, m)
<1>1. s \in Seq(Items) /\ \A i \in 1..Len(s) : s[i] \in Items
  BY DEF Good, Paired
<1>2. \A i \in Calls(s) : s[i].id \in Nat
  BY <1>1 DEF Calls, Items
<1>3. QED
  BY <1>2 DEF Good, CallsUpTo

LEMMA BeginsItself ==
  ASSUME NEW s \in Seq(Items)
  PROVE  Begins(s, s) /\ Begins(<<>>, s)
BY DEF Begins

LEMMA BeginsLonger ==
  ASSUME NEW r \in Seq(Items), NEW s \in Seq(Items), NEW t \in Seq(Items), Begins(r, s)
  PROVE  Begins(r, s \o t)
<1>1. /\ Len(s \o t) = Len(s) + Len(t) /\ Len(r) \in Nat /\ Len(s) \in Nat /\ Len(t) \in Nat
      /\ \A i \in 1..Len(s) : (s \o t)[i] = s[i]
  BY JoinedItems
<1>2. QED
  BY <1>1 DEF Begins

\* What holds in every state of the invariant, put as the steps use it.
LEMMA Facts ==
  ASSUME IInv
  PROVE  /\ Good(session, made) /\ Good(read, made) /\ Good(copy, made)
         /\ Good(work.old, made) /\ Good(work.new, made) /\ Good(late, made) /\ Texts(late)
         /\ session \in Seq(Items) /\ read \in Seq(Items) /\ copy \in Seq(Items)
         /\ late \in Seq(Items) /\ work.old \in Seq(Items) /\ work.new \in Seq(Items)
         /\ at \in Places /\ work \in Works /\ forced \in BOOLEAN /\ tries \in [Reasons -> Nat]
         /\ made \in Nat /\ faults \in Nat /\ stops \in Nat
<1>1. TypeOK /\ AllGood /\ LateIsText
  BY DEF IInv
<1>2. work.old \in Seq(Items) /\ work.new \in Seq(Items)
  BY <1>1 DEF TypeOK, Works
<1>3. Good(late, made)
  BY <1>1, TextsGood DEF LateIsText
<1>4. QED
  BY <1>1, <1>2, <1>3 DEF TypeOK, AllGood, LateIsText

\* The work of a rewrite, and none.
LEMMA NoWorkFields ==
  /\ NoWork \in Works /\ NoWork.old = <<>> /\ NoWork.new = <<>>
  /\ NoWork.next = "idle" /\ NoWork.failed = "idle"
BY DEF NoWork, Works

LEMMA Rewrites ==
  ASSUME NEW old \in Seq(Items), NEW new \in Seq(Items),
         NEW next \in {"idle", "images", "compact", "call"},
         NEW failed \in {"idle", "images", "compact", "call", "salvage"},
         Rewrite(old, new, next, failed)
  PROVE  /\ at' = "clear"
         /\ work' \in Works /\ work'.old = old /\ work'.new = new
         /\ work'.next = next /\ work'.failed = failed
BY DEF Rewrite, Works

LEMMA Faulted ==
  ASSUME IInv, Fault
  PROVE  faults' \in Nat /\ faults' > 0 /\ faults' # 0
<1>1. faults \in Nat /\ faults' = faults + 1
  BY Facts DEF Fault
<1>2. QED
  BY <1>1

LEMMA Failed ==
  ASSUME IInv, Return(work.failed)
  PROVE  at' \in {"idle", "images", "compact", "call", "salvage"} /\ work' = NoWork
<1>1. work \in Works
  BY Facts
<1>2. QED
  BY <1>1 DEF Return, Works

LEMMA ClearStep ==
  ASSUME IInv, Clear
  PROVE  IInv'
<1> USE DEF IInv, TypeOK, AllGood, LateIsText, Emptied, AtRest, Failing, ReadBegins, Covered, StillThere
<1>1. /\ at = "clear" /\ read' = read /\ copy' = copy /\ forced' = forced /\ tries' = tries
      /\ late' = late /\ made' = made /\ stops' = stops
  BY DEF Clear
<1>2. CASE NoFault /\ session' = <<>> /\ at' = "store" /\ UNCHANGED work
  BY <1>1, <1>2, Facts, EmptyGood DEF NoFault, Places, Rewriting, Unlike
<1>3. CASE Fault /\ Return(work.failed) /\ UNCHANGED session
  <2>1. /\ at' \in {"idle", "images", "compact", "call", "salvage"} /\ work' = NoWork
        /\ faults' \in Nat /\ faults' # 0 /\ session' = session
    BY <1>3, Faulted, Failed
  <2>2. QED
    BY <1>1, <2>1, Facts, NoWorkFields, EmptyGood DEF Places, Rewriting
<1>4. QED
  BY <1>2, <1>3 DEF Clear

LEMMA StoreStep ==
  ASSUME IInv, Store
  PROVE  IInv'
<1> USE DEF IInv, TypeOK, AllGood, LateIsText, Emptied, AtRest, Failing, ReadBegins, Covered, StillThere
<1>1. /\ at = "store" /\ read' = read /\ copy' = copy /\ forced' = forced /\ tries' = tries
      /\ late' = late /\ made' = made /\ stops' = stops
  BY DEF Store
<1>2. CASE NoFault /\ session' = session \o work.new /\ Return(work.next)
  <2>1. /\ at' \in {"idle", "images", "compact", "call"} /\ work' = NoWork
        /\ at' = "compact" => read = <<>>
        /\ faults' = faults
    BY <1>2, Facts DEF NoFault, Return, Works
  <2>2. Good(session', made) /\ session' \in Seq(Items)
    BY <1>1, <1>2, Facts, Interposed DEF Good, Paired
  <2>3. QED
    BY <1>1, <2>1, <2>2, Facts, NoWorkFields, EmptyGood, BeginsItself DEF Places, Rewriting
<1>3. CASE Fault /\ at' = "clear again" /\ UNCHANGED <<session, work>>
  BY <1>1, <1>3, Facts, Faulted DEF Places, Rewriting
<1>4. QED
  BY <1>2, <1>3 DEF Store

LEMMA ClearAgainStep ==
  ASSUME IInv, ClearAgain
  PROVE  IInv'
<1> USE DEF IInv, TypeOK, AllGood, LateIsText, Emptied, AtRest, Failing, ReadBegins, Covered, StillThere
<1>1. /\ at = "clear again" /\ read' = read /\ copy' = copy /\ forced' = forced /\ tries' = tries
      /\ late' = late /\ made' = made /\ stops' = stops
  BY DEF ClearAgain
<1>2. CASE NoFault /\ session' = <<>> /\ at' = "restore" /\ UNCHANGED work
  BY <1>1, <1>2, Facts, EmptyGood DEF NoFault, Places, Rewriting
<1>3. CASE Fault /\ Return(work.failed) /\ UNCHANGED session
  <2>1. /\ at' \in {"idle", "images", "compact", "call", "salvage"} /\ work' = NoWork
        /\ faults' \in Nat /\ faults' # 0 /\ session' = session
    BY <1>3, Faulted, Failed
  <2>2. QED
    BY <1>1, <2>1, Facts, NoWorkFields, EmptyGood DEF Places, Rewriting
<1>4. QED
  BY <1>2, <1>3 DEF ClearAgain

LEMMA RestoreStep ==
  ASSUME IInv, Restore
  PROVE  IInv'
<1> USE DEF IInv, TypeOK, AllGood, LateIsText, Emptied, AtRest, Failing, ReadBegins, Covered, StillThere
<1>1. /\ at = "restore" /\ read' = read /\ copy' = copy /\ forced' = forced /\ tries' = tries
      /\ late' = late /\ made' = made /\ stops' = stops
      /\ at' = work.failed /\ work' = NoWork
  BY DEF Restore, Return
<1>2. at' \in {"idle", "images", "compact", "call", "salvage"} /\ faults' \in Nat /\ faults' # 0
  BY <1>1, Facts DEF Restore, Works, Fault, NoFault
<1>3. Good(session', made) /\ session' \in Seq(Items)
  <2>1. Good(session \o work.old, made) /\ session \o work.old \in Seq(Items)
    BY <1>1, Facts, Interposed DEF Good, Paired
  <2>2. session' = session \/ session' = session \o work.old
    BY DEF Restore, Restored
  <2>3. QED
    BY <2>1, <2>2, Facts
<1>4. QED
  BY <1>1, <1>2, <1>3, Facts, NoWorkFields, EmptyGood DEF Places, Rewriting

LEMMA EnforceImageBudgetStep ==
  ASSUME IInv, EnforceImageBudget
  PROVE  IInv'
<1> DEFINE old == {i \in Shots(session) : Cardinality({j \in Shots(session) : j > i}) >= MaxImages}
           new == Elided(session, old)
<1>1. /\ at = "images" /\ read' = <<>> /\ session' = session /\ copy' = copy /\ forced' = forced
      /\ tries' = tries /\ late' = late /\ made' = made /\ stops' = stops
  BY DEF EnforceImageBudget
<1>2. \/ at' = "compact" /\ UNCHANGED work
      \/ Rewrite(session, new, "compact", "compact")
  BY DEF EnforceImageBudget
<1>3. faults' \in Nat
  BY Facts, Faulted DEF EnforceImageBudget, NoFault
<1>4. old \in SUBSET Shots(session)
  OBVIOUS
<1> HIDE DEF old
<1>5. Good(new, made) /\ new \in Seq(Items) /\ Ids(new) = Ids(session)
  BY <1>4, Facts, ElidedPaired, ElidedIds, ElidedItems DEF Good
<1> HIDE DEF new
<1>6. session \in Seq(Items)
  BY Facts
<1> USE DEF IInv, TypeOK, AllGood, LateIsText, Emptied, AtRest, Failing, ReadBegins, Covered, StillThere
<1>7. CASE at' = "compact" /\ UNCHANGED work
  <2>1. work' = NoWork
    BY <1>1, <1>7 DEF Rewriting
  <2>2. QED
    BY <1>1, <1>3, <1>7, <2>1, Facts, NoWorkFields, EmptyGood, BeginsItself DEF Places, Rewriting
<1>8. CASE Rewrite(session, new, "compact", "compact")
  <2>1. /\ work' \in Works /\ work'.old = session /\ work'.new = new
        /\ work'.next = "compact" /\ work'.failed = "compact" /\ at' = "clear"
    BY <1>5, <1>8, <1>6, Rewrites
  <2>2. QED
    BY <1>1, <1>3, <1>5, <2>1, Facts, EmptyGood DEF Places, Rewriting
<1>9. QED
  BY <1>2, <1>7, <1>8

LEMMA AfterCompactions ==
  ASSUME forced \in BOOLEAN
  PROVE  AfterCompaction(TRUE) \in {"call", "images"} /\ AfterCompaction(FALSE) \in {"call", "salvage"}
BY DEF AfterCompaction

LEMMA CompactStep ==
  ASSUME IInv, Compact
  PROVE  IInv'
<1>1. /\ at = "compact" /\ UNCHANGED <<session, read, work, tries, late, made, faults, stops>>
      /\ at' \in {"summary", "call", "salvage"}
      /\ copy' \in {session, copy} /\ forced' \in BOOLEAN
  BY Facts, AfterCompactions DEF Compact
<1> USE DEF IInv, TypeOK, AllGood, LateIsText, Emptied, AtRest, Failing, ReadBegins, Covered, StillThere
<1>2. work' = NoWork
  BY <1>1 DEF Rewriting
<1>3. Good(copy', made) /\ copy' \in Seq(Items)
  BY <1>1, Facts
<1>4. QED
  BY <1>1, <1>2, <1>3, Facts, NoWorkFields, EmptyGood DEF Places, Rewriting

LEMMA SummariseStep ==
  ASSUME IInv, Summarise
  PROVE  IInv'
<1> DEFINE new == Compacted(copy)
<1>1. /\ at = "summary" /\ UNCHANGED <<session, read, tries, late, made, faults, stops>>
      /\ copy' = <<>> /\ forced' = FALSE
      /\ \/ session = copy /\ Rewrite(session, new, AfterCompaction(TRUE), AfterCompaction(FALSE))
         \/ at' = AfterCompaction(FALSE) /\ UNCHANGED work
  BY DEF Summarise, UnchangedSince
<1>2. AfterCompaction(TRUE) \in {"call", "images"} /\ AfterCompaction(FALSE) \in {"call", "salvage"}
  BY Facts, AfterCompactions
<1>3. Good(new, made) /\ Ids(copy) \subseteq Ids(new)
  BY Facts, CompactedKeeps DEF Good
<1>4. new \in Seq(Items)
  BY <1>3 DEF Good, Paired
<1>5. session \in Seq(Items)
  BY Facts
<1> HIDE DEF new
<1> USE DEF IInv, TypeOK, AllGood, LateIsText, Emptied, AtRest, Failing, ReadBegins, Covered, StillThere
<1>6. CASE at' = AfterCompaction(FALSE) /\ UNCHANGED work
  <2>1. work' = NoWork
    BY <1>1, <1>6 DEF Rewriting
  <2>2. QED
    BY <1>1, <1>2, <1>6, <2>1, Facts, NoWorkFields, EmptyGood DEF Places, Rewriting
<1>7. CASE session = copy /\ Rewrite(session, new, AfterCompaction(TRUE), AfterCompaction(FALSE))
  <2>1. PICK next \in {"call", "images"}, failed \in {"call", "salvage"} : Rewrite(session, new, next, failed)
    BY <1>2, <1>7
  <2>2. /\ work' \in Works /\ work'.old = session /\ work'.new = new
        /\ work'.next = next /\ work'.failed = failed /\ at' = "clear"
    BY <1>4, <1>5, <2>1, Rewrites
  <2>3. QED
    BY <1>1, <1>3, <1>7, <2>2, Facts, EmptyGood DEF Places, Rewriting
<1>8. QED
  BY <1>1, <1>6, <1>7

LEMMA CallStep ==
  ASSUME IInv, Call
  PROVE  IInv'
<1>1. /\ at = "call" /\ at' = "running"
      /\ UNCHANGED <<session, copy, work, forced, tries, late, made, stops>>
      /\ read' \in {session, <<>>} /\ faults' \in Nat
  BY Facts, Faulted DEF Call, NoFault
<1>2. Good(read', made) /\ read' \in Seq(Items) /\ Begins(read', session)
  BY <1>1, Facts, EmptyGood, BeginsItself
<1> USE DEF IInv, TypeOK, AllGood, LateIsText, Emptied, AtRest, Failing, ReadBegins, Covered, StillThere
<1>3. work' = NoWork
  BY <1>1 DEF Rewriting
<1>4. QED
  BY <1>1, <1>2, <1>3, Facts, NoWorkFields, EmptyGood DEF Places, Rewriting

\* Steps that begin or end something and leave the conversation as it is.
LEMMA QuietStep ==
  ASSUME IInv, Begin \/ Overflow \/ Fail
  PROVE  IInv'
<1>1. /\ at \in {"idle", "running"} /\ at' \in {"images", "compact", "salvage"}
      /\ at' \in {"compact", "salvage"} => at = "running"
      /\ UNCHANGED <<session, read, copy, work, late, made, faults, stops>>
      /\ forced' \in BOOLEAN
  BY Facts DEF Begin, Overflow, Fail
<1>2. tries' \in [Reasons -> Nat]
  <2>1. \A r \in Reasons : tries[r] + 1 \in Nat
    BY Facts
  <2>2. QED
    BY <2>1, Facts DEF Begin, Overflow, Fail, Recovers, Counted, Reasons
<1> USE DEF IInv, TypeOK, AllGood, LateIsText, Emptied, AtRest, Failing, ReadBegins, Covered, StillThere
<1>3. work' = NoWork
  BY <1>1 DEF Rewriting
<1>4. QED
  BY <1>1, <1>2, <1>3, Facts, NoWorkFields, EmptyGood DEF Places, Rewriting

LEMMA StoreTurnStep ==
  ASSUME IInv, StoreTurn
  PROVE  IInv'
<1>1. PICK t \in Turn(made + 1) : session' = session \o t /\ made' = made + Len(t)
  BY DEF StoreTurn
<1>2. at = "running" /\ UNCHANGED <<at, read, copy, work, forced, tries, late, faults, stops>>
  BY DEF StoreTurn
<1>3. made + 1 \in Nat \ {0}
  BY Facts
<1>4. Paired(t) /\ NumberedFrom(t, made + 1) /\ Len(t) \in Nat /\ t \in Seq(Items)
  BY <1>3, TurnPaired DEF Paired
<1>5. made' \in Nat /\ made <= made'
  BY <1>1, <1>4, Facts
<1>6. Good(session', made') /\ session' \in Seq(Items)
  BY <1>1, <1>4, Facts, Continued DEF Good, Paired
<1>7. Good(read, made') /\ Good(copy, made')
  BY <1>5, Facts, GoodLater
<1>8. faults = 0 => Begins(read, session')
  BY <1>1, <1>2, <1>4, Facts, BeginsLonger DEF IInv, ReadBegins
<1> USE DEF IInv, TypeOK, AllGood, LateIsText, Emptied, AtRest, Failing, ReadBegins, Covered, StillThere
<1>9. work' = NoWork
  BY <1>2 DEF Rewriting
<1>10. QED
  BY <1>2, <1>5, <1>6, <1>7, <1>8, <1>9, Facts, NoWorkFields, EmptyGood DEF Places, Rewriting

LEMMA HearStep ==
  ASSUME IInv, Hear
  PROVE  IInv'
<1> DEFINE t == <<Item(made + 1, "text", 0)>>
<1>1. /\ at \in {"idle", "running"} /\ session' = session \o t /\ made' = made + 1
      /\ UNCHANGED <<at, read, copy, work, forced, tries, late, faults, stops>>
  BY DEF Hear, Message
<1>2. made + 1 \in Nat /\ made' \in Nat /\ made <= made'
  BY <1>1, Facts
<1>3. Paired(t) /\ Texts(t) /\ Good(t, made') /\ t \in Seq(Items)
  BY <1>2, MessagePaired, TextsGood DEF Paired
<1> HIDE DEF t
<1>4. Good(session, made') /\ Good(read, made') /\ Good(copy, made')
  BY <1>2, Facts, GoodLater
<1>5. Good(session', made') /\ session' \in Seq(Items)
  BY <1>1, <1>2, <1>3, <1>4, Interposed DEF Good, Paired
<1>6. faults = 0 /\ at = "running" => Begins(read, session')
  BY <1>1, <1>3, Facts, BeginsLonger DEF IInv, ReadBegins
<1> USE DEF IInv, TypeOK, AllGood, LateIsText, Emptied, AtRest, Failing, ReadBegins, Covered, StillThere
<1>7. work' = NoWork
  BY <1>1 DEF Rewriting
<1>8. QED
  BY <1>1, <1>2, <1>4, <1>5, <1>6, <1>7, Facts, NoWorkFields, EmptyGood DEF Places, Rewriting

LEMMA InterruptStep ==
  ASSUME IInv, Interrupt
  PROVE  IInv'
<1> DEFINE t == <<Item(made + 1, "text", 0)>>
<1>1. /\ at = "running" /\ at' = "idle" /\ late' = t /\ made' = made + 1
      /\ read' = <<>> /\ copy' = <<>> /\ tries' = NoTries /\ forced' = FALSE
      /\ UNCHANGED <<session, work, faults, stops>>
  BY DEF Interrupt, Message, CycleOver
<1>2. made + 1 \in Nat /\ made' \in Nat /\ made <= made'
  BY <1>1, Facts
<1>3. Paired(late') /\ Texts(late') /\ late' \in Seq(Items)
  BY <1>1, <1>2, MessagePaired DEF Paired
<1> HIDE DEF t
<1>4. Good(session, made')
  BY <1>2, Facts, GoodLater
<1>5. tries' \in [Reasons -> Nat]
  BY <1>1 DEF NoTries
<1> USE DEF IInv, TypeOK, AllGood, LateIsText, Emptied, AtRest, Failing, ReadBegins, Covered, StillThere
<1>6. work' = NoWork
  BY <1>1 DEF Rewriting
<1>7. QED
  BY <1>1, <1>2, <1>3, <1>4, <1>5, <1>6, Facts, NoWorkFields, EmptyGood DEF Places, Rewriting

LEMMA LateAppendStep ==
  ASSUME IInv, LateAppend
  PROVE  IInv'
<1>1. /\ session' = session \o late /\ late' = <<>>
      /\ UNCHANGED <<at, read, copy, work, forced, tries, made, faults, stops>>
  BY DEF LateAppend
<1>2. Good(session', made) /\ session' \in Seq(Items) /\ (Texts(session) => Texts(session'))
  BY <1>1, Facts, Interposed DEF Good, Paired
<1>3. Begins(read, session) => Begins(read, session')
  BY <1>1, Facts, BeginsLonger
<1>4. Ids(session) \subseteq Ids(session')
  BY <1>1, Facts, JoinedIds
<1>5. Texts(late') /\ Paired(late') /\ late' \in Seq(Items)
  BY <1>1, EmptyPaired
<1>6. QED
  BY <1>1, <1>2, <1>3, <1>4, <1>5, Facts
     DEF IInv, TypeOK, AllGood, LateIsText, Emptied, AtRest, Failing, ReadBegins, Covered, StillThere, Unlike, Rewriting

LEMMA FinishStep ==
  ASSUME IInv, Finish
  PROVE  IInv'
<1>1. /\ at \in {"images", "running"} /\ at' = "idle"
      /\ read' = <<>> /\ copy' = <<>> /\ tries' = NoTries /\ forced' = FALSE
      /\ UNCHANGED <<session, work, late, made, faults, stops>>
  BY DEF Finish, CycleOver
<1>2. tries' \in [Reasons -> Nat]
  BY <1>1 DEF NoTries
<1> USE DEF IInv, TypeOK, AllGood, LateIsText, Emptied, AtRest, Failing, ReadBegins, Covered, StillThere
<1>3. work' = NoWork
  BY <1>1 DEF Rewriting
<1>4. QED
  BY <1>1, <1>2, <1>3, Facts, NoWorkFields, EmptyGood DEF Places, Rewriting

LEMMA MoreTries ==
  ASSUME IInv, NEW r \in Reasons, Recovers(r)
  PROVE  tries' \in [Reasons -> Nat]
<1>1. tries[r] + 1 \in Nat /\ tries \in [Reasons -> Nat]
  BY Facts
<1>2. QED
  BY <1>1 DEF Recovers, Counted

LEMMA RejectImagesStep ==
  ASSUME IInv, RejectImages
  PROVE  IInv'
<1> DEFINE new == Elided(session, Shots(session))
<1>1. /\ at = "running" /\ Rewrite(session, new, "images", "salvage")
      /\ UNCHANGED <<session, read, copy, forced, late, made, faults, stops>>
  BY DEF RejectImages
<1>2. tries' \in [Reasons -> Nat]
  BY MoreTries DEF RejectImages, Reasons
<1>3. Good(new, made) /\ new \in Seq(Items) /\ Ids(new) = Ids(session)
  BY Facts, ElidedPaired, ElidedIds, ElidedItems DEF Good
<1> HIDE DEF new
<1>4. /\ work' \in Works /\ work'.old = session /\ work'.new = new
      /\ work'.next = "images" /\ work'.failed = "salvage" /\ at' = "clear"
  BY <1>1, <1>3, Facts, Rewrites
<1> USE DEF IInv, TypeOK, AllGood, LateIsText, Emptied, AtRest, Failing, ReadBegins, Covered, StillThere
<1>5. QED
  BY <1>1, <1>2, <1>3, <1>4, Facts, EmptyGood DEF Places, Rewriting

LEMMA ContentFilterStep ==
  ASSUME IInv, ContentFilter
  PROVE  IInv'
<1>1. /\ at = "running"
      /\ UNCHANGED <<session, read, copy, forced, late, made, faults, stops>>
      /\ Rewrite(session, session, "images", "images") \/ (at' = "images" /\ UNCHANGED work)
  BY DEF ContentFilter
<1>2. tries' \in [Reasons -> Nat]
  BY MoreTries DEF ContentFilter, Reasons
<1>3. session \in Seq(Items)
  BY Facts
<1> USE DEF IInv, TypeOK, AllGood, LateIsText, Emptied, AtRest, Failing, ReadBegins, Covered, StillThere
<1>4. CASE Rewrite(session, session, "images", "images")
  <2>1. /\ work' \in Works /\ work'.old = session /\ work'.new = session
        /\ work'.next = "images" /\ work'.failed = "images" /\ at' = "clear"
    BY <1>3, <1>4, Rewrites
  <2>2. QED
    BY <1>1, <1>2, <2>1, Facts, EmptyGood DEF Places, Rewriting
<1>5. CASE at' = "images" /\ UNCHANGED work
  <2>1. work' = NoWork
    BY <1>1, <1>5 DEF Rewriting
  <2>2. QED
    BY <1>1, <1>2, <1>5, <2>1, Facts, NoWorkFields, EmptyGood DEF Places, Rewriting
<1>6. QED
  BY <1>1, <1>4, <1>5

\* What begins with all that was read, and is as long, is what was read.
LEMMA BeginsEqual ==
  ASSUME NEW r \in Seq(Items), NEW s \in Seq(Items), Begins(r, s), Len(s) = Len(r)
  PROVE  s = r
BY SeqEqual DEF Begins

LEMMA BeforeJoined ==
  ASSUME NEW r \in Seq(Items), NEW t \in Seq(Items)
  PROVE  Before(r \o t, Len(r)) = r
<1> DEFINE u == r \o t
           b == Before(u, Len(r))
<1>1. /\ u \in Seq(Items) /\ Len(r) \in Nat /\ Len(t) \in Nat /\ Len(u) = Len(r) + Len(t)
      /\ \A i \in 1..Len(r) : u[i] = r[i]
  BY JoinedItems
<1> HIDE DEF u
<1>2. Len(r) \in 0..Len(u)
  BY <1>1
<1>3. b \in Seq(Items) /\ Len(b) = Len(r) /\ \A i \in 1..Len(r) : b[i] = u[i]
  BY <1>1, <1>2, CutItems
<1> HIDE DEF b
<1>4. b = r
  BY <1>1, <1>3, SeqEqual
<1>5. QED
  BY <1>4 DEF b, u

LEMMA SalvageStep ==
  ASSUME IInv, Salvage
  PROVE  IInv'
<1>1. /\ at = "salvage" /\ read' = <<>> /\ copy' = <<>> /\ tries' = NoTries /\ forced' = FALSE
      /\ UNCHANGED <<session, late, faults, stops>>
  BY DEF Salvage, CycleOver
<1>2. tries' \in [Reasons -> Nat]
  BY <1>1 DEF NoTries
<1>3. PICK t \in Unstored(made + 1) :
        \/ /\ Len(session) = Len(read) /\ made' = made + Len(t)
           /\ Rewrite(session, read \o t, "idle", "idle")
        \/ at' = "idle" /\ UNCHANGED <<work, made>>
  BY DEF Salvage
<1>4. made + 1 \in Nat \ {0}
  BY Facts
<1>5. Paired(t) /\ NumberedFrom(t, made + 1) /\ Len(t) \in Nat /\ t \in Seq(Items)
  BY <1>4, UnstoredPaired DEF Paired
<1>6. CASE at' = "idle" /\ UNCHANGED <<work, made>>
  <2> USE DEF IInv, TypeOK, AllGood, LateIsText, Emptied, AtRest, Failing, ReadBegins, Covered, StillThere
  <2>1. work' = NoWork
    BY <1>1, <1>6 DEF Rewriting
  <2>2. QED
    BY <1>1, <1>2, <1>6, <2>1, Facts, NoWorkFields, EmptyGood DEF Places, Rewriting
<1>7. CASE /\ Len(session) = Len(read) /\ made' = made + Len(t)
           /\ Rewrite(session, read \o t, "idle", "idle")
  <2> DEFINE new == read \o t
  <2>1. made' \in Nat /\ made <= made'
    BY <1>5, <1>7, Facts
  <2>2. Good(new, made') /\ new \in Seq(Items)
    BY <1>5, <1>7, Facts, Continued DEF Good, Paired
  <2>3. Good(session, made')
    BY <2>1, Facts, GoodLater
  <2>4. /\ work' \in Works /\ work'.old = session /\ work'.new = new
        /\ work'.next = "idle" /\ work'.failed = "idle" /\ at' = "clear"
    BY <1>7, <2>2, Facts, Rewrites
  <2>5. Ids(session) \subseteq Ids(new) \/ (faults > 0 /\ Before(new, Len(session)) # session)
    <3>1. Ids(new) = Ids(read) \cup Ids(t) /\ Before(new, Len(session)) = read
      BY <1>5, <1>7, Facts, JoinedIds, BeforeJoined
    <3>2. CASE session = read
      BY <3>1, <3>2
    <3>3. CASE session # read
      <4>1. ~Begins(read, session)
        BY <1>7, <3>3, Facts, BeginsEqual
      <4>2. faults # 0
        BY <1>1, <4>1 DEF IInv, ReadBegins
      <4>3. QED
        BY <3>1, <3>3, <4>2, Facts
    <3>4. QED
      BY <3>2, <3>3
  <2> HIDE DEF new
  <2>6. Covered'
    BY <1>1, <2>4, <2>5 DEF Covered, Unlike
  <2> USE DEF IInv, TypeOK, AllGood, LateIsText, Emptied, AtRest, Failing, ReadBegins, StillThere
  <2>7. QED
    BY <1>1, <1>2, <2>1, <2>2, <2>3, <2>4, <2>6, Facts, EmptyGood DEF Places, Rewriting
<1>8. QED
  BY <1>3, <1>6, <1>7

LEMMA StopStep ==
  ASSUME IInv, Stop
  PROVE  IInv'
<1>1. /\ at' = "idle" /\ work' = NoWork /\ late' = <<>>
      /\ read' = <<>> /\ copy' = <<>> /\ tries' = NoTries /\ forced' = FALSE
      /\ UNCHANGED <<made, faults>> /\ stops' = stops + 1
  BY DEF Stop, Return, CycleOver
<1>2. tries' \in [Reasons -> Nat]
  BY <1>1 DEF NoTries
<1>3. stops' \in Nat
  BY <1>1, Facts
<1>4. Good(session', made)
  <2>1. CASE session' \in {session, <<>>}
    BY <2>1, Facts, EmptyGood
  <2>2. CASE session' = session \o late
    BY <2>2, Facts, Interposed DEF Good
  <2>3. CASE at = "store" /\ session' = session \o work.new
    BY <2>3, Facts, Interposed DEF Good, IInv, Emptied
  <2>4. CASE at = "restore" /\ session' = session \o work.old
    BY <2>4, Facts, Interposed DEF Good, IInv, Emptied
  <2>5. QED
    BY <2>1, <2>2, <2>3, <2>4 DEF Stop
<1>5. session' \in Seq(Items)
  BY <1>4 DEF Good, Paired
<1>6. Texts(late') /\ Paired(late') /\ late' \in Seq(Items)
  BY <1>1, EmptyPaired
<1> USE DEF IInv, TypeOK, AllGood, LateIsText, Emptied, AtRest, Failing, ReadBegins, Covered, StillThere
<1>7. QED
  BY <1>1, <1>2, <1>3, <1>4, <1>5, <1>6, Facts, NoWorkFields, EmptyGood DEF Places, Rewriting

LEMMA Initially ==
  ASSUME Init
  PROVE  IInv
<1>1. /\ session = <<Item(1, "text", 0)>> /\ made = 1 /\ at = "idle" /\ read = <<>> /\ copy = <<>>
      /\ work = NoWork /\ forced = FALSE /\ tries = NoTries /\ late = <<>> /\ faults = 0 /\ stops = 0
  BY DEF Init
<1>2. Paired(session) /\ Texts(session) /\ session \in Seq(Items)
  BY <1>1, MessagePaired DEF Paired
<1>3. Good(session, made) /\ Texts(late) /\ Paired(late) /\ late \in Seq(Items)
  BY <1>1, <1>2, TextsGood, EmptyPaired
<1>4. tries \in [Reasons -> Nat]
  BY <1>1 DEF NoTries
<1>5. Good(<<>>, made) /\ <<>> \in Seq(Items)
  BY <1>1, EmptyGood
<1>6. TypeOK
  <2>1. {session, read, copy, late} \subseteq Seq(Items)
    BY <1>1, <1>2, <1>5
  <2>2. at \in Places /\ work \in Works /\ forced \in BOOLEAN
    BY <1>1, NoWorkFields DEF Places
  <2>3. {made, faults, stops} \subseteq Nat
    BY <1>1
  <2>4. QED
    BY <1>4, <2>1, <2>2, <2>3 DEF TypeOK
<1>7. AllGood
  BY <1>1, <1>3, <1>5, NoWorkFields DEF AllGood
<1>8. LateIsText /\ Emptied /\ AtRest /\ Failing /\ ReadBegins /\ Covered /\ StillThere
  BY <1>1, <1>3, NoWorkFields
     DEF LateIsText, Emptied, AtRest, Failing, ReadBegins, Covered, StillThere, Rewriting
<1>9. QED
  BY <1>6, <1>7, <1>8 DEF IInv

LEMMA Step ==
  ASSUME IInv, Next
  PROVE  IInv'
BY ClearStep, StoreStep, ClearAgainStep, RestoreStep, EnforceImageBudgetStep, CompactStep, SummariseStep,
   CallStep, QuietStep, StoreTurnStep, HearStep, InterruptStep, LateAppendStep, FinishStep, RejectImagesStep,
   ContentFilterStep, SalvageStep, StopStep DEF Next, Cycle

LEMMA Stutter ==
  ASSUME IInv, UNCHANGED vars
  PROVE  IInv'
BY DEF vars, IInv, TypeOK, AllGood, LateIsText, Emptied, AtRest, Failing, ReadBegins, Covered, StillThere, Unlike, Rewriting

\* The inductive invariant holds: in particular every conversation the cycle of an agent
\* holds (what it stored, read, copied and is about to store) is well formed and paired.
THEOREM Invariance == Spec => []IInv
<1>1. Init => IInv
  BY Initially
<1>2. IInv /\ [Next]_vars => IInv'
  BY Step, Stutter
<1>3. QED
  BY <1>1, <1>2, PTL DEF Spec

\* The provider never gets a result without its call, or a call without the reasoning it
\* came from, whatever compactions, recoveries, salvages and failures cut the conversation
\* (lifecycle/compaction.py _select_split, lifecycle/sessions.py _rewrite_session).
THEOREM PairsAreKept == Spec => []PairsStayTogether
<1>1. ASSUME IInv PROVE PairsStayTogether
  <2>1. Paired(session) /\ session \in Seq(Items)
    BY <1>1, Facts DEF Good
  <2>2. DOMAIN session = 1..Len(session) /\ \A i \in 1..Len(session) : session[i] \in Items
    BY <2>1
  <2> SUFFICES ASSUME NEW i \in 1..Len(session), session[i].tie # 0
               PROVE  \E j \in 1..i - 1 : session[j].id = session[i].tie
    BY <2>2 DEF PairsStayTogether
  <2>3. session[i].kind \in {"call", "output", "shot", "elided"}
    BY <2>1, <2>2 DEF Paired, Unbound, Items, Kinds
  <2>4. CASE session[i].kind = "call"
    <3>1. i > 1 /\ session[i - 1].id = session[i].tie
      BY <2>1, <2>4 DEF Paired, Reasoned, Calls
    <3>2. i - 1 \in 1..i - 1
      BY <3>1
    <3>3. QED
      BY <3>1, <3>2
  <2>5. CASE IsOutput(session[i])
    <3>1. PICK j \in Calls(session) : j < i /\ session[j].id = session[i].tie
      BY <2>1, <2>5 DEF Paired, Answered, Outputs
    <3>2. j \in 1..i - 1
      BY <3>1 DEF Calls
    <3>3. QED
      BY <3>1, <3>2
  <2>6. QED
    BY <2>3, <2>4, <2>5 DEF IsOutput
<1>2. QED
  BY <1>1, Invariance, PTL

-----------------------------------------------------------------------------
(* Nothing is forgotten. *)

LEMMA KnownParts ==
  ASSUME NEW s \in Seq(Items), NEW t \in Seq(Items), NEW w \in Seq(Items)
  PROVE  Ids(s \o t \o w) = Ids(s) \cup Ids(t) \cup Ids(w)
<1>1. s \o t \in Seq(Items)
  BY JoinedItems
<1>2. QED
  BY <1>1, JoinedIds

LEMMA EmptyIds == Ids(<<>>) = {}
<1>1. <<>> \in Seq(Items) /\ 1..Len(<<>>) = {}
  BY EmptyPaired
<1>2. ASSUME NEW x \in Ids(<<>>) PROVE FALSE
  <2>1. \E i \in 1..Len(<<>>) : x = <<>>[i].id \/ x \in <<>>[i].covers
    BY <1>1, KnownIds
  <2>2. QED
    BY <1>1, <2>1
<1>3. QED
  BY <1>2

\* What the agent was told or did stays in its conversation or under a summary, through
\* every rewrite, failed store, recovery and salvage that is neither cut off nor mistaken
\* for another conversation (lifecycle/sessions.py replace_session_items,
\* lifecycle/compaction.py maybe_compact, lifecycle/execution.py _salvage_stream_to_session).
THEOREM KnownIsKept == Spec => NothingIsForgotten
<1>1. ASSUME IInv, IInv', [Next]_vars PROVE Known \subseteq Known' \/ CutOff \/ Mistaken
  <2> DEFINE K == Ids(session) \cup Ids(late) \cup Ids(work.old)
  <2>1. Known = K
    BY <1>1, Facts, KnownParts DEF Known
  <2>2. Known' = Ids(session') \cup Ids(late') \cup Ids(work'.old)
    <3>1. session' \in Seq(Items) /\ late' \in Seq(Items) /\ work'.old \in Seq(Items)
      BY <1>1 DEF IInv, TypeOK, Works
    <3>2. QED
      BY <3>1, KnownParts DEF Known
  <2> HIDE DEF K
  <2> SUFFICES ASSUME ~CutOff, ~Mistaken PROVE K \subseteq Known'
    BY <2>1
  <2>3. ~Rewriting => work.old = <<>> /\ Ids(work.old) = {}
    BY <1>1, NoWorkFields, EmptyIds DEF IInv, AtRest
  <2>4. CASE UNCHANGED <<session, late, work>>
    BY <2>2, <2>4 DEF K
  <2>5. CASE UNCHANGED <<session, late>> /\ ~Rewriting
    BY <2>2, <2>3, <2>5 DEF K
  <2>6. CASE Clear
    <3>1. at = "clear" /\ late' = late /\ session \in {work.old, <<>>}
      BY <2>6 DEF Clear, CutOff
    <3>2. Ids(work.old) \subseteq Ids(session)
      BY <1>1, <3>1 DEF IInv, StillThere
    <3>3. Ids(session) \subseteq Ids(work.old)
      BY <3>1, EmptyIds
    <3>4. session' = session \/ work' = work
      BY <2>6 DEF Clear
    <3>5. QED
      BY <2>2, <3>1, <3>2, <3>3, <3>4 DEF K
  <2>7. CASE Store
    <3>1. at = "store" /\ late' = late
      BY <2>7 DEF Store
    <3>2. CASE session' = session \o work.new
      <4>1. Ids(session') = Ids(session) \cup Ids(work.new)
        BY <1>1, <3>2, Facts, JoinedIds
      <4>2. Ids(work.old) \subseteq Ids(work.new)
        BY <1>1, <3>1 DEF IInv, Covered, Unlike, Mistaken
      <4>3. QED
        BY <2>2, <3>1, <4>1, <4>2 DEF K
    <3>3. CASE UNCHANGED <<session, work>>
      BY <2>4, <3>1, <3>3
    <3>4. QED
      BY <2>7, <3>2, <3>3 DEF Store
  <2>8. CASE ClearAgain
    <3>1. at = "clear again" /\ late' = late /\ session \in {work.old, <<>>} /\ faults' = faults
      BY <2>8 DEF ClearAgain, CutOff
    <3>2. work' = work
      <4>1. faults \in Nat /\ faults' = faults
        BY <1>1, <3>1, Facts
      <4>2. ~Fault
        BY <4>1 DEF Fault
      <4>3. QED
        BY <2>8, <4>2 DEF ClearAgain
    <3>3. Ids(session) \subseteq Ids(work.old)
      BY <3>1, EmptyIds
    <3>4. QED
      BY <2>2, <3>1, <3>2, <3>3 DEF K
  <2>9. CASE Restore
    <3>1. at = "restore" /\ late' = late /\ faults' = faults
      BY <2>9 DEF Restore, CutOff
    <3>2. session' = session \o work.old
      <4>1. faults \in Nat /\ faults' = faults
        BY <1>1, <3>1, Facts
      <4>2. ~Fault
        BY <4>1 DEF Fault
      <4>3. QED
        BY <2>9, <4>2 DEF Restore, Restored
    <3>3. Ids(session') = Ids(session) \cup Ids(work.old)
      BY <1>1, <3>2, Facts, JoinedIds
    <3>4. QED
      BY <2>2, <3>1, <3>3 DEF K
  <2>10. CASE StoreTurn
    <3>1. PICK t \in Turn(made + 1) : session' = session \o t
      BY <2>10 DEF StoreTurn
    <3>2. late' = late /\ work' = work
      BY <2>10 DEF StoreTurn
    <3>3. made + 1 \in Nat \ {0}
      BY <1>1, Facts
    <3>4. Ids(session') = Ids(session) \cup Ids(t)
      BY <1>1, <3>1, <3>3, Facts, TurnPaired, JoinedIds DEF Paired
    <3>5. QED
      BY <2>2, <3>2, <3>4 DEF K
  <2>11. CASE Hear
    <3>1. session' = session \o Message /\ late' = late /\ work' = work
      BY <2>11 DEF Hear
    <3>2. made + 1 \in Nat
      BY <1>1, Facts
    <3>3. Message \in Seq(Items)
      BY <3>2, MessagePaired DEF Message, Paired
    <3>4. Ids(session') = Ids(session) \cup Ids(Message)
      BY <1>1, <3>1, <3>3, Facts, JoinedIds
    <3>5. QED
      BY <2>2, <3>1, <3>4 DEF K
  <2>12. CASE Interrupt
    <3>1. session' = session /\ late = <<>> /\ work' = work
      BY <2>12 DEF Interrupt
    <3>2. QED
      BY <2>2, <3>1, EmptyIds DEF K
  <2>13. CASE LateAppend
    <3>1. session' = session \o late /\ work' = work
      BY <2>13 DEF LateAppend
    <3>2. Ids(session') = Ids(session) \cup Ids(late)
      BY <1>1, <3>1, Facts, JoinedIds
    <3>3. QED
      BY <2>2, <3>1, <3>2 DEF K
  <2>14. CASE Stop
    <3>1. ~Rewriting /\ late = <<>>
      BY <2>14 DEF CutOff
    <3>2. session' = session
      BY <2>14, <3>1 DEF Stop, Rewriting
    <3>3. QED
      BY <2>2, <2>3, <3>1, <3>2, EmptyIds DEF K
  <2>15. CASE UNCHANGED vars
    BY <2>4, <2>15 DEF vars
  <2>16. CASE Begin \/ EnforceImageBudget \/ Compact \/ Summarise \/ Call \/ Finish \/ RejectImages
              \/ Overflow \/ ContentFilter \/ Fail \/ Salvage
    <3>1. UNCHANGED <<session, late>>
      BY <2>16 DEF Begin, EnforceImageBudget, Compact, Summarise, Call, Finish, RejectImages, Overflow,
                   ContentFilter, Fail, Salvage
    <3>2. ~Rewriting
      BY <2>16 DEF Begin, EnforceImageBudget, Compact, Summarise, Call, Finish, RejectImages, Overflow,
                   ContentFilter, Fail, Salvage, Rewriting
    <3>3. QED
      BY <2>5, <3>1, <3>2
  <2>17. QED
    BY <1>1, <2>6, <2>7, <2>8, <2>9, <2>10, <2>11, <2>12, <2>13, <2>14, <2>15, <2>16 DEF Next, Cycle
<1>2. QED
  BY <1>1, Invariance, PTL DEF Spec, NothingIsForgotten

=============================================================================
