------------------------ MODULE ReportRevisionsProofs ------------------------
(***************************************************************************)
(* The report keeps its findings, for any number of findings, versions,    *)
(* failed writes and deaths of the process and however the three threads   *)
(* interleave: what it answers is on disk, projections taken for current   *)
(* are, and it implements FindingStore.                                    *)
(*                                                                         *)
(* All of it holds until a rollback takes back what another thread had     *)
(* done (undone); after that it does not, as ReportRace.cfg shows.  The    *)
(* invariant follows a change of a finding from its start to its end or    *)
(* its rollback: the memory and the files are never further than this one  *)
(* change away from the findings as they were when it began, and what a    *)
(* rollback would restore is as good as what is there as long as no other  *)
(* thread touched the report in between (overlap).                         *)
(***************************************************************************)
EXTENDS ReportRevisions, TLAPS

-----------------------------------------------------------------------------
(* Changes of the findings. *)

\* A finding that is not filed has no verified evidence.
Found ==
  {x \in [Findings -> [version : 0..MaxVersion, verified : BOOLEAN]] :
     \A f \in Findings : x[f].version = 0 => x[f].verified = FALSE}

Bumped(x, f) == [x EXCEPT ![f] = [version |-> @.version + 1, verified |-> FALSE]]

\* The change from x to y and what may be reported when it is done.
Changed(x, y, before, after) ==
  \/ \E f \in Findings : /\ x[f].version < MaxVersion /\ y = Bumped(x, f)
                         /\ after = [before EXCEPT ![f] = x[f].version + 1]
  \/ y = Verified(x) /\ after = before

\* y is x or one change away from it.
Near(x, y) ==
  \/ y = x
  \/ \E f \in Findings : x[f].version < MaxVersion /\ y = Bumped(x, f)
  \/ y = Verified(x)

\* A change keeps findings well-formed, and is one change away.
LEMMA NearFound ==
  ASSUME NEW x \in Found, NEW y, Near(x, y)
  PROVE  y \in Found /\ \A f \in Findings : x[f].version <= y[f].version
<1>1. ASSUME NEW f \in Findings, x[f].version < MaxVersion
      PROVE  Bumped(x, f) \in Found /\ \A g \in Findings : x[g].version <= Bumped(x, f)[g].version
  <2>1. /\ x[f].version + 1 \in 0..MaxVersion /\ x[f].version + 1 # 0
    BY <1>1, RevisionsAssumption DEF Found
  <2>2. \A g \in Findings : Bumped(x, f)[g] = IF g = f THEN [version |-> x[f].version + 1, verified |-> FALSE]
                                              ELSE x[g]
    BY DEF Bumped, Found
  <2>3. Bumped(x, f) \in [Findings -> [version : 0..MaxVersion, verified : BOOLEAN]]
    BY <2>1 DEF Bumped, Found
  <2>4. \A g \in Findings : Bumped(x, f)[g].version = 0 => Bumped(x, f)[g].verified = FALSE
    BY <2>1, <2>2 DEF Found
  <2>5. \A g \in Findings : x[g].version <= Bumped(x, f)[g].version
    BY <2>1, <2>2, RevisionsAssumption DEF Found
  <2>6. QED
    BY <2>3, <2>4, <2>5 DEF Found
<1>2. /\ Verified(x) \in Found
      /\ \A g \in Findings : Verified(x)[g].version = x[g].version
  <2>1. ASSUME NEW g \in Findings
        PROVE  /\ Verified(x)[g] \in [version : 0..MaxVersion, verified : BOOLEAN]
               /\ Verified(x)[g].version = x[g].version
               /\ x[g].version = 0 => Verified(x)[g].verified = FALSE
    <3>1. PICK r \in [version : 0..MaxVersion, verified : BOOLEAN] : r = x[g]
      BY DEF Found
    <3>2. CASE r.version > 0
      <4>1. Verified(x)[g] = [r EXCEPT !.verified = TRUE]
        BY <3>1, <3>2 DEF Verified
      <4>2. Verified(x)[g] \in [version : 0..MaxVersion, verified : BOOLEAN]
        BY <4>1
      <4>3. Verified(x)[g].version = x[g].version
        BY <3>1, <4>1
      <4>4. x[g].version # 0
        BY <3>1, <3>2
      <4>5. QED
        BY <4>2, <4>3, <4>4
    <3>3. CASE ~(r.version > 0)
      <4>1. Verified(x)[g] = r
        BY <3>1, <3>3 DEF Verified
      <4>2. QED
        BY <3>1, <4>1 DEF Found
    <3>4. QED
      BY <3>2, <3>3
  <2>2. QED
    <3>1. Verified(x) = [g \in Findings |-> Verified(x)[g]]
      BY DEF Verified
    <3>2. QED
      BY <2>1, <3>1 DEF Found
<1>3. \A g \in Findings : x[g].version <= x[g].version
  BY RevisionsAssumption DEF Found
<1>4. QED
  BY <1>1, <1>2, <1>3 DEF Near

LEMMA ChangedNear ==
  ASSUME NEW x \in Found, NEW y, NEW b \in [Findings -> Nat], NEW a, Changed(x, y, b, a)
  PROVE  /\ Near(x, y) /\ y \in Found /\ a \in [Findings -> Nat]
         /\ (\A f \in Findings : b[f] <= x[f].version) => \A f \in Findings : a[f] <= y[f].version
<1>1. Near(x, y)
  BY DEF Near, Changed
<1>2. CASE \E f \in Findings : y = Bumped(x, f) /\ a = [b EXCEPT ![f] = x[f].version + 1]
  <2>1. PICK f \in Findings : y = Bumped(x, f) /\ a = [b EXCEPT ![f] = x[f].version + 1]
    BY <1>2
  <2>2. y[f].version = x[f].version + 1 /\ x[f].version + 1 \in Nat
    BY <2>1, RevisionsAssumption DEF Bumped, Found
  <2>3. \A g \in Findings : g # f => y[g] = x[g] /\ a[g] = b[g]
    BY <2>1 DEF Bumped, Found
  <2>4. QED
    BY <1>1, <2>1, <2>2, <2>3, NearFound, RevisionsAssumption
<1>3. CASE y = Verified(x) /\ a = b
  <2>1. \A g \in Findings : y[g].version = x[g].version
    BY <1>3 DEF Verified, Found
  <2>2. QED
    BY <1>1, <1>3, <2>1, NearFound
<1>4. QED
  BY <1>2, <1>3 DEF Changed

\* What File and Revise write is the change they begin.
LEMMA FiledIsBumped ==
  ASSUME NEW x \in Found, NEW f \in Findings, x[f].version = 0
  PROVE  [x EXCEPT ![f].version = 1] = Bumped(x, f)
<1>1. PICK r \in [version : 0..MaxVersion, verified : BOOLEAN] : r = x[f]
  BY DEF Found
<1>2. r.version = 0 /\ r.verified = FALSE
  BY <1>1 DEF Found
<1>3. [r EXCEPT !.version = 1] = [version |-> 1, verified |-> r.verified]
  BY <1>1
<1>4. [r EXCEPT !.version = 1] = [version |-> 1, verified |-> FALSE]
  BY <1>2, <1>3, Zenon
<1>5. [x EXCEPT ![f].version = 1] = [x EXCEPT ![f] = [r EXCEPT !.version = 1]]
  BY <1>1
<1>6. x[f].version + 1 = 1
  BY <1>1, <1>2
<1>7. QED
  BY <1>4, <1>5, <1>6, Zenon DEF Bumped

LEMMA RevisedIsBumped ==
  ASSUME NEW x \in Found, NEW f \in Findings
  PROVE  [x EXCEPT ![f] = [version |-> x[f].version + 1, verified |-> FALSE]] = Bumped(x, f)
  BY DEF Found, Bumped

LEMMA NearItself == \A x : Near(x, x)
  BY DEF Near

-----------------------------------------------------------------------------
(* The invariant. *)

Records == {"usage_record", "filed_record", "revised_record", "save_record", "mark_record",
            "leave_record", "stop_record"}
LoopPoints == {"idle", "usage_record", "resumed", "refused", "filing", "listed", "filed", "filed_record",
               "unfiling", "unfiled", "revising", "revised", "revised_record", "unrevising", "unrevised"}
FinisherPoints == {"idle", "bump", "save", "save_record", "mark", "mark_record", "check",
                   "verify", "leave", "leave_save", "leave_record", "left"}
Statuses == {"running", "completed", "stopped", "interrupted"}
Fields == [findings : Found, revision : Nat, persisted : Nat, recorded : Nat,
           status : Statuses, results : BOOLEAN, receipt : BOOLEAN]
Saves == [revision : Nat, whole : BOOLEAN, status : Statuses]
Files == [findings : Found, sound : BOOLEAN, status : Statuses, results : BOOLEAN, revision : Nat, torn : BOOLEAN]

\* Every variable keeps its type.
Typed ==
  /\ mem \in Fields /\ disk \in Files
  /\ prior.mem \in Fields /\ prior.disk \in Files
  /\ prior.told \in [Findings -> Nat] /\ told \in [Findings -> Nat]
  /\ staged.revision \in Nat /\ staged.findings \in Found
  /\ local \in [Threads -> Saves] /\ faults \in Nat
  /\ at \in [Threads -> LoopPoints \cup FinisherPoints \cup {"stop_record"}]
  /\ at["loop"] \in LoopPoints /\ at["finisher"] \in FinisherPoints /\ at["ui"] \in {"idle", "stop_record"}

\* Who holds the lock.
Locked ==
  /\ lock \in Threads \cup {"none"}
  /\ lock = "loop" <=> at["loop"] \in {"usage_record", "filed_record", "revising", "revised", "revised_record",
                                       "unrevising", "unrevised"}
  /\ lock = "finisher" <=> at["finisher"] \in {"save_record", "mark_record", "leave_record"}
  /\ lock = "ui" <=> at["ui"] = "stop_record"
  /\ ~Alive => at["finisher"] = "idle" /\ at["ui"] = "idle"

\* A save of another thread overlaps with the change.
Watched ==
  /\ ~Changing => ~overlap
  /\ Changing /\ lock \notin {"none", "loop"} => overlap

\* A projection is never taken for newer than the memory.
Revisions ==
  /\ mem.persisted <= mem.revision
  /\ \A t \in Threads : at[t] \in Records => local[t].revision <= mem.revision
  /\ Changing => prior.mem.persisted <= prior.mem.revision /\ prior.mem.revision <= mem.revision

\* What a change of a finding has come to. Other threads move the revision, the status
\* and the results, never the findings.
Underway ==
  /\ at["loop"] = "filing" =>
       /\ mem.findings = prior.mem.findings
       /\ \E f \in Findings : mem.findings[f].version = 0 /\ prior.told = [told EXCEPT ![f] = 1]
  /\ at["loop"] \in {"listed", "filed", "filed_record", "revised", "revised_record"} =>
       Changed(prior.mem.findings, mem.findings, told, prior.told)
  /\ at["loop"] \in {"filed", "filed_record", "revised", "revised_record"} => prior.mem.revision < mem.revision
  /\ at["loop"] = "revising" =>
       mem.findings = prior.mem.findings /\ Changed(prior.mem.findings, disk.findings, told, prior.told)
  /\ at["loop"] \in {"revised", "filed_record", "revised_record"} => disk.findings = mem.findings
  /\ at["loop"] \in {"unfiled", "unrevised"} /\ ~overlap => mem = prior.mem
  /\ Changing => Near(prior.mem.findings, mem.findings) /\ Near(prior.mem.findings, prior.disk.findings)

\* What a restart would find, and an export that would still be committed.
Keeping ==
  Alive =>
    /\ Near(Stored, disk.findings)
    /\ \A f \in Findings : told[f] <= Stored[f].version
    /\ staged.on =>
         LET base == IF Changing THEN prior.mem ELSE mem
         IN  staged.revision <= base.revision /\ (staged.revision = base.revision => staged.findings = base.findings)

\* Projections of this revision are there, unless a restore failed.
Projected(m, d) == m.revision = m.persisted /\ ~d.torn => d.findings = m.findings

\* The memory's revision is persisted, or about to be by a save under way.
Claimed ==
  \/ mem.revision = mem.persisted
  \/ \E t \in Threads : at[t] \in Records /\ local[t].revision = mem.revision

Projecting ==
  /\ Alive /\ (~Changing \/ at["loop"] = "filing") /\ Claimed /\ ~disk.torn => disk.findings = mem.findings
  /\ at["loop"] = "filed" /\ Claimed => disk.findings = mem.findings
  /\ Changing /\ ~overlap => Projected(prior.mem, prior.disk)

\* A finished scan.
Sealed(m, d) == m.status = "completed" => m.results /\ d.status = "completed" /\ d.results

Finishing ==
  /\ Alive /\ (at["finisher"] = "mark_record" => local["finisher"].status = "completed") => Sealed(mem, disk)
  /\ at["finisher"] \in {"bump", "save", "save_record", "mark", "mark_record", "check", "verify"} => mem.results
  /\ at["finisher"] = "mark_record" => mem.status = "completed"
  /\ answer = "success" => Alive /\ at["finisher"] = "idle" /\ mem.status = "completed"
  /\ Changing /\ ~overlap =>
       prior.mem.status = mem.status /\ prior.mem.results = mem.results /\ Sealed(prior.mem, prior.disk)

\* A completion whose write failed may be on disk, and is not taken for durable.
Refuted(m, d) == d.status = "completed" /\ m.receipt => m.status = "completed"

Checking ==
  /\ Alive /\ ~Changing /\ disk.sound => disk.revision <= mem.revision
  /\ at["finisher"] = "check" => Refuted(mem, disk)
  /\ at["finisher"] = "verify" /\ Durable(disk, local["finisher"].revision) => mem.status = "completed"
  /\ Changing /\ ~overlap =>
       /\ prior.disk.sound => prior.disk.revision <= prior.mem.revision
       /\ mem.receipt => prior.mem.receipt \/ prior.mem.revision < mem.revision
       /\ disk.status \in {prior.disk.status, mem.status}
       /\ at["finisher"] = "check" => Refuted(prior.mem, prior.disk)
       /\ at["finisher"] = "verify" /\ Durable(prior.disk, local["finisher"].revision) => mem.status = "completed"

Sane == Revisions /\ Underway /\ Keeping /\ Projecting /\ Finishing /\ Checking

\* Nothing is known of what follows a rollback that took back another thread's doing.
Regular == Typed /\ Locked /\ Watched /\ Sane

IInv == ~undone => Regular

-----------------------------------------------------------------------------
(* What a step of a save does to the memory and the files. *)

LEMMA FieldTypes ==
  ASSUME NEW m \in Fields, NEW d \in Files
  PROVE  /\ m.findings \in Found /\ m.revision \in Nat /\ m.persisted \in Nat /\ m.status \in Statuses
         /\ d.findings \in Found /\ d.status \in Statuses /\ d.revision \in Nat
  BY DEF Fields, Files

LEMMA SettledStatus ==
  ASSUME NEW s \in Statuses, NEW w \in Statuses \cup {"none"}
  PROVE  /\ Settled(s, w) \in Statuses
         /\ Settled(s, w) = "completed" <=> w = "completed" \/ s = "completed"
         /\ w = "none" => Settled(s, w) = s
  BY DEF Settled, Statuses

\* What no step of a save changes.
SameReport ==
  /\ mem'.findings = mem.findings /\ mem'.revision = mem.revision /\ mem'.results = mem.results
  /\ mem' \in Fields /\ disk' \in Files /\ faults' \in Nat

\* The first: projections are current or written, or cannot be written.
Projects(t, w, next, failed) ==
  /\ SameReport /\ Alive /\ lock \in {"none", t}
  /\ mem'.persisted = mem.persisted
  /\ w = "none" => mem'.status = mem.status
  /\ w # "completed" => (mem'.status = "completed" <=> mem.status = "completed")
  /\ disk'.status = disk.status /\ disk'.results = disk.results /\ disk'.revision = disk.revision
  /\ \/ /\ at' = [at EXCEPT ![t] = next] /\ lock' = t
        /\ local' \in [Threads -> Saves] /\ local'[t].revision = mem.revision
        /\ \A u \in Threads : u # t => local'[u] = local[u]
        /\ mem'.receipt = mem.receipt /\ ~disk'.sound
        /\ w = "completed" => mem'.status = "completed" /\ local'[t].status = mem.status
        /\ \/ mem.revision = mem.persisted /\ disk'.findings = disk.findings /\ disk'.torn = disk.torn
           \/ disk'.findings = mem.findings /\ ~disk'.torn
     \/ /\ at' = [at EXCEPT ![t] = failed] /\ UNCHANGED <<local, lock>>
        /\ mem.revision # mem.persisted /\ ~mem'.receipt /\ faults' # faults
        /\ w = "completed" => mem'.status = mem.status
        /\ disk'.findings = disk.findings /\ disk'.torn = disk.torn /\ (disk'.sound => disk.sound)

LEMMA ProjectStep ==
  ASSUME mem \in Fields, disk \in Files, local \in [Threads -> Saves], faults \in Nat, NEW t \in Threads,
         NEW w \in Statuses \cup {"none"}, NEW next, NEW failed, Project(t, w, next, failed)
  PROVE  Projects(t, w, next, failed)
<1> DEFINE s == Settled(mem.status, w)
           old == IF w = "completed" THEN mem.status ELSE "running"
<1>1. /\ s \in Statuses /\ (s = "completed" <=> w = "completed" \/ mem.status = "completed")
      /\ w = "none" => s = mem.status
  BY SettledStatus DEF Fields
<1> HIDE DEF s
<1>0. old \in Statuses /\ (w = "completed" => old = mem.status)
  BY DEF Fields, Statuses
<1> HIDE DEF old
<1>5. Alive /\ lock \in {"none", t}
  BY DEF Project
<1>2. CASE /\ \E whole \in BOOLEAN :
                /\ local' = [local EXCEPT ![t] = [revision |-> mem.revision, whole |-> whole, status |-> old]]
                /\ IF whole THEN UNCHANGED faults ELSE mem.revision # mem.persisted /\ Fault
           /\ mem' = [mem EXCEPT !.status = s]
           /\ disk' = IF mem.revision = mem.persisted THEN [disk EXCEPT !.sound = FALSE]
                      ELSE [disk EXCEPT !.findings = mem.findings, !.sound = FALSE, !.torn = FALSE]
           /\ at' = [at EXCEPT ![t] = next] /\ lock' = t
  <2>1. PICK whole \in BOOLEAN :
           /\ local' = [local EXCEPT ![t] = [revision |-> mem.revision, whole |-> whole, status |-> old]]
           /\ IF whole THEN UNCHANGED faults ELSE mem.revision # mem.persisted /\ Fault
    BY <1>2
  <2>2. [revision |-> mem.revision, whole |-> whole, status |-> old] \in Saves
    BY <1>0 DEF Fields, Saves
  <2>3. /\ local' \in [Threads -> Saves] /\ local'[t].revision = mem.revision /\ local'[t].status = old
        /\ \A u \in Threads : u # t => local'[u] = local[u]
    BY <2>1, <2>2
  <2>4. /\ mem' \in Fields /\ mem'.findings = mem.findings /\ mem'.revision = mem.revision
        /\ mem'.results = mem.results /\ mem'.persisted = mem.persisted /\ mem'.receipt = mem.receipt
        /\ mem'.status = s
    BY <1>1, <1>2 DEF Fields
  <2>5. faults' \in Nat
    BY <2>1 DEF Fault
  <2>6. CASE mem.revision = mem.persisted
    <3>1. /\ disk' \in Files /\ disk'.findings = disk.findings /\ disk'.torn = disk.torn /\ disk'.status = disk.status
          /\ disk'.results = disk.results /\ disk'.revision = disk.revision /\ ~disk'.sound
      BY <1>2, <2>6 DEF Files
    <3>2. QED
      BY <1>0, <1>1, <1>2, <1>5, <2>3, <2>4, <2>5, <2>6, <3>1 DEF SameReport, Projects
  <2>7. CASE mem.revision # mem.persisted
    <3>1. /\ disk' \in Files /\ disk'.findings = mem.findings /\ ~disk'.torn /\ disk'.status = disk.status
          /\ disk'.results = disk.results /\ disk'.revision = disk.revision /\ ~disk'.sound
      BY <1>2, <2>7 DEF Files, Fields
    <3>2. QED
      BY <1>0, <1>1, <1>2, <1>5, <2>3, <2>4, <2>5, <3>1 DEF SameReport, Projects
  <2>8. QED
    BY <2>6, <2>7
<1>3. CASE /\ mem.revision # mem.persisted /\ Fault
           /\ mem' = [mem EXCEPT !.receipt = FALSE, !.status = IF w = "completed" THEN @ ELSE s]
           /\ disk' \in {disk, [disk EXCEPT !.sound = FALSE]}
           /\ at' = [at EXCEPT ![t] = failed] /\ UNCHANGED <<local, lock>>
  <2>1. faults' # faults /\ faults' \in Nat
    BY <1>3 DEF Fault
  <2>2. /\ mem' \in Fields /\ mem'.findings = mem.findings /\ mem'.revision = mem.revision
        /\ mem'.results = mem.results /\ mem'.persisted = mem.persisted /\ ~mem'.receipt
        /\ mem'.status = IF w = "completed" THEN mem.status ELSE s
    BY <1>1, <1>3 DEF Fields
  <2>3. /\ disk' \in Files /\ disk'.findings = disk.findings /\ disk'.torn = disk.torn /\ disk'.status = disk.status
        /\ disk'.results = disk.results /\ disk'.revision = disk.revision /\ (disk'.sound => disk.sound)
    BY <1>3 DEF Files
  <2>4. QED
    BY <1>1, <1>3, <1>5, <2>1, <2>2, <2>3 DEF SameReport, Projects
<1>4. QED
  BY <1>2, <1>3 DEF Project, Projects, Goto, NoSave, s, old

\* What the second writes, if it writes.
Written(t) ==
  /\ disk'.status = mem.status /\ disk'.results = mem.results
  /\ disk'.revision \in {mem.persisted, local[t].revision}

\* The second: run.json is written or not.
Recorded(t, w, next, failed) ==
  /\ SameReport
  /\ local' = [local EXCEPT ![t] = NoSave]
  /\ disk'.findings = disk.findings /\ disk'.torn = disk.torn
  /\ mem'.persisted \in {mem.persisted, local[t].revision}
  /\ w # "completed" => mem'.status = mem.status
  /\ \/ /\ at' = [at EXCEPT ![t] = next] /\ mem'.receipt /\ mem'.status = mem.status /\ Written(t)
     \/ /\ at' = [at EXCEPT ![t] = failed] /\ ~mem'.receipt /\ (disk' = disk \/ Written(t))
        /\ w = "completed" => mem'.status = local[t].status

LEMMA RecordStep ==
  ASSUME mem \in Fields, disk \in Files, local \in [Threads -> Saves], faults \in Nat, NEW t \in Threads,
         NEW w, NEW next, NEW failed, Record(t, w, next, failed)
  PROVE  Recorded(t, w, next, failed)
<1> DEFINE n == Persisted(local[t])
           written(sound) == [disk EXCEPT !.sound = sound, !.status = mem.status, !.results = mem.results,
                                          !.revision = n]
<1>1. local[t].revision \in Nat /\ local[t].status \in Statuses
  BY DEF Saves
<1>2. n \in {mem.persisted, local[t].revision} /\ n \in Nat
  BY <1>1 DEF Persisted, Fields
<1> HIDE DEF n
<1>3. ASSUME NEW sound \in BOOLEAN, disk' = written(sound)
      PROVE  disk' \in Files /\ disk'.findings = disk.findings /\ disk'.torn = disk.torn /\ Written(t)
  BY <1>2, <1>3 DEF Fields, Files, Written
<1> HIDE DEF written
<1>4. CASE /\ \E resumable, sound \in BOOLEAN :
                /\ mem' = [mem EXCEPT !.receipt = TRUE, !.recorded = n, !.persisted = IF resumable THEN n ELSE @]
                /\ disk' = written(sound)
                /\ IF resumable /\ sound THEN UNCHANGED faults ELSE Fault
           /\ at' = [at EXCEPT ![t] = next]
           /\ local' = [local EXCEPT ![t] = NoSave]
  <2>1. PICK resumable \in BOOLEAN, sound \in BOOLEAN :
          /\ mem' = [mem EXCEPT !.receipt = TRUE, !.recorded = n, !.persisted = IF resumable THEN n ELSE @]
          /\ disk' = written(sound)
          /\ IF resumable /\ sound THEN UNCHANGED faults ELSE Fault
    BY <1>4
  <2>2. /\ mem' \in Fields /\ mem'.findings = mem.findings /\ mem'.revision = mem.revision
        /\ mem'.results = mem.results /\ mem'.receipt /\ mem'.status = mem.status
        /\ mem'.persisted \in {mem.persisted, n}
    BY <1>2, <2>1 DEF Fields
  <2>3. faults' \in Nat
    BY <2>1 DEF Fault
  <2>4. disk' \in Files /\ disk'.findings = disk.findings /\ disk'.torn = disk.torn /\ Written(t)
    BY <1>3, <2>1
  <2>5. QED
    BY <1>2, <1>4, <2>2, <2>3, <2>4 DEF SameReport, Recorded
<1>5. CASE /\ Fault
           /\ mem' = [mem EXCEPT !.receipt = FALSE, !.recorded = n,
                                 !.status = IF w = "completed" THEN local[t].status ELSE @]
           /\ disk' \in {disk, written(TRUE)}
           /\ at' = [at EXCEPT ![t] = failed]
           /\ local' = [local EXCEPT ![t] = NoSave]
  <2>1. faults' \in Nat
    BY <1>5 DEF Fault
  <2>2. /\ mem' \in Fields /\ mem'.findings = mem.findings /\ mem'.revision = mem.revision
        /\ mem'.results = mem.results /\ ~mem'.receipt /\ mem'.persisted = mem.persisted
        /\ mem'.status = IF w = "completed" THEN local[t].status ELSE mem.status
    BY <1>1, <1>2, <1>5 DEF Fields
  <2>3. disk' \in Files /\ disk'.findings = disk.findings /\ disk'.torn = disk.torn /\ (disk' = disk \/ Written(t))
    BY <1>3, <1>5
  <2>4. QED
    BY <1>5, <2>1, <2>2, <2>3 DEF SameReport, Recorded
<1>6. QED
  BY <1>4, <1>5 DEF Record, Recorded, Goto, n, written

LEMMA NoOperationTypes ==
  /\ None \in Found /\ FreshMemory \in Fields /\ FreshDisk \in Files /\ NoSave \in Saves
  /\ NoOperation.mem \in Fields /\ NoOperation.disk \in Files /\ NoOperation.told \in [Findings -> Nat]
<1>1. None \in Found
  BY RevisionsAssumption DEF None, Found
<1>2. FreshMemory \in Fields /\ FreshDisk \in Files /\ NoSave \in Saves
  BY <1>1 DEF FreshMemory, FreshDisk, NoSave, Fields, Files, Saves, Statuses
<1>3. QED
  BY <1>1, <1>2 DEF NoOperation, Unpromised

-----------------------------------------------------------------------------
(* The history variables. *)

\* What a step under watch tells as long as nothing was undone.
Watching ==
  /\ Changing /\ Changing' /\ ~overlap' =>
       ~overlap /\ (at'["loop"] = at["loop"] => UNCHANGED <<mem, disk, lock, faults>>)
  /\ ~Changing /\ Changing' /\ ~overlap' => lock \in {"none", "loop"}
  /\ RollsBack => ~overlap

LEMMA WatchStep == ASSUME Watch, ~undone' PROVE Watching /\ ~undone
<1>1. ~undone /\ (RollsBack => ~overlap)
  BY Zenon DEF Watch
<1>2. Changing' /\ ~overlap' => ~Overlaps
  BY Zenon DEF Watch
<1>3. ASSUME Changing, Changing', ~overlap'
      PROVE  ~overlap /\ (at'["loop"] = at["loop"] => UNCHANGED <<mem, disk, lock, faults>>)
  <2>1. ~overlap /\ ~(at'["loop"] = at["loop"] /\ <<mem, disk, lock, faults>>' # <<mem, disk, lock, faults>>)
    BY <1>2, <1>3, Zenon DEF Overlaps
  <2>2. QED
    BY <2>1, Zenon
<1>4. ASSUME ~Changing, Changing', ~overlap'
      PROVE  lock \in {"none", "loop"}
  BY <1>2, <1>4, Zenon DEF Overlaps
<1>5. QED
  BY <1>1, <1>3, <1>4, Zenon DEF Watching

-----------------------------------------------------------------------------
(* Every step keeps the invariant. *)

LEMMA InitIInv == Init => IInv
<1> SUFFICES ASSUME Init PROVE IInv
  OBVIOUS
<1>1. None \in Found
  BY NoOperationTypes
<1>3. Near(None, None)
  BY NearItself
<1>4. Typed
  BY NoOperationTypes DEF Init, Typed, NotStaged, Unpromised, Threads, LoopPoints, FinisherPoints
<1>5. ~Changing /\ Alive
  BY DEF Init, Changing, Alive, Threads
<1>6. /\ mem.findings = None /\ disk.findings = None /\ mem.persisted = 1 /\ mem.revision = 1
      /\ mem.status = "running" /\ disk.status = "running" /\ disk.revision = 1
  BY DEF Init, FreshMemory, FreshDisk
<1>7. Locked /\ Watched /\ Underway
  BY <1>5 DEF Init, Locked, Watched, Underway, Threads
<1>8. Keeping
  <2>1. \A f \in Findings : told[f] <= None[f].version
    BY DEF Init, Unpromised, None
  <2>2. ~staged.on
    BY DEF Init, NotStaged
  <2>3. QED
    BY <1>3, <1>5, <1>6, <2>1, <2>2 DEF Keeping, Stored
<1>9. Revisions /\ Projecting
  BY <1>5, <1>6 DEF Init, Revisions, Projecting, Projected, Threads, Records
<1>10. Finishing /\ Checking
  BY <1>5, <1>6 DEF Init, Finishing, Checking, Sealed, Refuted, Threads
<1>11. QED
  BY <1>4, <1>7, <1>8, <1>9, <1>10 DEF IInv, Regular, Sane

\* A save of another thread, beside whatever the loop is doing.
Aside == Revisions /\ Underway /\ Keeping /\ Projecting

LEMMA OthersProject ==
  ASSUME Regular, Watching, NEW t \in {"finisher", "ui"}, NEW w, NEW next \in Records, NEW failed, failed \notin Records,
         at[t] \notin Records, Projects(t, w, next, failed), UNCHANGED books
  PROVE  Aside'
<1> USE DEF Regular, Sane, Typed, Locked, Watched, Changing, Alive, Stored, Threads, books, SameReport
<1>0. mem.revision \in Nat /\ mem.persisted \in Nat
  BY FieldTypes
<1>1. /\ at'["loop"] = at["loop"] /\ (at'[t] = next \/ at'[t] = failed) /\ \A u \in Threads : u # t => at'[u] = at[u]
      /\ mem'.findings = mem.findings /\ mem'.revision = mem.revision /\ mem'.persisted = mem.persisted
      /\ disk'.findings \in {disk.findings, mem.findings}
      /\ UNCHANGED <<prior, staged, told>>
  BY DEF Projects
<1>2. Changing' <=> Changing
  BY <1>1
<1>3. lock \in {"none", t}
  BY DEF Projects
<1>4. Revisions'
  <2>1. \A u \in Threads : at'[u] \in Records => local'[u].revision <= mem'.revision
    BY <1>0, <1>1 DEF Projects, Revisions
  <2>2. QED
    BY <1>1, <2>1 DEF Revisions
<1>5. Underway'
  <2>1. at["loop"] \notin {"revising", "revised", "filed_record", "revised_record", "unrevised"}
    BY <1>3
  <2>2. at["loop"] = "unfiled" /\ ~overlap' => ~overlap /\ mem' = mem
    BY <1>1, <1>2 DEF Watching
  <2>3. QED
    BY <1>1, <2>1, <2>2 DEF Underway
<1>6. Keeping'
  <2>1. Near(Stored, mem.findings)
    BY NearItself DEF Underway
  <2>2. Stored' = Stored
    BY <1>1
  <2>3. Alive' <=> Alive
    BY <1>1
  <2>4. Alive => Near(Stored', disk'.findings)
    BY <1>1, <2>1, <2>2 DEF Keeping
  <2>5. QED
    BY <1>1, <1>2, <2>2, <2>3, <2>4 DEF Keeping
<1>7. Projecting'
  <2>1. \/ Claimed /\ disk'.findings = disk.findings /\ disk'.torn = disk.torn
        \/ disk'.findings = mem.findings /\ ~disk'.torn
        \/ (Claimed' => Claimed) /\ disk'.findings = disk.findings /\ disk'.torn = disk.torn
    BY <1>1 DEF Projects, Claimed
  <2>2. Changing' /\ ~overlap' => ~overlap
    BY <1>1, <1>2 DEF Watching
  <2>3. QED
    BY <1>1, <1>2, <2>1, <2>2 DEF Projecting, Projected
<1>8. QED
  BY <1>4, <1>5, <1>6, <1>7 DEF Aside

LEMMA OthersRecord ==
  ASSUME Regular, Watching, NEW t \in {"finisher", "ui"}, NEW w, NEW next, NEW failed,
         next \notin Records, failed \notin Records,
         at[t] \in Records, lock = t, Recorded(t, w, next, failed), lock' = "none", UNCHANGED books
  PROVE  Aside'
<1> USE DEF Regular, Sane, Typed, Locked, Watched, Changing, Alive, Stored, Threads, books, SameReport
<1>0. mem.revision \in Nat /\ mem.persisted \in Nat /\ local[t].revision \in Nat
  BY FieldTypes DEF Saves
<1>1. /\ at'["loop"] = at["loop"] /\ at'[t] \notin Records /\ \A u \in Threads : u # t => at'[u] = at[u] /\ local'[u] = local[u]
      /\ mem'.findings = mem.findings /\ mem'.revision = mem.revision
      /\ mem'.persisted \in {mem.persisted, local[t].revision} /\ mem'.persisted <= mem.revision
      /\ disk'.findings = disk.findings /\ disk'.torn = disk.torn
      /\ UNCHANGED <<prior, staged, told>>
  BY DEF Recorded, Revisions
<1>2. Changing' <=> Changing
  BY <1>1
<1>3. Changing' => overlap'
  BY <1>1, <1>2 DEF Watching
<1>4. Revisions'
  BY <1>0, <1>1, <1>2 DEF Revisions
<1>5. Underway'
  <2>1. at["loop"] \notin {"revising", "revised", "filed_record", "revised_record", "unrevised"}
    OBVIOUS
  <2>2. QED
    BY <1>1, <1>3, <2>1 DEF Underway
<1>6. Keeping'
  <2>1. Stored' = Stored /\ (Alive' <=> Alive)
    BY <1>1
  <2>2. QED
    BY <1>1, <1>2, <2>1 DEF Keeping
<1>7. Projecting'
  <2>1. Claimed' => Claimed
    BY <1>1 DEF Claimed
  <2>2. QED
    BY <1>1, <1>2, <1>3, <2>1 DEF Projecting, Projected
<1>8. QED
  BY <1>4, <1>5, <1>6, <1>7 DEF Aside

\* The saves of finish_scan.
LEMMA SaveFinishKeeps == ASSUME Regular, Watching, SaveFinish PROVE (Typed /\ Locked /\ Sane)'
<1> USE DEF Regular, Sane, Typed, Locked, Watched, Finishing, Sealed, Checking, Refuted, Durable, Changing, Alive,
            Threads, Records, books, SameReport, Step, FinisherPoints, LoopPoints
<1>0. mem.revision \in Nat /\ mem.persisted \in Nat /\ \A u \in Threads : local[u].revision \in Nat
  BY FieldTypes DEF Saves
<1>1. CASE Step("bump")
  <2>1. /\ mem'.findings = mem.findings /\ mem'.revision = mem.revision + 1 /\ mem'.persisted = mem.persisted
        /\ mem'.status = mem.status /\ mem'.results = mem.results /\ mem'.receipt = mem.receipt /\ mem' \in Fields
    BY <1>1 DEF SaveFinish, Fields
  <2>2. /\ at' = [at EXCEPT !["finisher"] = "save"] /\ UNCHANGED <<disk, lock, local, faults>>
        /\ UNCHANGED <<prior, staged, told, answer, crashes>>
    BY <1>1 DEF SaveFinish, Goto
  <2>3. mem' # mem /\ (Changing' <=> Changing)
    BY <1>0, <2>1, <2>2
  <2>4. Changing' => overlap'
    BY <2>2, <2>3 DEF Watching
  <2> USE <1>1, <1>0, <2>1, <2>2, <2>3, <2>4
  <2>5. Typed'
    OBVIOUS
  <2>6. Locked'
    OBVIOUS
  <2>7. Revisions'
    <3>1. mem'.persisted <= mem'.revision /\ mem.revision <= mem'.revision
      BY DEF Revisions
    <3>2. ASSUME NEW t \in Threads, at'[t] \in Records PROVE local'[t].revision <= mem'.revision
      <4>1. at[t] \in Records
        BY <3>2
      <4>2. local[t].revision <= mem.revision
        BY <4>1 DEF Revisions
      <4>3. QED
        BY <4>2
    <3>3. Changing => prior.mem.revision \in Nat /\ prior.mem.revision <= mem.revision
      BY FieldTypes DEF Revisions
    <3>4. QED
      BY <3>1, <3>2, <3>3 DEF Revisions
  <2>8. Underway'
    BY FieldTypes DEF Underway, Revisions
  <2>9. Keeping'
    BY FieldTypes DEF Keeping, Stored
  <2>10. Projecting'
    <3>1. ~Claimed'
      BY DEF Claimed, Revisions
    <3>2. QED
      BY <3>1 DEF Projecting, Claimed
  <2>11. Finishing'
    OBVIOUS
  <2>12. Checking'
    BY FieldTypes
  <2>13. QED
    BY <2>5, <2>6, <2>7, <2>8, <2>9, <2>10, <2>11, <2>12
<1>2. CASE Step("save")
  <2>1. Project("finisher", "none", "save_record", "mark") /\ UNCHANGED books
    BY <1>2 DEF SaveFinish
  <2>2. Projects("finisher", "none", "save_record", "mark")
    BY <2>1, ProjectStep DEF Statuses
  <2>3. Aside'
    BY <1>2, <2>1, <2>2, OthersProject
  <2>4. Changing' => overlap'
    BY <1>2, <2>2 DEF Watching, Projects
  <2> USE <1>2, <1>0, <2>1, <2>2, <2>3, <2>4 DEF Projects
  <2>5. Typed'
    OBVIOUS
  <2>6. Locked'
    OBVIOUS
  <2>7. Finishing'
    OBVIOUS
  <2>8. Checking'
    OBVIOUS
  <2>9. QED
    BY <2>5, <2>6, <2>7, <2>8 DEF Aside
<1>3. CASE Step("save_record")
  <2>1. Record("finisher", "none", "mark", "mark") /\ lock' = "none" /\ UNCHANGED books
    BY <1>3 DEF SaveFinish
  <2>2. Recorded("finisher", "none", "mark", "mark")
    BY <2>1, RecordStep
  <2>3. Aside'
    BY <1>3, <2>1, <2>2, OthersRecord
  <2>4. Changing' => overlap'
    BY <1>3, <2>1, <2>2 DEF Watching, Recorded
  <2>5. local["finisher"].revision <= mem.revision
    BY <1>3 DEF Revisions
  <2>6. mem.persisted <= mem.revision
    BY DEF Revisions
  <2> USE <1>3, <1>0, <2>1, <2>2, <2>3, <2>4, <2>5, <2>6 DEF Recorded, Written
  <2>7. Typed'
    BY NoOperationTypes
  <2>8. Locked'
    OBVIOUS
  <2>9. Finishing'
    OBVIOUS
  <2>10. Checking'
    OBVIOUS
  <2>11. QED
    BY <2>7, <2>8, <2>9, <2>10 DEF Aside
<1>4. CASE Step("mark")
  <2>1. Project("finisher", "completed", "mark_record", "check") /\ UNCHANGED books
    BY <1>4 DEF SaveFinish
  <2>2. Projects("finisher", "completed", "mark_record", "check")
    BY <2>1, ProjectStep DEF Statuses
  <2>3. Aside'
    BY <1>4, <2>1, <2>2, OthersProject
  <2>4. Changing' => overlap'
    BY <1>4, <2>2 DEF Watching, Projects
  <2> USE <1>4, <1>0, <2>1, <2>2, <2>3, <2>4 DEF Projects
  <2>5. Typed'
    OBVIOUS
  <2>6. Locked'
    OBVIOUS
  <2>7. Finishing'
    OBVIOUS
  <2>8. Checking'
    OBVIOUS
  <2>9. QED
    BY <2>5, <2>6, <2>7, <2>8 DEF Aside
<1>5. CASE Step("mark_record")
  <2>1. Record("finisher", "completed", "check", "check") /\ lock' = "none" /\ UNCHANGED books
    BY <1>5 DEF SaveFinish
  <2>2. Recorded("finisher", "completed", "check", "check")
    BY <2>1, RecordStep
  <2>3. Aside'
    BY <1>5, <2>1, <2>2, OthersRecord
  <2>4. Changing' => overlap'
    BY <1>5, <2>1, <2>2 DEF Watching, Recorded
  <2>5. local["finisher"].revision <= mem.revision
    BY <1>5 DEF Revisions
  <2>6. mem.persisted <= mem.revision
    BY DEF Revisions
  <2> USE <1>5, <1>0, <2>1, <2>2, <2>3, <2>4, <2>5, <2>6 DEF Recorded, Written
  <2>7. Typed'
    BY NoOperationTypes
  <2>8. Locked'
    OBVIOUS
  <2>9. Finishing'
    OBVIOUS
  <2>10. Checking'
    OBVIOUS
  <2>11. QED
    BY <2>7, <2>8, <2>9, <2>10 DEF Aside
<1>6. QED
  BY <1>1, <1>2, <1>3, <1>4, <1>5 DEF SaveFinish

\* What finish_scan leaves when it fails.
LEMMA LeaveUnresolvedKeeps == ASSUME Regular, Watching, LeaveUnresolved PROVE (Typed /\ Locked /\ Sane)'
<1> USE DEF Regular, Sane, Typed, Locked, Watched, Finishing, Sealed, Checking, Refuted, Durable, Changing, Alive,
            Threads, Records, books, SameReport, Step, FinisherPoints, LoopPoints
<1>0. mem.revision \in Nat /\ mem.persisted \in Nat /\ \A u \in Threads : local[u].revision \in Nat
  BY FieldTypes DEF Saves
<1>1. CASE Step("leave")
  <2>1. /\ mem'.findings = mem.findings /\ mem'.revision = mem.revision /\ mem'.persisted = mem.persisted
        /\ mem'.status = "running" /\ ~mem'.results /\ mem' \in Fields
    BY <1>1 DEF LeaveUnresolved, Fields, Statuses
  <2>2. /\ at' = [at EXCEPT !["finisher"] = "leave_save"] /\ UNCHANGED <<disk, lock, local, faults>>
        /\ UNCHANGED <<prior, staged, told, answer, crashes>>
    BY <1>1 DEF LeaveUnresolved, Goto
  <2>3. Changing' <=> Changing
    BY <2>2
  <2>4. Changing /\ Changing' /\ ~overlap' => ~overlap /\ mem' = mem
    BY <2>2, <2>3 DEF Watching
  <2> USE <1>1, <1>0, <2>1, <2>2, <2>3, <2>4
  <2>5. Typed'
    OBVIOUS
  <2>6. Locked'
    OBVIOUS
  <2>7. Revisions'
    BY DEF Revisions
  <2>8. Underway'
    BY DEF Underway
  <2>9. Keeping'
    BY DEF Keeping, Stored
  <2>10. Projecting'
    BY DEF Projecting, Claimed
  <2>11. Finishing'
    OBVIOUS
  <2>12. Checking'
    OBVIOUS
  <2>13. QED
    BY <2>5, <2>6, <2>7, <2>8, <2>9, <2>10, <2>11, <2>12
<1>2. CASE Step("leave_save")
  <2>1. Project("finisher", "none", "leave_record", "left") /\ UNCHANGED books
    BY <1>2 DEF LeaveUnresolved
  <2>2. Projects("finisher", "none", "leave_record", "left")
    BY <2>1, ProjectStep DEF Statuses
  <2>3. Aside'
    BY <1>2, <2>1, <2>2, OthersProject
  <2>4. Changing' => overlap'
    BY <1>2, <2>2 DEF Watching, Projects
  <2> USE <1>2, <1>0, <2>1, <2>2, <2>3, <2>4 DEF Projects
  <2>5. Typed'
    OBVIOUS
  <2>6. Locked'
    OBVIOUS
  <2>7. Finishing'
    OBVIOUS
  <2>8. Checking'
    OBVIOUS
  <2>9. QED
    BY <2>5, <2>6, <2>7, <2>8 DEF Aside
<1>3. CASE Step("leave_record")
  <2>1. Record("finisher", "none", "left", "left") /\ lock' = "none" /\ UNCHANGED books
    BY <1>3 DEF LeaveUnresolved
  <2>2. Recorded("finisher", "none", "left", "left")
    BY <2>1, RecordStep
  <2>3. Aside'
    BY <1>3, <2>1, <2>2, OthersRecord
  <2>4. Changing' => overlap'
    BY <1>3, <2>1, <2>2 DEF Watching, Recorded
  <2>5. local["finisher"].revision <= mem.revision
    BY <1>3 DEF Revisions
  <2>6. mem.persisted <= mem.revision
    BY DEF Revisions
  <2> USE <1>3, <1>0, <2>1, <2>2, <2>3, <2>4, <2>5, <2>6 DEF Recorded, Written
  <2>7. Typed'
    BY NoOperationTypes
  <2>8. Locked'
    OBVIOUS
  <2>9. Finishing'
    OBVIOUS
  <2>10. Checking'
    OBVIOUS
  <2>11. QED
    BY <2>7, <2>8, <2>9, <2>10 DEF Aside
<1>4. CASE Step("left")
  <2>1. /\ at' = [at EXCEPT !["finisher"] = "idle"] /\ answer' = "none"
        /\ UNCHANGED <<mem, disk, lock, local, prior, staged, told, faults, crashes>>
    BY <1>4 DEF LeaveUnresolved, Answered, Goto
  <2>2. Changing' <=> Changing
    BY <2>1
  <2>3. Changing /\ Changing' /\ ~overlap' => ~overlap
    BY <2>2 DEF Watching
  <2>4. ~Changing' \/ Changing
    BY <2>2
  <2> USE <1>4, <2>1, <2>2, <2>3, <2>4
  <2>5. Typed' /\ Locked'
    OBVIOUS
  <2>6. Revisions'
    BY DEF Revisions
  <2>7. Underway'
    BY DEF Underway
  <2>8. Keeping'
    BY DEF Keeping, Stored
  <2>9. Projecting'
    BY DEF Projecting, Claimed
  <2>10. Finishing'
    OBVIOUS
  <2>11. Checking'
    OBVIOUS
  <2>12. QED
    BY <2>5, <2>6, <2>7, <2>8, <2>9, <2>10, <2>11
<1>5. QED
  BY <1>1, <1>2, <1>3, <1>4 DEF LeaveUnresolved

\* The save of a stop.
LEMMA StopKeeps == ASSUME Regular, Watching, Stop PROVE (Typed /\ Locked /\ Sane)'
<1> USE DEF Regular, Sane, Typed, Locked, Watched, Finishing, Sealed, Checking, Refuted, Durable, Changing, Alive,
            Threads, Records, books, SameReport, Step, FinisherPoints, LoopPoints
<1>0. mem.revision \in Nat /\ mem.persisted \in Nat /\ \A u \in Threads : local[u].revision \in Nat
  BY FieldTypes DEF Saves
<1>1. CASE at["ui"] = "idle"
  <2>1. Project("ui", "stopped", "stop_record", "idle") /\ UNCHANGED books
    BY <1>1 DEF Stop
  <2>2. Projects("ui", "stopped", "stop_record", "idle")
    BY <2>1, ProjectStep DEF Statuses
  <2>3. Aside'
    BY <1>1, <2>1, <2>2, OthersProject
  <2>4. Changing' => overlap'
    BY <1>1, <2>2 DEF Watching, Projects
  <2> USE <1>1, <1>0, <2>1, <2>2, <2>3, <2>4 DEF Projects
  <2>5. Typed'
    OBVIOUS
  <2>6. Locked'
    OBVIOUS
  <2>7. Finishing'
    OBVIOUS
  <2>8. Checking'
    OBVIOUS
  <2>9. QED
    BY <2>5, <2>6, <2>7, <2>8 DEF Aside
<1>2. CASE at["ui"] = "stop_record"
  <2>1. Record("ui", "stopped", "idle", "idle") /\ lock' = "none" /\ UNCHANGED books
    BY <1>2 DEF Stop
  <2>2. Recorded("ui", "stopped", "idle", "idle")
    BY <2>1, RecordStep
  <2>3. Aside'
    BY <1>2, <2>1, <2>2, OthersRecord
  <2>4. Changing' => overlap'
    BY <1>2, <2>1, <2>2 DEF Watching, Recorded
  <2>5. local["ui"].revision <= mem.revision
    BY <1>2 DEF Revisions
  <2>6. mem.persisted <= mem.revision
    BY DEF Revisions
  <2> USE <1>2, <1>0, <2>1, <2>2, <2>3, <2>4, <2>5, <2>6 DEF Recorded, Written
  <2>7. Typed'
    BY NoOperationTypes
  <2>8. Locked'
    OBVIOUS
  <2>9. Finishing'
    OBVIOUS
  <2>10. Checking'
    OBVIOUS
  <2>11. QED
    BY <2>7, <2>8, <2>9, <2>10 DEF Aside
<1>3. QED
  BY <1>1, <1>2 DEF Stop

\* A save of the loop with no change under way.
LEMMA SaveUsageKeeps == ASSUME Regular, Watching, SaveUsage PROVE (Typed /\ Locked /\ Sane)'
<1> USE DEF Regular, Sane, Typed, Locked, Watched, Finishing, Sealed, Checking, Refuted, Durable, Changing, Alive,
            Threads, Records, books, SameReport, FinisherPoints, LoopPoints
<1>0. mem.revision \in Nat /\ mem.persisted \in Nat /\ \A u \in Threads : local[u].revision \in Nat
  BY FieldTypes DEF Saves
<1>1. CASE at["loop"] \in {"idle", "resumed"}
  <2>1. Project("loop", "none", "usage_record", "idle") /\ UNCHANGED books
    BY <1>1 DEF SaveUsage
  <2>2. Projects("loop", "none", "usage_record", "idle")
    BY <2>1, ProjectStep
  <2>3. Changing' => Changing
    BY <1>1, <2>2 DEF Projects
  <2>4. Changing' /\ ~overlap' => ~overlap
    BY <2>3 DEF Watching
  <2> USE <1>1, <1>0, <2>1, <2>2, <2>3, <2>4 DEF Projects
  <2>5. Typed'
    OBVIOUS
  <2>6. Locked'
    OBVIOUS
  <2>7. Revisions'
    BY DEF Revisions
  <2>8. Underway'
    BY DEF Underway
  <2>9. Keeping'
    BY NearItself DEF Keeping, Stored
  <2>10. Projecting'
    <3>1. \/ Claimed /\ disk'.findings = disk.findings /\ disk'.torn = disk.torn
          \/ disk'.findings = mem.findings /\ ~disk'.torn
          \/ (Claimed' => Claimed) /\ disk'.findings = disk.findings /\ disk'.torn = disk.torn
      BY DEF Claimed
    <3>2. QED
      BY <3>1 DEF Projecting
  <2>11. Finishing'
    OBVIOUS
  <2>12. Checking'
    OBVIOUS
  <2>13. QED
    BY <2>5, <2>6, <2>7, <2>8, <2>9, <2>10, <2>11, <2>12
<1>2. CASE at["loop"] = "usage_record"
  <2>1. Record("loop", "none", "idle", "idle") /\ lock' = "none" /\ UNCHANGED books
    BY <1>2 DEF SaveUsage
  <2>2. Recorded("loop", "none", "idle", "idle")
    BY <2>1, RecordStep
  <2>3. ~Changing' /\ ~Changing
    BY <1>2, <2>2 DEF Recorded
  <2>4. local["loop"].revision <= mem.revision /\ mem.persisted <= mem.revision
    BY <1>2 DEF Revisions
  <2> USE <1>2, <1>0, <2>1, <2>2, <2>3, <2>4 DEF Recorded, Written
  <2>5. Typed'
    BY NoOperationTypes
  <2>6. Locked'
    OBVIOUS
  <2>7. Revisions'
    BY DEF Revisions
  <2>8. Underway'
    BY DEF Underway
  <2>9. Keeping'
    BY NearItself DEF Keeping, Stored
  <2>10. Projecting'
    <3>1. Claimed' => Claimed
      BY DEF Claimed
    <3>2. QED
      BY <3>1 DEF Projecting
  <2>11. Finishing'
    OBVIOUS
  <2>12. Checking'
    OBVIOUS
  <2>13. QED
    BY <2>5, <2>6, <2>7, <2>8, <2>9, <2>10, <2>11, <2>12
<1>3. QED
  BY <1>1, <1>2 DEF SaveUsage

\* A save of the loop for a finding that was filed.
LEMMA SaveFindingKeeps == ASSUME Regular, Watching, SaveFinding PROVE (Typed /\ Locked /\ Sane)'
<1> USE DEF Regular, Sane, Typed, Locked, Watched, Finishing, Sealed, Checking, Refuted, Durable, Changing, Alive,
            Threads, Records, books, SameReport, FinisherPoints, LoopPoints
<1>0. mem.revision \in Nat /\ mem.persisted \in Nat /\ \A u \in Threads : local[u].revision \in Nat
  BY FieldTypes DEF Saves
<1>1. CASE at["loop"] = "filed"
  <2>1. Project("loop", "none", "filed_record", "unfiling") /\ UNCHANGED books
    BY <1>1 DEF SaveFinding
  <2>2. Projects("loop", "none", "filed_record", "unfiling")
    BY <2>1, ProjectStep
  <2>3. Changing' => Changing
    BY <1>1, <2>2 DEF Projects
  <2>4. Changing' /\ ~overlap' => ~overlap
    BY <2>3 DEF Watching
  <2> USE <1>1, <1>0, <2>1, <2>2, <2>3, <2>4 DEF Projects
  <2>5. Typed'
    OBVIOUS
  <2>6. Locked'
    OBVIOUS
  <2>7. Revisions'
    BY DEF Revisions
  <2>8. Underway'
    BY DEF Underway, Projecting, Claimed
  <2>9. Keeping'
    BY DEF Keeping, Stored, Underway
  <2>10. Projecting'
    BY DEF Projecting, Projected, Claimed
  <2>11. Finishing'
    OBVIOUS
  <2>12. Checking'
    OBVIOUS
  <2>13. QED
    BY <2>5, <2>6, <2>7, <2>8, <2>9, <2>10, <2>11, <2>12
<1>2. CASE at["loop"] = "filed_record"
  <2>1. /\ Record("loop", "none", "idle", "unfiling") /\ lock' = "none"
        /\ IF at'["loop"] = "idle" THEN Report ELSE UNCHANGED <<told, prior>>
        /\ UNCHANGED <<staged, answer, crashes>>
    BY <1>2 DEF SaveFinding
  <2>2. Recorded("loop", "none", "idle", "unfiling") \/ Recorded("loop", "none", "unfiling", "unfiling")
    BY <2>1, RecordStep
  <2>3. /\ mem'.findings = mem.findings /\ mem'.revision = mem.revision /\ mem'.status = mem.status
        /\ mem'.results = mem.results /\ mem' \in Fields /\ disk' \in Files /\ faults' \in Nat
        /\ disk'.findings = disk.findings /\ disk'.torn = disk.torn
        /\ mem'.persisted \in {mem.persisted, local["loop"].revision}
        /\ local' = [local EXCEPT !["loop"] = NoSave]
    BY <2>2 DEF Recorded
  <2>4. /\ at' = [at EXCEPT !["loop"] = "idle"] \/ at' = [at EXCEPT !["loop"] = "unfiling"]
        /\ (~mem'.receipt /\ disk' = disk) \/ Written("loop") 
        /\ at'["loop"] = "idle" => Written("loop")
    BY <2>2 DEF Recorded
  <2>5. local["loop"].revision <= mem.revision /\ mem.persisted <= mem.revision /\ mem'.persisted <= mem.revision
    BY <1>2, <2>3 DEF Revisions
  <2>6. IF at'["loop"] = "idle" THEN told' = prior.told /\ prior' = NoOperation /\ lock' = "none"
        ELSE UNCHANGED <<told, prior>> /\ lock' = "none"
    BY <1>2, <2>1, <2>4 DEF Report
  <2>7. /\ prior.mem.findings \in Found /\ Changed(prior.mem.findings, mem.findings, told, prior.told)
        /\ prior.mem.revision < mem.revision /\ prior.mem.revision \in Nat /\ disk.findings = mem.findings
    BY <1>2, FieldTypes DEF Underway
  <2>8. (\A f \in Findings : told[f] <= prior.mem.findings[f].version)
          => \A f \in Findings : prior.told[f] <= mem.findings[f].version
    BY <2>7, ChangedNear
  <2>9. \A f \in Findings : told[f] <= prior.mem.findings[f].version
    BY <1>2 DEF Keeping, Stored
  <2>10. staged.on => staged.revision < mem.revision
    BY <1>2, <2>7, FieldTypes DEF Keeping
  <2>11. Changing' => at' = [at EXCEPT !["loop"] = "unfiling"] /\ UNCHANGED <<told, prior>>
    BY <2>4, <2>6
  <2>12. Changing' /\ ~overlap' => ~overlap
    BY <1>2 DEF Watching
  <2>13. UNCHANGED <<staged, answer, crashes>>
    BY <2>1
  <2> USE <1>2, <1>0, <2>3, <2>4, <2>5, <2>6, <2>7, <2>10, <2>11, <2>12, <2>13
  <2>14. Typed'
    BY NoOperationTypes
  <2>15. Locked'
    OBVIOUS
  <2>16. Revisions'
    BY DEF NoSave, Revisions
  <2>17. Underway'
    BY DEF Underway
  <2>18. Keeping'
    <3>1. CASE at'["loop"] = "idle"
      BY <3>1, <2>8, <2>9, NearItself DEF Keeping, Stored
    <3>2. CASE at'["loop"] # "idle"
      BY <3>2 DEF Keeping, Stored
    <3>3. QED
      BY <3>1, <3>2
  <2>19. Projecting'
    BY DEF Projecting, Projected, Claimed
  <2>20. Finishing'
    BY DEF Written
  <2>21. Checking'
    BY DEF Written
  <2>22. QED
    BY <2>14, <2>15, <2>16, <2>17, <2>18, <2>19, <2>20, <2>21
<1>3. QED
  BY <1>1, <1>2 DEF SaveFinding

\* The record of a revision.
LEMMA SaveRevisionKeeps == ASSUME Regular, Watching, SaveRevision PROVE (Typed /\ Locked /\ Sane)'
<1> USE DEF Regular, Sane, Typed, Locked, Watched, Finishing, Sealed, Checking, Refuted, Durable, Changing, Alive,
            Threads, Records, books, SameReport, FinisherPoints, LoopPoints
<1>0. mem.revision \in Nat /\ mem.persisted \in Nat /\ \A u \in Threads : local[u].revision \in Nat
  BY FieldTypes DEF Saves
<1>1. CASE at["loop"] = "revised"
  <2>1. Project("loop", "none", "revised_record", "unrevising") /\ UNCHANGED books
    BY <1>1 DEF SaveRevision
  <2>2. Projects("loop", "none", "revised_record", "unrevising")
    BY <2>1, ProjectStep
  <2>3. Changing' => Changing
    BY <1>1, <2>2 DEF Projects
  <2>4. Changing' /\ ~overlap' => ~overlap
    BY <2>3 DEF Watching
  <2> USE <1>1, <1>0, <2>1, <2>2, <2>3, <2>4 DEF Projects
  <2>5. Typed'
    OBVIOUS
  <2>6. Locked'
    OBVIOUS
  <2>7. Revisions'
    BY DEF Revisions
  <2>8. Underway'
    BY DEF Underway, Projecting, Claimed
  <2>9. Keeping'
    BY DEF Keeping, Stored, Underway
  <2>10. Projecting'
    BY DEF Projecting, Projected, Claimed
  <2>11. Finishing'
    OBVIOUS
  <2>12. Checking'
    OBVIOUS
  <2>13. QED
    BY <2>5, <2>6, <2>7, <2>8, <2>9, <2>10, <2>11, <2>12
<1>2. CASE at["loop"] = "revised_record"
  <2>1. /\ Record("loop", "none", "idle", "unrevising") \/ Record("loop", "none", "unrevising", "unrevising")
        /\ IF at'["loop"] = "idle" THEN Report /\ lock' = "none" ELSE UNCHANGED <<told, prior, lock>>
        /\ UNCHANGED <<staged, answer, crashes>>
    BY <1>2 DEF SaveRevision
  <2>2. Recorded("loop", "none", "idle", "unrevising") \/ Recorded("loop", "none", "unrevising", "unrevising")
    BY <2>1, RecordStep
  <2>3. /\ mem'.findings = mem.findings /\ mem'.revision = mem.revision /\ mem'.status = mem.status
        /\ mem'.results = mem.results /\ mem' \in Fields /\ disk' \in Files /\ faults' \in Nat
        /\ disk'.findings = disk.findings /\ disk'.torn = disk.torn
        /\ mem'.persisted \in {mem.persisted, local["loop"].revision}
        /\ local' = [local EXCEPT !["loop"] = NoSave]
    BY <2>2 DEF Recorded
  <2>4. /\ at' = [at EXCEPT !["loop"] = "idle"] \/ at' = [at EXCEPT !["loop"] = "unrevising"]
        /\ (~mem'.receipt /\ disk' = disk) \/ Written("loop") 
        /\ at'["loop"] = "idle" => Written("loop")
    BY <2>2 DEF Recorded
  <2>5. local["loop"].revision <= mem.revision /\ mem.persisted <= mem.revision /\ mem'.persisted <= mem.revision
    BY <1>2, <2>3 DEF Revisions
  <2>6. IF at'["loop"] = "idle" THEN told' = prior.told /\ prior' = NoOperation /\ lock' = "none"
        ELSE UNCHANGED <<told, prior>> /\ lock' = lock
    BY <1>2, <2>1, <2>4 DEF Report
  <2>7. /\ prior.mem.findings \in Found /\ Changed(prior.mem.findings, mem.findings, told, prior.told)
        /\ prior.mem.revision < mem.revision /\ prior.mem.revision \in Nat /\ disk.findings = mem.findings
    BY <1>2, FieldTypes DEF Underway
  <2>8. (\A f \in Findings : told[f] <= prior.mem.findings[f].version)
          => \A f \in Findings : prior.told[f] <= mem.findings[f].version
    BY <2>7, ChangedNear
  <2>9. \A f \in Findings : told[f] <= prior.mem.findings[f].version
    BY <1>2 DEF Keeping, Stored
  <2>10. staged.on => staged.revision < mem.revision
    BY <1>2, <2>7, FieldTypes DEF Keeping
  <2>11. Changing' => at' = [at EXCEPT !["loop"] = "unrevising"] /\ UNCHANGED <<told, prior>>
    BY <2>4, <2>6
  <2>12. Changing' /\ ~overlap' => ~overlap
    BY <1>2 DEF Watching
  <2>13. UNCHANGED <<staged, answer, crashes>>
    BY <2>1
  <2> USE <1>2, <1>0, <2>3, <2>4, <2>5, <2>6, <2>7, <2>10, <2>11, <2>12, <2>13
  <2>14. Typed'
    BY NoOperationTypes
  <2>15. Locked'
    OBVIOUS
  <2>16. Revisions'
    BY DEF NoSave, Revisions
  <2>17. Underway'
    BY DEF Underway
  <2>18. Keeping'
    <3>1. CASE at'["loop"] = "idle"
      BY <3>1, <2>8, <2>9, NearItself DEF Keeping, Stored
    <3>2. CASE at'["loop"] # "idle"
      BY <3>2 DEF Keeping, Stored
    <3>3. QED
      BY <3>1, <3>2
  <2>19. Projecting'
    BY DEF Projecting, Projected, Claimed
  <2>20. Finishing'
    BY DEF Written
  <2>21. Checking'
    BY DEF Written
  <2>22. QED
    BY <2>14, <2>15, <2>16, <2>17, <2>18, <2>19, <2>20, <2>21
<1>3. QED
  BY <1>1, <1>2 DEF SaveRevision

\* What a finding is filed with is what it is reported with.
LEMMA StartFilingKeeps ==
  ASSUME Regular, Watching, NEW f \in Findings, StartFiling(f)
  PROVE  (Typed /\ Locked /\ Sane)'
<1> USE DEF Regular, Sane, Typed, Locked, Changing, Alive, Threads, LoopPoints, FinisherPoints
<1>1. /\ at["loop"] = "idle" /\ mem.findings[f].version = 0 /\ at' = [at EXCEPT !["loop"] = "filing"]
      /\ prior' = [mem |-> mem, disk |-> disk, told |-> [told EXCEPT ![f] = 1]]
      /\ UNCHANGED <<mem, disk, lock, local, staged, told, answer, faults, crashes>>
  BY DEF StartFiling, Goto, Free
<1>2. prior'.mem = mem /\ prior'.disk = disk /\ prior'.told = [told EXCEPT ![f] = 1]
  BY <1>1
<1>3. ~Changing /\ Changing' /\ mem.revision \in Nat
  BY <1>1, FieldTypes
<1>4. ~overlap' => lock = "none"
  BY <1>1, <1>3 DEF Watching
<1>5. Typed' /\ Locked'
  BY <1>1, <1>2
<1>6. Revisions'
  BY <1>1, <1>2, <1>3 DEF Revisions, Records
<1>7. Underway'
  <2>1. Near(mem.findings, disk.findings)
    BY <1>1 DEF Keeping, Stored
  <2>2. QED
    BY <1>1, <1>2, <2>1, NearItself DEF Underway
<1>8. Keeping'
  BY <1>1, <1>2 DEF Keeping, Stored
<1>9. Projecting'
  <2>1. Claimed' <=> Claimed
    BY <1>1 DEF Claimed, Records
  <2>2. Projected(mem, disk)
    BY <1>1 DEF Projecting, Projected, Claimed
  <2>3. QED
    BY <1>1, <1>2, <2>1, <2>2 DEF Projecting, Projected
<1>10. Finishing'
  BY <1>1, <1>2, <1>4 DEF Finishing, Sealed
<1>11. Checking'
  BY <1>1, <1>2, <1>3 DEF Checking, Refuted, Durable
<1>12. QED
  BY <1>5, <1>6, <1>7, <1>8, <1>9, <1>10, <1>11

LEMMA FileKeeps ==
  ASSUME Regular, Watching, NEW f \in Findings, File(f)
  PROVE  (Typed /\ Locked /\ Sane)'
<1> USE DEF Regular, Sane, Typed, Locked, Changing, Alive, Threads, LoopPoints, FinisherPoints
<1>0. mem.findings \in Found /\ mem.revision \in Nat /\ mem.persisted \in Nat
  BY FieldTypes
<1>1. CASE at["loop"] = "filing"
  <2>1. /\ prior.told[f] > mem.findings[f].version /\ mem' = [mem EXCEPT !.findings[f].version = 1]
        /\ at' = [at EXCEPT !["loop"] = "listed"]
        /\ UNCHANGED <<disk, lock, local, faults, prior, staged, told, answer, crashes>>
    BY <1>1 DEF File, Goto, books
  <2>2. PICK g \in Findings : mem.findings[g].version = 0 /\ prior.told = [told EXCEPT ![g] = 1]
    BY <1>1 DEF Underway
  <2>3. f = g
    <3>1. SUFFICES ASSUME f # g PROVE FALSE
      OBVIOUS
    <3>2. prior.told[f] = told[f]
      BY <2>2, <3>1
    <3>3. told[f] <= mem.findings[f].version
      BY <1>1 DEF Keeping, Stored, Underway
    <3>4. PICK p \in Nat : p = told[f]
      OBVIOUS
    <3>5. PICK q \in 0..MaxVersion : q = mem.findings[f].version
      BY <1>0 DEF Found
    <3>6. QED
      BY <2>1, <3>2, <3>3, <3>4, <3>5, RevisionsAssumption
  <2>4. /\ mem'.findings = [mem.findings EXCEPT ![f].version = 1] /\ mem'.revision = mem.revision
        /\ mem'.persisted = mem.persisted /\ mem'.status = mem.status /\ mem'.results = mem.results
        /\ mem'.receipt = mem.receipt
    BY <2>1 DEF Fields
  <2>5. mem'.findings = Bumped(mem.findings, f)
    BY <1>0, <2>2, <2>3, <2>4, FiledIsBumped
  <2>6. mem.findings[f].version < MaxVersion /\ mem.findings[f].version + 1 = 1
    BY <2>2, <2>3, RevisionsAssumption
  <2>7. Changed(mem.findings, mem'.findings, told, prior.told)
    BY <2>2, <2>3, <2>5, <2>6 DEF Changed
  <2>8. Near(mem.findings, mem'.findings) /\ mem'.findings \in Found /\ mem.findings = prior.mem.findings
    BY <1>0, <1>1, <2>7, ChangedNear DEF Underway
  <2>9. mem' \in Fields
    <3> DEFINE x == [mem.findings EXCEPT ![f].version = 1]
    <3>1. mem' = [mem EXCEPT !.findings = x]
      BY <2>1 DEF Fields
    <3>2. x \in Found
      BY <2>4, <2>8
    <3> HIDE DEF x
    <3>3. QED
      BY <3>1, <3>2 DEF Fields
  <2>10. Changing /\ Changing' /\ (~overlap' => ~overlap)
    BY <1>1, <2>1 DEF Watching
  <2> HIDE DEF Changing
  <2>11. Typed' /\ Locked'
    BY <1>1, <2>1, <2>9
  <2>12. Revisions'
    BY <1>1, <2>1, <2>4, <2>10 DEF Revisions, Records
  <2>13. Underway'
    BY <1>1, <2>1, <2>4, <2>7, <2>8, <2>10 DEF Underway
  <2>14. Keeping'
    BY <1>1, <2>1, <2>4, <2>10 DEF Keeping, Stored
  <2>15. Projecting'
    BY <1>1, <2>1, <2>4, <2>10 DEF Projecting, Projected
  <2>16. Finishing'
    BY <1>1, <2>1, <2>4, <2>10 DEF Finishing, Sealed
  <2>17. Checking'
    BY <1>1, <2>1, <2>4, <2>10 DEF Checking, Refuted, Durable
  <2>18. QED
    BY <2>11, <2>12, <2>13, <2>14, <2>15, <2>16, <2>17
<1>2. CASE at["loop"] = "listed"
  <2>1. /\ mem' = [mem EXCEPT !.revision = @ + 1] /\ at' = [at EXCEPT !["loop"] = "filed"]
        /\ UNCHANGED <<disk, lock, local, faults, prior, staged, told, answer, crashes>>
    BY <1>2 DEF File, Goto, books
  <2>2. /\ mem'.findings = mem.findings /\ mem'.revision = mem.revision + 1
        /\ mem'.persisted = mem.persisted /\ mem'.status = mem.status /\ mem'.results = mem.results
        /\ mem'.receipt = mem.receipt /\ mem' \in Fields
    BY <2>1 DEF Fields
  <2>3. Changing /\ Changing' /\ (~overlap' => ~overlap)
    BY <1>2, <2>1 DEF Watching
  <2>4. prior.mem.revision \in Nat /\ prior.mem.persisted \in Nat /\ prior.mem.revision <= mem.revision
    BY <2>3, FieldTypes DEF Revisions
  <2>5. \A t \in Threads : local[t].revision \in Nat
    BY DEF Saves
  <2>6. \A t \in Threads : at'[t] \in Records => at[t] \in Records
    BY <1>2, <2>1 DEF Records
  <2>7. \A t \in Threads : at'[t] \in Records => local[t].revision <= mem.revision
    BY <2>6 DEF Revisions
  <2> HIDE DEF Changing
  <2>8. Typed' /\ Locked'
    BY <1>2, <2>1, <2>2
  <2>9. Revisions'
    BY <1>0, <2>1, <2>2, <2>3, <2>4, <2>5, <2>7 DEF Revisions
  <2>10. Underway'
    BY <1>0, <1>2, <2>1, <2>2, <2>3, <2>4 DEF Underway
  <2>11. Keeping'
    BY <1>2, <2>1, <2>2, <2>3 DEF Keeping, Stored
  <2>12. Projecting'
    <3>1. ~Claimed'
      BY <1>0, <2>1, <2>2, <2>5, <2>7 DEF Claimed, Revisions
    <3>2. QED
      BY <1>2, <2>1, <2>2, <2>3, <3>1 DEF Projecting, Projected
  <2>13. Finishing'
    BY <1>2, <2>1, <2>2, <2>3 DEF Finishing, Sealed
  <2>14. Checking'
    BY <1>0, <1>2, <2>1, <2>2, <2>3, <2>4 DEF Checking, Refuted, Durable
  <2>15. QED
    BY <2>8, <2>9, <2>10, <2>11, <2>12, <2>13, <2>14
<1>3. QED
  BY <1>1, <1>2 DEF File

\* What RestoreFiles leaves.
Restores ==
  /\ prior' = NoOperation /\ disk' \in Files /\ faults' \in Nat
  /\ mem'.findings = mem.findings /\ mem'.revision = mem.revision /\ mem'.persisted = mem.persisted
  /\ mem'.status = mem.status /\ mem'.results = mem.results /\ mem' \in Fields
  /\ \/ disk' = prior.disk /\ mem' = mem
     \/ /\ disk'.torn /\ ~disk'.sound /\ disk'.findings = disk.findings /\ ~mem'.receipt
        /\ \/ disk'.status = disk.status /\ disk'.results = disk.results
           \/ disk'.status = prior.disk.status /\ disk'.results = prior.disk.results

LEMMA RestoreStep ==
  ASSUME mem \in Fields, disk \in Files, prior.disk \in Files, faults \in Nat, RestoreFiles
  PROVE  Restores
<1>1. prior' = NoOperation
  BY DEF RestoreFiles
<1>2. CASE disk' = prior.disk /\ UNCHANGED <<mem, faults>>
  BY <1>1, <1>2 DEF Restores
<1>3. CASE /\ Fault /\ mem' = [mem EXCEPT !.receipt = FALSE]
           /\ \E d \in {disk, prior.disk} :
                disk' = [d EXCEPT !.findings = disk.findings, !.sound = FALSE, !.torn = TRUE]
  <2>1. PICK d \in {disk, prior.disk} :
          disk' = [d EXCEPT !.findings = disk.findings, !.sound = FALSE, !.torn = TRUE]
    BY <1>3
  <2>2. d \in Files /\ disk.findings \in Found
    BY DEF Files
  <2>3. /\ disk' \in Files /\ disk'.torn /\ ~disk'.sound /\ disk'.findings = disk.findings
        /\ disk'.status = d.status /\ disk'.results = d.results
    BY <2>1, <2>2 DEF Files
  <2>4. /\ mem'.findings = mem.findings /\ mem'.revision = mem.revision /\ mem'.persisted = mem.persisted
        /\ mem'.status = mem.status /\ mem'.results = mem.results /\ mem' \in Fields /\ ~mem'.receipt
    BY <1>3 DEF Fields
  <2>5. faults' \in Nat
    BY <1>3 DEF Fault
  <2>6. QED
    BY <1>1, <2>3, <2>4, <2>5 DEF Restores
<1>4. QED
  BY <1>2, <1>3 DEF RestoreFiles, Restored

\* A rollback, with and without the lock: nobody else has touched the report.
LEMMA RollbackKeeps ==
  ASSUME Regular, Watching, at["loop"] \in {"unfiled", "unrevised"}, Restores,
         at' = [at EXCEPT !["loop"] = "idle"],
         lock' = IF at["loop"] = "unfiled" THEN lock ELSE "none",
         UNCHANGED <<local, staged, told, answer, crashes>>
  PROVE  (Typed /\ Locked /\ Sane)'
<1> USE DEF Regular, Sane, Typed, Locked, Changing, Alive, Threads, LoopPoints, FinisherPoints
<1>1. ~overlap
  BY DEF Watching, RollsBack
<1>2. Changing /\ ~Changing' /\ Alive
  OBVIOUS
<1>3. /\ mem = prior.mem /\ lock' = "none" /\ at["finisher"] \notin Records /\ at["ui"] \notin Records
      /\ at'["loop"] = "idle" /\ at'["finisher"] = at["finisher"] /\ at'["ui"] = at["ui"]
  BY <1>1, <1>2 DEF Watched, Underway, Records
<1>4. /\ prior.disk.sound => prior.disk.revision <= mem.revision
      /\ at["finisher"] = "check" => Refuted(mem, prior.disk)
      /\ at["finisher"] = "verify" /\ Durable(prior.disk, local["finisher"].revision) => mem.status = "completed"
      /\ Projected(mem, prior.disk) /\ Sealed(mem, prior.disk) /\ Near(mem.findings, prior.disk.findings)
  BY <1>1, <1>2, <1>3 DEF Checking, Projecting, Finishing, Underway
<1>5. \A t \in Threads : at'[t] \notin Records
  BY <1>3 DEF Records
<1>6. Typed' /\ Locked'
  BY <1>3, NoOperationTypes DEF Restores, Records
<1>7. Revisions' /\ Underway'
  BY <1>2, <1>3, <1>5 DEF Restores, Revisions, Underway
<1>8. Keeping'
  <2>1. Near(mem.findings, disk'.findings)
    BY <1>2, <1>3, <1>4 DEF Restores, Keeping, Stored
  <2>2. QED
    BY <1>2, <1>3, <2>1 DEF Restores, Keeping, Stored
<1>9. Projecting'
  BY <1>2, <1>3, <1>4, <1>5 DEF Restores, Projecting, Projected, Claimed
<1>10. Finishing'
  <2>1. Sealed(mem, disk)
    BY <1>2, <1>3 DEF Finishing, Records
  <2>2. Sealed(mem', disk')
    BY <1>4, <2>1 DEF Restores, Sealed
  <2>3. QED
    BY <1>2, <1>3, <2>2 DEF Restores, Finishing, Sealed
<1>11. Checking'
  BY <1>2, <1>3, <1>4 DEF Restores, Checking, Refuted, Durable
<1>12. QED
  BY <1>6, <1>7, <1>8, <1>9, <1>10, <1>11

\* Going back to the memory of the start of the operation.
LEMMA ForgetKeeps ==
  ASSUME Regular, Watching, at["loop"] \in {"unfiling", "unrevising"}, mem' = prior.mem,
         at' = [at EXCEPT !["loop"] = IF at["loop"] = "unfiling" THEN "unfiled" ELSE "unrevised"],
         UNCHANGED <<disk, lock, local, faults, prior, staged, told, answer, crashes>>
  PROVE  (Typed /\ Locked /\ Sane)'
<1> USE DEF Regular, Sane, Typed, Locked, Changing, Alive, Threads, LoopPoints, FinisherPoints
<1>1. ~overlap
  BY DEF Watching, RollsBack
<1>2. Changing /\ Changing' /\ Alive
  OBVIOUS
<1>3. /\ at["finisher"] \notin Records /\ at["ui"] \notin Records /\ at'["loop"] \in {"unfiled", "unrevised"}
      /\ at'["finisher"] = at["finisher"] /\ at'["ui"] = at["ui"] /\ mem'.findings = prior.mem.findings
  BY <1>1, <1>2 DEF Watched, Records
<1>4. prior.mem.status = mem.status /\ prior.mem.results = mem.results
  BY <1>1, <1>2 DEF Finishing
<1>5. \A t \in Threads : at'[t] \notin Records
  BY <1>3 DEF Records
<1>6. Typed' /\ Locked'
  OBVIOUS
<1>7. Revisions'
  BY <1>2, <1>5, FieldTypes DEF Revisions
<1>8. Underway'
  BY <1>2, <1>3, NearItself DEF Underway
<1>9. Keeping'
  BY <1>2, <1>3 DEF Keeping, Stored
<1>10. Projecting'
  BY <1>1, <1>2, <1>3 DEF Projecting, Projected
<1>11. Finishing'
  BY <1>1, <1>2, <1>3, <1>4 DEF Finishing, Sealed, Records
<1>12. Checking'
  <2>1. at'["finisher"] = "check" => Refuted(mem', disk')
    BY <1>1, <1>2, <1>3, <1>4 DEF Checking, Refuted
  <2>2. QED
    BY <1>1, <1>2, <1>3, <1>4, <2>1 DEF Checking, Refuted, Durable
<1>13. QED
  BY <1>6, <1>7, <1>8, <1>9, <1>10, <1>11, <1>12

LEMMA UnfileKeeps == ASSUME Regular, Watching, Unfile PROVE (Typed /\ Locked /\ Sane)'
<1>1. CASE at["loop"] = "unfiling"
  <2>1. at' = [at EXCEPT !["loop"] = IF at["loop"] = "unfiling" THEN "unfiled" ELSE "unrevised"]
    BY <1>1 DEF Unfile, Goto
  <2>2. QED
    BY <1>1, <2>1, ForgetKeeps DEF Unfile, books
<1>2. CASE at["loop"] = "unfiled"
  <2>1. Restores
    BY <1>2, RestoreStep DEF Unfile, Regular, Typed
  <2>2. QED
    BY <1>2, <2>1, RollbackKeeps DEF Unfile, Goto
<1>3. QED
  BY <1>1, <1>2 DEF Unfile

LEMMA UnreviseKeeps == ASSUME Regular, Watching, Unrevise PROVE (Typed /\ Locked /\ Sane)'
<1>1. CASE at["loop"] = "unrevising"
  <2>1. at' = [at EXCEPT !["loop"] = IF at["loop"] = "unfiling" THEN "unfiled" ELSE "unrevised"]
    BY <1>1 DEF Unrevise, Goto
  <2>2. QED
    BY <1>1, <2>1, ForgetKeeps DEF Unrevise, books
<1>2. CASE at["loop"] = "unrevised"
  <2>1. Restores
    BY <1>2, RestoreStep DEF Unrevise, Regular, Typed
  <2>2. QED
    BY <1>2, <2>1, RollbackKeeps DEF Unrevise, Goto
<1>3. QED
  BY <1>1, <1>2 DEF Unrevise

\* The export begins with what the memory holds.
LEMMA StageKeeps == ASSUME Regular, Watching, Stage PROVE (Typed /\ Locked /\ Sane)'
<1> USE DEF Regular, Sane, Typed, Locked, Changing, Alive, Threads, LoopPoints, FinisherPoints
<1>1. /\ at["loop"] = "idle" /\ staged' = [on |-> TRUE, revision |-> mem.revision, findings |-> mem.findings]
      /\ UNCHANGED <<mem, disk, lock, at, local, prior, told, answer, faults, crashes>>
  BY DEF Stage
<1>2. staged'.revision = mem.revision /\ staged'.findings = mem.findings
  BY <1>1
<1>3. mem.revision \in Nat /\ mem.findings \in Found /\ mem.revision <= mem.revision /\ ~Changing /\ ~Changing'
  BY <1>1, FieldTypes
<1>4. Typed' /\ Locked'
  BY <1>1, <1>2, <1>3
<1>5. Revisions' /\ Underway'
  BY <1>1, <1>3 DEF Revisions, Underway
<1>6. Keeping' /\ Projecting'
  BY <1>1, <1>2, <1>3 DEF Keeping, Stored, Projecting, Claimed
<1>7. Finishing' /\ Checking'
  BY <1>1, <1>3 DEF Finishing, Sealed, Checking, Refuted, Durable
<1>8. QED
  BY <1>4, <1>5, <1>6, <1>7

\* A revision begins: nothing but the projections may already be changed.
LEMMA ReplaceKeeps ==
  ASSUME Regular, Watching, Free, lock = "none", NEW y, NEW promise,
         Changed(mem.findings, y, told, promise), Replace(y, promise), staged' \in {staged, NotStaged}
  PROVE  (Typed /\ Locked /\ Sane)'
<1> USE DEF Regular, Sane, Typed, Locked, Changing, Alive, Threads, LoopPoints, FinisherPoints
<1>1. /\ at["loop"] = "idle" /\ at["finisher"] \notin Records /\ at["ui"] \notin Records
      /\ mem.findings \in Found /\ mem.revision \in Nat /\ mem.persisted \in Nat /\ disk.findings \in Found
  BY FieldTypes DEF Free, Records
<1>2. Near(mem.findings, y) /\ y \in Found /\ promise \in [Findings -> Nat]
  BY <1>1, ChangedNear
<1>3. /\ prior'.mem = mem /\ prior'.disk = disk /\ prior'.told = promise
      /\ lock' = "loop" /\ UNCHANGED <<mem, local, told, answer, crashes>>
  BY DEF Replace
<1>4. staged'.revision \in Nat /\ staged'.findings \in Found /\ (staged'.on => staged' = staged)
  BY NoOperationTypes DEF NotStaged
<1>5. /\ disk'.status = disk.status /\ disk'.results = disk.results /\ disk'.revision = disk.revision
      /\ disk' \in Files /\ faults' \in Nat /\ disk'.findings \in {disk.findings, y}
      /\ \/ at' = [at EXCEPT !["loop"] = "revising"] /\ disk'.findings = y /\ ~disk'.sound
         \/ at' = [at EXCEPT !["loop"] = "unrevising"] /\ (disk'.sound => disk' = disk)
  <2>1. CASE /\ disk' = [disk EXCEPT !.findings = y, !.sound = FALSE, !.torn = FALSE]
             /\ at' = [at EXCEPT !["loop"] = "revising"] /\ UNCHANGED faults
    BY <1>2, <2>1 DEF Files
  <2>2. CASE /\ at' = [at EXCEPT !["loop"] = "unrevising"] /\ Fault
             /\ disk' \in {disk, [disk EXCEPT !.findings = y, !.sound = FALSE]}
    <3>1. faults' \in Nat
      BY <2>2 DEF Fault
    <3>2. QED
      BY <1>2, <2>2, <3>1 DEF Files
  <2>3. QED
    BY <2>1, <2>2 DEF Replace, Goto
<1>6. ~Changing /\ Changing' /\ Alive /\ at'["loop"] \in {"revising", "unrevising"}
      /\ at'["finisher"] = at["finisher"] /\ at'["ui"] = at["ui"]
  BY <1>1, <1>5
<1>7. \A t \in Threads : at'[t] \notin Records
  BY <1>1, <1>6 DEF Records
<1>8. Typed'
  BY <1>1, <1>2, <1>3, <1>4, <1>5
<1>9. Locked'
  BY <1>1, <1>3, <1>5
<1>10. Revisions'
  BY <1>1, <1>3, <1>7 DEF Revisions
<1>11. Underway'
  <2>1. Near(mem.findings, disk.findings)
    BY <1>1 DEF Keeping, Stored
  <2>2. QED
    BY <1>3, <1>5, <1>6, <2>1, NearItself DEF Underway
<1>12. Keeping'
  <2>1. Near(mem.findings, disk'.findings)
    BY <1>1, <1>2, <1>5 DEF Keeping, Stored
  <2>2. QED
    BY <1>1, <1>3, <1>4, <1>6, <2>1 DEF Keeping, Stored
<1>13. Projecting'
  <2>1. Projected(mem, disk)
    BY <1>1 DEF Projecting, Projected, Claimed
  <2>2. QED
    BY <1>3, <1>6, <2>1 DEF Projecting, Projected
<1>14. Sealed(mem, disk)
  BY <1>1 DEF Finishing, Records
<1>15. Finishing'
  BY <1>3, <1>5, <1>6, <1>14 DEF Finishing, Sealed
<1>16. Checking'
  <2>1. at'["finisher"] = "verify" /\ Durable(disk', local'["finisher"].revision) => mem'.status = "completed"
    BY <1>3, <1>5, <1>6 DEF Checking, Durable
  <2>2. QED
    BY <1>1, <1>3, <1>5, <1>6, <2>1 DEF Checking, Refuted
<1>17. QED
  BY <1>8, <1>9, <1>10, <1>11, <1>12, <1>13, <1>15, <1>16

\* The memory takes over a revision.
LEMMA TakeOverKeeps == ASSUME Regular, Watching, TakeOver PROVE (Typed /\ Locked /\ Sane)'
<1> USE DEF Regular, Sane, Typed, Locked, Changing, Alive, Threads, LoopPoints, FinisherPoints
<1> DEFINE n == (IF Committing THEN prior.mem.revision ELSE mem.revision) + 1
<1>1. /\ at["loop"] = "revising" /\ at' = [at EXCEPT !["loop"] = "revised"]
      /\ mem' = [mem EXCEPT !.findings = disk.findings, !.revision = n, !.persisted = n]
      /\ UNCHANGED <<disk, lock, local, faults, prior, staged, told, answer, crashes>>
  BY DEF TakeOver, Goto, books
<1>2. mem.revision \in Nat /\ prior.mem.revision \in Nat /\ disk.findings \in Found
  BY FieldTypes
<1>3. n \in Nat /\ prior.mem.revision < n /\ prior.mem.persisted <= prior.mem.revision
  BY <1>1, <1>2 DEF Revisions
<1> HIDE DEF n
<1>4. /\ mem'.findings = disk.findings /\ mem'.revision = n /\ mem'.persisted = n /\ mem'.status = mem.status
      /\ mem'.results = mem.results /\ mem'.receipt = mem.receipt /\ mem' \in Fields
  BY <1>1, <1>2, <1>3 DEF Fields
<1>5. Changing /\ Changing' /\ (~overlap' => ~overlap)
  BY <1>1 DEF Watching
<1>6. at["finisher"] \notin Records /\ at["ui"] \notin Records
  BY <1>1 DEF Records
<1>7. \A t \in Threads : at'[t] \notin Records
  BY <1>1, <1>6 DEF Records
<1>8. Changed(prior.mem.findings, disk.findings, told, prior.told)
  BY <1>1 DEF Underway
<1>9. Near(prior.mem.findings, disk.findings)
  BY <1>8, ChangedNear, FieldTypes
<1>10. Typed' /\ Locked'
  BY <1>1, <1>4
<1>11. Revisions'
  BY <1>1, <1>2, <1>3, <1>4, <1>5, <1>7 DEF Revisions
<1>12. Underway'
  BY <1>1, <1>3, <1>4, <1>5, <1>8, <1>9 DEF Underway
<1>13. Keeping'
  BY <1>1, <1>5, <1>9 DEF Keeping, Stored
<1>14. Projecting'
  BY <1>1, <1>4, <1>5 DEF Projecting, Projected
<1>15. Finishing'
  BY <1>1, <1>4, <1>5, <1>6 DEF Finishing, Sealed, Records
<1>16. Checking'
  BY <1>1, <1>2, <1>3, <1>4, <1>5 DEF Checking, Refuted, Durable
<1>17. QED
  BY <1>10, <1>11, <1>12, <1>13, <1>14, <1>15, <1>16

LEMMA ReviseKeeps ==
  ASSUME Regular, Watching, NEW f \in Findings, Revise(f)
  PROVE  (Typed /\ Locked /\ Sane)'
<1> DEFINE v == mem.findings[f].version + 1
           y == [mem.findings EXCEPT ![f] = [version |-> v, verified |-> FALSE]]
<1>1. /\ Free /\ lock = "none" /\ mem.findings[f].version \in 1..MaxVersion - 1
      /\ Replace(y, [told EXCEPT ![f] = v]) /\ staged' = staged
  BY DEF Revise
<1>2. mem.findings \in Found
  BY FieldTypes DEF Regular, Typed
<1>3. y = Bumped(mem.findings, f)
  BY <1>2, RevisedIsBumped
<1>4. mem.findings[f].version < MaxVersion
  <2>1. PICK n \in 1..MaxVersion - 1 : n = mem.findings[f].version
    BY <1>1
  <2>2. n < MaxVersion
    BY RevisionsAssumption
  <2>3. QED
    BY <2>1, <2>2
<1>5. Changed(mem.findings, y, told, [told EXCEPT ![f] = v])
  BY <1>3, <1>4 DEF Changed
<1> HIDE DEF y
<1>6. QED
  BY <1>1, <1>5, ReplaceKeeps

LEMMA CommitKeeps == ASSUME Regular, Watching, Commit PROVE (Typed /\ Locked /\ Sane)'
<1>1. CASE Current
  <2>1. /\ Free /\ lock = "none" /\ staged.on /\ staged' = NotStaged
        /\ Replace(Verified(staged.findings), told)
    BY <1>1 DEF Commit
  <2>2. staged.findings = mem.findings
    BY <1>1, <2>1 DEF Current, Regular, Sane, Keeping, Free, Changing, Alive
  <2>3. Changed(mem.findings, Verified(staged.findings), told, told)
    BY <2>2 DEF Changed
  <2>4. QED
    BY <2>1, <2>3, ReplaceKeeps
<1>2. CASE ~Current
  <2>1. /\ staged' = NotStaged /\ UNCHANGED <<mem, disk, lock, at, local, prior, told, answer, faults, crashes>>
        /\ at["loop"] = "idle"
    BY <1>2 DEF Commit, Free
  <2>2. staged'.revision \in Nat /\ staged'.findings \in Found /\ ~staged'.on
    BY <2>1, NoOperationTypes DEF NotStaged
  <2> USE DEF Regular, Sane, Typed, Locked, Changing, Alive, Threads, LoopPoints, FinisherPoints
  <2>3. Typed' /\ Locked'
    BY <2>1, <2>2
  <2>4. Revisions' /\ Underway'
    BY <2>1 DEF Revisions, Underway
  <2>5. Keeping' /\ Projecting'
    BY <2>1, <2>2 DEF Keeping, Stored, Projecting, Claimed
  <2>6. Finishing' /\ Checking'
    BY <2>1 DEF Finishing, Sealed, Checking, Refuted, Durable
  <2>7. QED
    BY <2>3, <2>4, <2>5, <2>6
<1>3. QED
  BY <1>1, <1>2

LEMMA StartFinishKeeps == ASSUME Regular, Watching, StartFinish PROVE (Typed /\ Locked /\ Sane)'
<1> USE DEF Regular, Sane, Typed, Locked, Changing, Alive, Threads, LoopPoints, FinisherPoints
<1>1. /\ mem'.findings = mem.findings /\ mem'.revision = mem.revision /\ mem'.persisted = mem.persisted
      /\ mem'.status = mem.status /\ mem'.results = TRUE /\ mem'.receipt = mem.receipt /\ mem' \in Fields
  BY DEF StartFinish, Fields
<1>2. /\ at["finisher"] = "idle" /\ Alive /\ answer # "success"
      /\ at' = [at EXCEPT !["finisher"] = "bump"]
      /\ UNCHANGED <<disk, lock, local, faults, prior, staged, told, answer, crashes>>
  BY DEF StartFinish, Step, Goto, books
<1>3. /\ Changing' <=> Changing
      /\ Changing' /\ ~overlap' => ~overlap /\ mem' = mem
  BY <1>2 DEF Watching
<1>4. Typed' /\ Locked'
  BY <1>1, <1>2
<1>5. Revisions' /\ Underway'
  BY <1>1, <1>2, <1>3 DEF Revisions, Underway, Records
<1>6. Keeping' /\ Projecting'
  BY <1>1, <1>2, <1>3 DEF Keeping, Stored, Projecting, Projected, Claimed, Records
<1>7. Finishing' /\ Checking'
  BY <1>1, <1>2, <1>3 DEF Finishing, Sealed, Checking, Refuted, Durable
<1>8. QED
  BY <1>4, <1>5, <1>6, <1>7

\* The answer is a success only of a scan that is finished in the memory and on the disk.
LEMMA CheckKeeps == ASSUME Regular, Watching, Check PROVE (Typed /\ Locked /\ Sane)'
<1> USE DEF Regular, Sane, Typed, Locked, Changing, Alive, Threads, LoopPoints, FinisherPoints
<1>1. UNCHANGED <<mem, disk, lock, prior, staged, told, faults, crashes>> /\ CheckFinish
  BY DEF Check
<1>2. mem.revision \in Nat
  BY FieldTypes
<1>3. /\ at["finisher"] \in {"check", "verify"} /\ local' \in [Threads -> Saves]
      /\ \A t \in Threads : t # "finisher" => local'[t] = local[t]
  <2>1. \A n \in Nat : [local["finisher"] EXCEPT !.revision = n] \in Saves
    BY DEF Saves
  <2>2. NoSave \in Saves
    BY DEF NoSave, Saves, Statuses
  <2>3. QED
    BY <1>1, <1>2, <2>1, <2>2 DEF CheckFinish, Step
<1>4. \/ at' = [at EXCEPT !["finisher"] = "idle"] /\ answer' = "none"
      \/ /\ at["finisher"] = "check" /\ mem.receipt /\ answer' = answer /\ local'["finisher"].revision = mem.revision
         /\ \E p \in {"verify", "leave"} : at' = [at EXCEPT !["finisher"] = p]
      \/ /\ at["finisher"] = "verify" /\ Durable(disk, local["finisher"].revision)
         /\ at' = [at EXCEPT !["finisher"] = "idle"] /\ answer' = "success"
      \/ /\ at["finisher"] = "verify" /\ answer' = answer /\ at' = [at EXCEPT !["finisher"] = "leave"]
  BY <1>1 DEF CheckFinish, Step, Goto, Answered, Saves
<1>5. /\ Changing' <=> Changing
      /\ Changing' /\ ~overlap' => ~overlap
      /\ Alive /\ Alive' /\ at'["loop"] = at["loop"] /\ at'["ui"] = at["ui"] /\ at'["finisher"] \notin Records
      /\ at["finisher"] \notin Records
  BY <1>3, <1>4 DEF Watching, Records
<1>6. Typed' /\ Locked'
  BY <1>1, <1>3, <1>4
<1>7. Revisions' /\ Underway'
  BY <1>1, <1>3, <1>5 DEF Revisions, Underway
<1>8. Keeping' /\ Projecting'
  BY <1>1, <1>3, <1>5 DEF Keeping, Stored, Projecting, Projected, Claimed
<1>9. Finishing'
  BY <1>1, <1>3, <1>4, <1>5 DEF Finishing, Sealed, Checking
<1>10. Checking'
  <2>1. CASE at'["finisher"] = "verify"
    <3>1. at["finisher"] = "check" /\ mem.receipt /\ local'["finisher"].revision = mem.revision
      BY <1>4, <2>1
    <3>2. Durable(disk', local'["finisher"].revision) => mem'.status = "completed"
      BY <1>1, <3>1 DEF Checking, Refuted, Durable
    <3>3. ASSUME Changing', ~overlap', Durable(prior.disk, mem.revision) PROVE mem.status = "completed"
      <4>1. Changing /\ ~overlap /\ prior.disk.revision = mem.revision /\ prior.disk.revision <= prior.mem.revision
            /\ prior.disk.status = "completed" /\ prior.mem.status = mem.status
        BY <1>5, <3>1, <3>3 DEF Checking, Finishing, Durable
      <4>2. ~(prior.mem.revision < mem.revision)
        BY <1>2, <4>1, FieldTypes
      <4>3. prior.mem.receipt
        BY <3>1, <4>1, <4>2 DEF Checking
      <4>4. QED
        BY <3>1, <4>1, <4>3 DEF Checking, Refuted
    <3>4. QED
      BY <1>1, <1>5, <2>1, <3>1, <3>2, <3>3 DEF Checking
  <2>2. CASE at'["finisher"] # "verify"
    <3>1. at'["finisher"] # "check"
      BY <1>3, <1>4
    <3>2. QED
      BY <1>1, <1>5, <2>2, <3>1 DEF Checking
  <2>3. QED
    BY <2>1, <2>2
<1>11. QED
  BY <1>6, <1>7, <1>8, <1>9, <1>10

\* A death leaves files that are at most the change under way ahead of what is stored.
LEMMA DiesKeeps ==
  ASSUME Regular, NEW d \in Files, Near(Stored, d.findings), Dies(d)
  PROVE  (Typed /\ Locked /\ Sane)'
<1> USE DEF Regular, Sane, Typed, Locked, Revisions, Underway, Keeping, Projecting, Finishing, Checking, Changing, Alive,
            Projected, Sealed, Threads, Records, LoopPoints, FinisherPoints
<1>1. /\ disk'.findings = d.findings /\ disk' \in Files /\ lock' = "none" /\ answer' = "none"
      /\ prior' = NoOperation /\ staged' = NotStaged /\ local' = [t \in Threads |-> NoSave] /\ told' = told
      /\ faults' = faults /\ disk'.revision = d.revision
  BY DEF Dies, Files
<1>2. at' = [t \in Threads |-> IF t = "loop" THEN IF d.sound THEN "resumed" ELSE "refused" ELSE "idle"]
  BY DEF Dies
<1>3. /\ at' \in [Threads -> {"idle", "resumed", "refused"}]
      /\ at'["finisher"] = "idle" /\ at'["ui"] = "idle" /\ at'["loop"] = IF d.sound THEN "resumed" ELSE "refused"
  BY <1>2
<1>4. d.findings \in Found /\ d.revision \in Nat /\ d.revision <= d.revision + 1 /\ d.revision + 1 # d.revision
  BY FieldTypes
<1>5. \/ /\ mem'.findings = d.findings /\ mem'.revision = d.revision + 1 /\ mem'.persisted = d.revision
         /\ mem' \in Fields /\ at'["loop"] = "resumed" /\ mem'.status = "running"
      \/ mem' = mem /\ at'["loop"] = "refused"
  <2>1. CASE d.sound
    <3>1. mem' = [FreshMemory EXCEPT !.findings = d.findings, !.revision = d.revision + 1,
                                     !.persisted = d.revision, !.recorded = d.revision]
      BY <2>1 DEF Dies
    <3>2. FreshMemory \in Fields /\ FreshMemory.status = "running"
      BY NoOperationTypes DEF FreshMemory
    <3>3. /\ mem'.findings = d.findings /\ mem'.revision = d.revision + 1 /\ mem'.persisted = d.revision
          /\ mem' \in Fields /\ mem'.status = "running"
      <4>1. PICK n \in Nat : n = d.revision + 1
        BY <1>4
      <4>2. mem' = [FreshMemory EXCEPT !.findings = d.findings, !.revision = n,
                                       !.persisted = d.revision, !.recorded = d.revision]
        BY <3>1, <4>1
      <4>3. mem'.findings = d.findings /\ mem'.revision = n /\ mem'.persisted = d.revision /\ mem' \in Fields
            /\ mem'.status = "running"
        BY <1>4, <3>2, <4>2 DEF Fields
      <4>4. QED
        BY <4>1, <4>3
    <3>4. QED
      BY <1>3, <2>1, <3>3
  <2>2. CASE ~d.sound
    BY <1>3, <2>2 DEF Dies
  <2>3. QED
    BY <2>1, <2>2
<1>6. \A f \in Findings : Alive => told[f] <= d.findings[f].version
  <2>1. Stored \in Found
    BY FieldTypes DEF Stored
  <2>2. SUFFICES ASSUME NEW f \in Findings, Alive PROVE told[f] <= d.findings[f].version
    OBVIOUS
  <2>3. told[f] <= Stored[f].version /\ Stored[f].version <= d.findings[f].version
    BY <2>1, <2>2, NearFound
  <2>4. Stored[f].version \in Nat /\ d.findings[f].version \in Nat /\ told[f] \in Nat
    BY <1>4, <2>1, RevisionsAssumption DEF Found
  <2>5. QED
    BY <2>3, <2>4
<1>7. at' \in [Threads -> LoopPoints \cup FinisherPoints \cup {"stop_record"}] /\ NoSave \in Saves
  BY <1>3 DEF NoSave, Saves, Statuses
<1>8. Typed'
  BY <1>1, <1>3, <1>5, <1>7, NoOperationTypes DEF NotStaged
<1>9. Locked' /\ Revisions' /\ Underway'
  BY <1>1, <1>3, <1>4, <1>5
<1>10. Keeping'
  <2>1. Alive' => Stored' = d.findings /\ Near(d.findings, d.findings)
    BY <1>1, <1>3, <1>5, NearItself DEF Stored
  <2>2. Alive
    BY DEF Dies
  <2>3. QED
    BY <1>1, <1>6, <2>1, <2>2 DEF NotStaged
<1>11. ~Changing' /\ \A t \in Threads : at'[t] \notin Records
  BY <1>3
<1>12. Projecting'
  BY <1>1, <1>3, <1>4, <1>5, <1>11 DEF Claimed
<1>13. Finishing' /\ Checking'
  BY <1>1, <1>3, <1>4, <1>5, <1>11
<1>14. QED
  BY <1>8, <1>9, <1>10, <1>12, <1>13

LEMMA CrashKeeps == ASSUME Regular, Crash PROVE (Typed /\ Locked /\ Sane)'
  BY DiesKeeps DEF Crash, Dies, Regular, Sane, Typed, Keeping

LEMMA InterruptKeeps == ASSUME Regular, Interrupt PROVE (Typed /\ Locked /\ Sane)'
<1> DEFINE d == [findings |-> IF mem.revision = mem.persisted THEN disk.findings ELSE mem.findings,
                 sound |-> TRUE, status |-> Settled(mem.status, "interrupted"), results |-> mem.results,
                 revision |-> mem.revision, torn |-> FALSE]
<1>1. Dies(d) /\ Alive
  BY DEF Interrupt, Dies
<1>2. d.findings \in {disk.findings, mem.findings}
  OBVIOUS
<1>3. /\ disk.findings \in Found /\ mem.findings \in Found /\ mem.revision \in Nat /\ mem.results \in BOOLEAN
      /\ Settled(mem.status, "interrupted") \in Statuses
  BY FieldTypes, SettledStatus DEF Regular, Sane, Typed, Fields, Statuses
<1>4. d \in Files
  BY <1>2, <1>3 DEF Files
<1>5. Near(Stored, disk.findings)
  BY <1>1 DEF Regular, Sane, Keeping
<1>6. Near(Stored, mem.findings)
  BY NearItself DEF Stored, Regular, Sane, Underway
<1> HIDE DEF d
<1>7. QED
  BY <1>1, <1>2, <1>4, <1>5, <1>6, DiesKeeps

\* A step of the loop takes the lock for the loop, or none.
LEMMA LockMoves ==
  ASSUME at \in [Threads -> LoopPoints \cup FinisherPoints \cup {"stop_record"}], Act
  PROVE  at'["loop"] = at["loop"] \/ lock' \in {lock, "none", "loop"}
<1> USE DEF Threads, Goto, books
<1>1. ASSUME NEW t \in {"finisher", "ui"}, NEW p, at' = [at EXCEPT ![t] = p] PROVE at'["loop"] = at["loop"]
  BY <1>1
<1>2. ASSUME NEW t \in {"finisher", "ui"}, NEW w, NEW next, NEW failed,
             Project(t, w, next, failed) \/ Record(t, w, next, failed)
      PROVE  at'["loop"] = at["loop"]
  <2>1. at' = [at EXCEPT ![t] = next] \/ at' = [at EXCEPT ![t] = failed]
    BY <1>2 DEF Project, Record
  <2>2. QED
    BY <1>1, <2>1
<1>3. CASE StartFinish \/ SaveFinish
  BY <1>1, <1>2, <1>3 DEF StartFinish, SaveFinish
<1>4. CASE LeaveUnresolved \/ Stop
  BY <1>1, <1>2, <1>4 DEF LeaveUnresolved, Answered, Stop
<1>5. CASE Check
  BY <1>1, <1>5 DEF Check
<1>6. ASSUME NEW w, NEW next, NEW failed, Project("loop", w, next, failed) PROVE lock' \in {lock, "loop"}
  BY <1>6 DEF Project
<1>7. CASE SaveUsage \/ SaveFinding \/ SaveRevision
  BY <1>6, <1>7 DEF SaveUsage, SaveFinding, SaveRevision
<1>8. CASE Unfile \/ Stage \/ Commit \/ TakeOver \/ Unrevise
  BY <1>8 DEF Unfile, Stage, Commit, Replace, TakeOver, Unrevise
<1>9. CASE \E f \in Findings : StartFiling(f) \/ File(f) \/ Revise(f)
  BY <1>9 DEF StartFiling, File, Revise, Replace
<1>10. CASE Crash \/ Interrupt
  BY <1>10 DEF Crash, Interrupt, Dies
<1>11. QED
  BY <1>3, <1>4, <1>5, <1>7, <1>8, <1>9, <1>10 DEF Act

LEMMA WatchedKeeps == ASSUME Regular, Act, Watch, Watching PROVE Watched'
<1>1. ~Changing' => ~overlap'
  BY Zenon DEF Watch
<1>2. ASSUME Changing', lock' \notin {"none", "loop"} PROVE overlap'
  <2>1. SUFFICES ASSUME ~overlap' PROVE FALSE
    OBVIOUS
  <2>2. CASE Changing
    <3>1. ~overlap /\ (at'["loop"] = at["loop"] => lock' = lock)
      BY <1>2, <2>1, <2>2 DEF Watching
    <3>2. lock' = lock
      BY <1>2, <3>1, LockMoves DEF Regular, Typed
    <3>3. QED
      BY <1>2, <2>2, <3>1, <3>2 DEF Regular, Watched
  <2>3. CASE ~Changing
    <3>1. lock \in {"none", "loop"}
      BY <1>2, <2>1, <2>3 DEF Watching
    <3>2. at'["loop"] # at["loop"]
      BY <1>2, <2>3 DEF Changing
    <3>3. QED
      BY <1>2, <3>1, <3>2, LockMoves DEF Regular, Typed
  <2>4. QED
    BY <2>2, <2>3
<1>3. QED
  BY <1>1, <1>2 DEF Watched

LEMMA ActKeeps == ASSUME Regular, Watching, Act PROVE (Typed /\ Locked /\ Sane)'
  BY SaveUsageKeeps, SaveFindingKeeps, UnfileKeeps, StageKeeps, CommitKeeps, TakeOverKeeps, SaveRevisionKeeps,
     UnreviseKeeps, StartFilingKeeps, FileKeeps, ReviseKeeps, StartFinishKeeps, SaveFinishKeeps, CheckKeeps,
     LeaveUnresolvedKeeps, StopKeeps, CrashKeeps, InterruptKeeps DEF Act

LEMMA NextIInv == ASSUME IInv, [Next]_vars PROVE IInv'
<1>1. CASE Next
  <2> SUFFICES ASSUME ~undone' PROVE Regular'
    BY DEF IInv
  <2>1. Watching /\ ~undone /\ Act /\ Watch
    BY <1>1, WatchStep DEF Next
  <2>2. Regular
    BY <2>1 DEF IInv
  <2>3. QED
    BY <2>1, <2>2, ActKeeps, WatchedKeeps DEF Regular
<1>2. CASE UNCHANGED vars
  BY <1>2 DEF vars, watched, IInv, Regular, Sane, Typed, Locked, Watched, Revisions, Underway, Keeping, Projecting,
              Finishing, Checking, Changing, Alive, Stored, Projected, Claimed, Sealed, Refuted, Durable
<1>3. QED
  BY <1>1, <1>2

\* The report and its files stay within one change of what was stored, and what a
\* rollback would restore is as good as what is there, until one takes back what another
\* thread had done.
THEOREM Invariance == Spec => []IInv
<1>1. Init => IInv
  BY InitIInv
<1>2. IInv /\ [Next]_vars => IInv'
  BY NextIInv
<1>3. QED
  BY <1>1, <1>2, PTL DEF Spec

\* What finish_scan answered as finished is finished on disk, beside filings, revisions,
\* commits and stops of the other threads, until a rollback takes back what it had done.
THEOREM DurableSuccess == Spec => []SuccessIsDurable
<1>1. IInv => SuccessIsDurable
  BY DEF IInv, Regular, Sane, Finishing, Sealed, SuccessIsDurable
<1>2. QED
  BY <1>1, Invariance, PTL

\* Projections that are taken for current are, until then.
THEOREM ProjectionsAreCurrent == Spec => []CurrentProjections
<1>1. IInv => CurrentProjections
  BY DEF IInv, Regular, Sane, Projecting, Claimed, CurrentProjections, NeverOlder, Quiet, Changing, Threads, Alive
<1>2. QED
  BY <1>1, Invariance, PTL

-----------------------------------------------------------------------------
(* The refinement of FindingStore: what is stored changes when a change is *)
(* reported, or when the process dies in the middle of one.                *)

Kept == Stored' = Stored /\ told' = told

\* The change under way, whole, and reported or not, is a step of the promise.
LEMMA MovesMap ==
  ASSUME Changed(Stored, Stored', told, told') \/ (Near(Stored, Stored') /\ told' = told)
  PROVE  [Promise!Next]_<<Stored, told>>
<1>1. CASE \E f \in Findings : /\ Stored[f].version < MaxVersion /\ Stored' = Bumped(Stored, f)
                              /\ told' \in {told, [told EXCEPT ![f] = Stored[f].version + 1]}
  BY <1>1 DEF Promise!Next, Promise!Change, Bumped
<1>2. CASE Stored' = Verified(Stored) /\ told' = told
  BY <1>2 DEF Promise!Next, Promise!Verify, Verified
<1>3. CASE Stored' = Stored /\ told' = told
  BY <1>3
<1>4. QED
  BY <1>1, <1>2, <1>3 DEF Changed, Near

\* A save of anybody keeps what is stored unless it ends a change.
LEMMA SavesKeep ==
  ASSUME Regular, NEW t \in Threads, NEW w \in Statuses \cup {"none"}, NEW next, NEW failed,
         Project(t, w, next, failed) \/ Record(t, w, next, failed)
  PROVE  /\ mem'.findings = mem.findings
         /\ at' \in {[at EXCEPT ![t] = next], [at EXCEPT ![t] = failed]}
<1>1. CASE Project(t, w, next, failed)
  <2>1. Projects(t, w, next, failed)
    BY <1>1, ProjectStep DEF Regular, Sane, Typed
  <2>2. QED
    BY <2>1 DEF Projects, SameReport
<1>2. CASE Record(t, w, next, failed)
  <2>1. Recorded(t, w, next, failed)
    BY <1>2, RecordStep DEF Regular, Sane, Typed
  <2>2. QED
    BY <2>1 DEF Recorded, SameReport
<1>3. QED
  BY <1>1, <1>2

LEMMA LoopSavesMap == ASSUME Regular, SaveUsage \/ SaveFinding \/ SaveRevision
                      PROVE  [Promise!Next]_<<Stored, told>>
<1> USE DEF Stored, Changing, books, Threads, Regular, Sane, Typed
<1>1. CASE SaveUsage
  <2>1. /\ at["loop"] \in {"idle", "resumed", "usage_record"} /\ UNCHANGED <<prior, told>>
        /\ mem'.findings = mem.findings
        /\ at' \in {[at EXCEPT !["loop"] = "idle"], [at EXCEPT !["loop"] = "usage_record"]}
    BY <1>1, SavesKeep DEF SaveUsage
  <2>2. QED
    BY <2>1
<1>2. CASE at["loop"] \in {"filed", "revised"} /\ (SaveFinding \/ SaveRevision)
  <2>1. /\ UNCHANGED <<prior, told>> /\ mem'.findings = mem.findings
        /\ \E p \in {"filed_record", "unfiling", "revised_record", "unrevising"} : at' = [at EXCEPT !["loop"] = p]
    <3>1. CASE SaveFinding
      <4>1. Project("loop", "none", "filed_record", "unfiling") /\ UNCHANGED <<prior, told>>
        BY <1>2, <3>1 DEF SaveFinding
      <4>2. QED
        BY <4>1, SavesKeep
    <3>2. CASE SaveRevision
      <4>1. Project("loop", "none", "revised_record", "unrevising") /\ UNCHANGED <<prior, told>>
        BY <1>2, <3>2 DEF SaveRevision
      <4>2. QED
        BY <4>1, SavesKeep
    <3>3. QED
      BY <1>2, <3>1, <3>2
  <2>2. QED
    BY <2>1, <1>2
<1>3. CASE at["loop"] \in {"filed_record", "revised_record"} /\ (SaveFinding \/ SaveRevision)
  <2>1. /\ mem'.findings = mem.findings
        /\ \/ at' = [at EXCEPT !["loop"] = "idle"] /\ told' = prior.told
           \/ /\ \E p \in {"unfiling", "unrevising"} : at' = [at EXCEPT !["loop"] = p]
              /\ UNCHANGED <<prior, told>>
    BY <1>3, SavesKeep DEF SaveFinding, SaveRevision, Report
  <2>2. Changed(prior.mem.findings, mem.findings, told, prior.told)
    BY <1>3 DEF Underway
  <2>3. CASE at' = [at EXCEPT !["loop"] = "idle"] /\ told' = prior.told
    <3>1. Stored = prior.mem.findings /\ Stored' = mem.findings
      BY <1>3, <2>1, <2>3
    <3>2. QED
      BY <2>2, <2>3, <3>1, MovesMap
  <2>4. CASE (\E p \in {"unfiling", "unrevising"} : at' = [at EXCEPT !["loop"] = p]) /\ UNCHANGED <<prior, told>>
    BY <1>3, <2>4
  <2>5. QED
    BY <2>1, <2>3, <2>4
<1>4. QED
  BY <1>1, <1>2, <1>3 DEF SaveFinding, SaveRevision

LEMMA EndsMap == ASSUME Regular, StartFinish \/ SaveFinish \/ Check \/ LeaveUnresolved \/ Stop
                 PROVE  Kept
<1> USE DEF Stored, Changing, books, Threads, Regular, Sane, Typed
<1>1. ASSUME NEW t \in {"finisher", "ui"}, NEW point, at' = [at EXCEPT ![t] = point],
             mem'.findings = mem.findings, UNCHANGED <<prior, told>>
      PROVE  Kept
  BY <1>1 DEF Kept
<1>2. CASE SaveFinish
  <2>1. UNCHANGED <<prior, told>>
    BY <1>2 DEF SaveFinish
  <2>2. /\ mem'.findings = mem.findings
        /\ \E p \in FinisherPoints : at' = [at EXCEPT !["finisher"] = p]
    <3>1. CASE Step("bump")
      BY <1>2, <3>1 DEF SaveFinish, Step, Goto, Fields, FinisherPoints
    <3>2. CASE ~Step("bump")
      BY <1>2, <3>2, SavesKeep DEF SaveFinish, FinisherPoints, Statuses
    <3>3. QED
      BY <3>1, <3>2
  <2>3. QED
    BY <1>1, <2>1, <2>2
<1>3. CASE LeaveUnresolved
  <2>1. UNCHANGED <<prior, told>>
    BY <1>3 DEF LeaveUnresolved
  <2>2. /\ mem'.findings = mem.findings
        /\ \E p \in FinisherPoints : at' = [at EXCEPT !["finisher"] = p]
    <3>1. CASE Step("leave") \/ Step("left")
      BY <1>3, <3>1 DEF LeaveUnresolved, Step, Answered, Goto, Fields, FinisherPoints
    <3>2. CASE Step("leave_save")
      <4>1. Project("finisher", "none", "leave_record", "left")
        BY <1>3, <3>2 DEF LeaveUnresolved, Step
      <4>2. QED
        BY <4>1, SavesKeep DEF FinisherPoints
    <3>3. CASE Step("leave_record")
      <4>1. Record("finisher", "none", "left", "left")
        BY <1>3, <3>3 DEF LeaveUnresolved, Step
      <4>2. QED
        BY <4>1, SavesKeep DEF FinisherPoints
    <3>4. QED
      BY <1>3, <3>1, <3>2, <3>3 DEF LeaveUnresolved
  <2>3. QED
    BY <1>1, <2>1, <2>2
<1>4. CASE StartFinish \/ Check
  <2>1. /\ mem'.findings = mem.findings /\ UNCHANGED <<prior, told>>
        /\ \E p \in FinisherPoints : at' = [at EXCEPT !["finisher"] = p]
    BY <1>4 DEF StartFinish, Check, CheckFinish, Answered, Goto, Fields, FinisherPoints
  <2>2. QED
    BY <1>1, <2>1
<1>5. CASE Stop
  <2>1. /\ mem'.findings = mem.findings /\ UNCHANGED <<prior, told>>
        /\ \E p \in {"idle", "stop_record"} : at' = [at EXCEPT !["ui"] = p]
    BY <1>5, SavesKeep DEF Stop, Statuses
  <2>2. QED
    BY <1>1, <2>1
<1>6. QED
  BY <1>2, <1>3, <1>4, <1>5

\* What begins a change and what takes it back.
LEMMA ChangesMap ==
  ASSUME Regular, Watching, Unfile \/ Unrevise \/ Stage \/ Commit \/ TakeOver
               \/ \E f \in Findings : StartFiling(f) \/ File(f) \/ Revise(f)
  PROVE  Kept
<1> USE DEF Stored, Changing, books, Threads, Regular, Sane, Typed, Kept
<1>1. CASE at["loop"] \in {"unfiling", "unrevising"} /\ (Unfile \/ Unrevise)
  BY <1>1 DEF Unfile, Unrevise, Goto
<1>2. CASE at["loop"] \in {"unfiled", "unrevised"} /\ (Unfile \/ Unrevise)
  <2>1. mem = prior.mem /\ at' = [at EXCEPT !["loop"] = "idle"] /\ told' = told
    <3>1. ~overlap
      BY <1>2 DEF Watching, RollsBack, Unfile, Unrevise, Goto
    <3>2. QED
      BY <1>2, <3>1 DEF Unfile, Unrevise, Goto, Underway
  <2>2. mem'.findings = mem.findings
    BY <1>2, RestoreStep DEF Unfile, Unrevise, Restores
  <2>3. Stored = mem.findings /\ Stored' = mem'.findings
    BY <1>2, <2>1
  <2>4. QED
    BY <2>1, <2>2, <2>3
<1>3. CASE Stage
  BY <1>3 DEF Stage
<1>4. CASE \E f \in Findings : StartFiling(f)
  BY <1>4 DEF StartFiling, Free, Goto
<1>5. CASE \E f \in Findings : File(f)
  <2>1. /\ at["loop"] \in {"filing", "listed"} /\ prior' = prior /\ told' = told
        /\ \E p \in {"listed", "filed"} : at' = [at EXCEPT !["loop"] = p]
    BY <1>5 DEF File, Goto
  <2>2. Stored = prior.mem.findings /\ Stored' = prior'.mem.findings
    BY <2>1
  <2>3. QED
    BY <2>1, <2>2
<1>6. ASSUME NEW y, NEW promise, Free, Replace(y, promise) PROVE Kept
  <2>1. at["loop"] = "idle" /\ prior'.mem = mem /\ told' = told
        /\ \E p \in {"revising", "unrevising"} : at' = [at EXCEPT !["loop"] = p]
    BY <1>6 DEF Free, Replace, Goto
  <2>2. Stored = mem.findings /\ Stored' = prior'.mem.findings
    BY <2>1
  <2>3. QED
    BY <2>1, <2>2
<1>7. CASE Commit \/ \E f \in Findings : Revise(f)
  BY <1>6, <1>7 DEF Commit, Revise
<1>8. CASE TakeOver
  BY <1>8 DEF TakeOver, Goto
<1>9. QED
  BY <1>1, <1>2, <1>3, <1>4, <1>5, <1>7, <1>8 DEF Unfile, Unrevise

\* A process that dies in the middle of a change may have stored it.
LEMMA DeathsMap == ASSUME Regular, NEW d, Near(Stored, d.findings), Dies(d)
                   PROVE  [Promise!Next]_<<Stored, told>>
<1>1. told' = told /\ at' \in [Threads -> {"idle", "resumed", "refused"}]
  BY DEF Dies
<1>2. Stored' = mem'.findings
  BY <1>1 DEF Stored, Changing, Threads
<1>3. Near(Stored, mem.findings)
  BY NearItself DEF Stored, Regular, Sane, Underway
<1>4. mem'.findings \in {mem.findings, d.findings}
  BY DEF Dies, FreshMemory
<1>5. QED
  BY <1>1, <1>2, <1>3, <1>4, MovesMap

LEMMA DyingMaps == ASSUME Regular, Crash \/ Interrupt PROVE [Promise!Next]_<<Stored, told>>
<1>1. Alive => Near(Stored, disk.findings)
  BY DEF Regular, Sane, Keeping
<1>2. Near(Stored, mem.findings)
  BY NearItself DEF Stored, Regular, Sane, Underway
<1>3. QED
  <2>1. CASE Crash
    BY <1>1, <2>1, DeathsMap DEF Crash, Dies
  <2>2. CASE Interrupt
    <3> DEFINE d == [findings |-> IF mem.revision = mem.persisted THEN disk.findings ELSE mem.findings,
                     sound |-> TRUE, status |-> Settled(mem.status, "interrupted"), results |-> mem.results,
                     revision |-> mem.revision, torn |-> FALSE]
    <3>1. Dies(d) /\ Alive
      BY <2>2 DEF Interrupt, Dies
    <3>2. d.findings \in {disk.findings, mem.findings}
      OBVIOUS
    <3> HIDE DEF d
    <3>3. Near(Stored, d.findings)
      BY <1>1, <1>2, <3>1, <3>2
    <3>4. QED
      BY <3>1, <3>3, DeathsMap
  <2>3. QED
    BY <2>1, <2>2

LEMMA ActMaps == ASSUME Regular, Watching, Act PROVE [Promise!Next]_<<Stored, told>>
  BY LoopSavesMap, EndsMap, ChangesMap, DyingMaps DEF Act, Kept

LEMMA NextMaps == ASSUME IInv, [Next]_vars PROVE [~undone' => Promise!Next]_<<Stored, told>>
<1>1. CASE UNCHANGED vars
  BY <1>1 DEF vars, Stored, Changing
<1>2. CASE Next /\ ~undone'
  <2>1. Watching /\ Regular /\ Act
    BY <1>2, WatchStep DEF Next, IInv
  <2>2. [Promise!Next]_<<Stored, told>>
    BY <2>1, ActMaps
  <2>3. QED
    BY <2>2
<1>3. CASE Next /\ undone'
  BY <1>3
<1>4. QED
  BY <1>1, <1>2, <1>3

\* The report implements the promise of its artifacts, until a rollback takes back what
\* another thread had done.
THEOREM FindingsAreKept == Spec => KeepsFindings
<1>1. Init => Promise!Init
  BY DEF Init, Promise!Init, Stored, Changing, FreshMemory, None, Unpromised, Threads
<1>2. IInv /\ [Next]_vars => [~undone' => Promise!Next]_<<Stored, told>>
  BY NextMaps
<1>3. QED
  BY <1>1, <1>2, Invariance, PTL DEF Spec, KeepsFindings
=============================================================================
