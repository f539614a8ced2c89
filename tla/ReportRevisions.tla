--------------------------- MODULE ReportRevisions ---------------------------
(***************************************************************************)
(* The report state of a scan (artifacts/state*.py, pending_http.py): the  *)
(* findings and the run record in memory, the files they are projected to, *)
(* and the revision that says whether the projections are current.         *)
(*                                                                         *)
(* Three threads share it: "loop", the event loop, where findings are      *)
(* filed and revised, evidence is reconciled and usage is saved;           *)
(* "finisher", the worker thread of finish_scan; and "ui", which stores a  *)
(* terminal status.  Saves hold _report_artifacts_lock, and so do          *)
(* revisions and the commit of the evidence; filing a finding and          *)
(* finish_scan take it only for the saves they make.  Any write may fail,  *)
(* and the process may die between any two steps.                          *)
(*                                                                         *)
(* A change of a finding that fails is rolled back to what memory and      *)
(* files were when it began, and takes back what another thread has done   *)
(* since.  Two variables watch for that and restrain nothing: overlap and  *)
(* undone.  A rollback is not atomic, nor is what it restores read at one  *)
(* moment; a step of another thread in between is such an overlap.         *)
(*                                                                         *)
(* disk.findings stands for vulnerabilities.json and what is written with  *)
(* it, disk.sound says that the manifest in run.json fits the files, and   *)
(* the rest of disk is run.json; disk.torn remembers that a restore failed *)
(* and the findings have not been written since.                           *)
(***************************************************************************)
EXTENDS Naturals, FiniteSets

CONSTANTS
  Findings,
  MaxVersion,  \* a finding is filed and revised at most so often
  MaxRevision, \* bounds report_artifacts_revision
  MaxFaults,   \* failed writes
  MaxCrashes   \* deaths of the process

ASSUME RevisionsAssumption ==
  /\ IsFiniteSet(Findings) /\ MaxVersion \in Nat \ {0}
  /\ {MaxRevision, MaxFaults, MaxCrashes} \subseteq Nat

VARIABLES
  mem,      \* ReportState
  disk,     \* the run directory
  lock,     \* who holds _report_artifacts_lock
  at,       \* where each thread is
  local,    \* per thread: the revision its save began with, whether all was written, and the
            \* status before a completion
  prior,    \* what the running operation of the loop would roll back to
  staged,   \* the evidence being exported: the revision and the findings it began with
  told,     \* per finding the version the tool reported as filed or revised
  answer,   \* "success" if that is what finish_scan answered last
  overlap,  \* another thread has touched the report since the change under way began
  undone,   \* a rollback took back what another thread had done
  faults, crashes

books == <<prior, staged, told, answer, crashes>>
watched == <<overlap, undone>>
vars == <<mem, disk, lock, at, local, prior, staged, told, answer, faults, crashes, watched>>

Threads == {"loop", "finisher", "ui"}
None == [f \in Findings |-> [version |-> 0, verified |-> FALSE]]
Unpromised == [f \in Findings |-> 0]

\* set_scan_config and the first save are behind. recorded is the revision in the run
\* record, persisted the one that is taken to be projected.
FreshMemory == [findings |-> None, revision |-> 1, persisted |-> 1, recorded |-> 1, status |-> "running",
                results |-> FALSE, receipt |-> TRUE]
FreshDisk == [findings |-> None, sound |-> TRUE, status |-> "running", results |-> FALSE,
              revision |-> 1, torn |-> FALSE]
NoSave == [revision |-> 0, whole |-> TRUE, status |-> "running"]
NoOperation == [mem |-> FreshMemory, disk |-> FreshDisk, told |-> Unpromised]
NotStaged == [on |-> FALSE, revision |-> 0, findings |-> None]

Init ==
  /\ mem = FreshMemory /\ disk = FreshDisk /\ lock = "none"
  /\ at = [t \in Threads |-> "idle"] /\ local = [t \in Threads |-> NoSave]
  /\ prior = NoOperation /\ staged = NotStaged /\ told = Unpromised /\ answer = "none"
  /\ overlap = FALSE /\ undone = FALSE /\ faults = 0 /\ crashes = 0

Alive == at["loop"] # "refused"
Goto(t, point) == at' = [at EXCEPT ![t] = point]
Fault == faults < MaxFaults /\ faults' = faults + 1

\* Filing and revising go through these points of the loop.
Changing == at["loop"] \in {"filing", "listed", "filed", "filed_record", "unfiling", "unfiled",
                            "revising", "revised", "revised_record", "unrevising", "unrevised"}

\* What begins with no other operation of the loop under way.
Free == at["loop"] = "idle" /\ mem.revision < MaxRevision

-----------------------------------------------------------------------------
(* save_run_data: two steps under the lock, the projections and run.json. *)

\* The status a save asks for: completed overrides, and a stop does not override the
\* end that came before it (interrupted stands for failed too).
Settled(status, wanted) ==
  IF wanted = "completed" \/ status = "completed" THEN "completed"
  ELSE IF wanted = "none" \/ (wanted = "stopped" /\ status = "interrupted") THEN status
  ELSE wanted

\* The projections are written if they are not current. An optional one may fail, and
\* so may the required one, which ends the save.
Project(t, wanted, next, failed) ==
  LET current == mem.revision = mem.persisted
      started(whole) == [revision |-> mem.revision, whole |-> whole,
                         status |-> IF wanted = "completed" THEN mem.status ELSE NoSave.status]
      status == Settled(mem.status, wanted)
  IN  /\ Alive /\ lock \in {"none", t}
      /\ \/ /\ \E whole \in BOOLEAN :
                 /\ local' = [local EXCEPT ![t] = started(whole)]
                 /\ IF whole THEN UNCHANGED faults ELSE ~current /\ Fault
            /\ mem' = [mem EXCEPT !.status = status]
            /\ disk' = IF current THEN [disk EXCEPT !.sound = FALSE]
                       ELSE [disk EXCEPT !.findings = mem.findings, !.sound = FALSE, !.torn = FALSE]
            /\ Goto(t, next) /\ lock' = t
         \/ /\ ~current /\ Fault
            /\ mem' = [mem EXCEPT !.receipt = FALSE,
                                  !.status = IF wanted = "completed" THEN @ ELSE status]
            /\ disk' \in {disk, [disk EXCEPT !.sound = FALSE]}
            /\ Goto(t, failed) /\ UNCHANGED <<local, lock>>

\* What a save that was written makes the revision that is on disk.
Persisted(save) == IF save.whole THEN save.revision ELSE mem.persisted

\* run.json, with the manifest of what is there, which may not be made and is then an
\* old one, and the record to resume from, which may fail. A write may fail after it has
\* replaced the file. A completion whose receipt was not written is taken back.
Record(t, wanted, next, failed) ==
  LET written(sound) == [disk EXCEPT !.sound = sound, !.status = mem.status, !.results = mem.results,
                                     !.revision = Persisted(local[t])]
  IN
  /\ local' = [local EXCEPT ![t] = NoSave]
  /\ \/ /\ \E resumable, sound \in BOOLEAN :
             /\ mem' = [mem EXCEPT !.receipt = TRUE, !.recorded = Persisted(local[t]),
                                   !.persisted = IF resumable THEN Persisted(local[t]) ELSE @]
             /\ disk' = written(sound)
             /\ IF resumable /\ sound THEN UNCHANGED faults ELSE Fault
        /\ Goto(t, next)
     \/ /\ Fault
        /\ mem' = [mem EXCEPT !.receipt = FALSE, !.recorded = Persisted(local[t]),
                              !.status = IF wanted = "completed" THEN local[t].status ELSE @]
        /\ disk' \in {disk, written(TRUE)}
        /\ Goto(t, failed)

-----------------------------------------------------------------------------
(* The operations of the loop. *)

\* record_sdk_usage, a cleanup outcome, and the first save of a resumed scan.
SaveUsage ==
  \/ /\ at["loop"] \in {"idle", "resumed"}
     /\ Project("loop", "none", "usage_record", "idle") /\ UNCHANGED books
  \/ /\ at["loop"] = "usage_record"
     /\ Record("loop", "none", "idle", "idle") /\ lock' = "none" /\ UNCHANGED books

\* add_vulnerability_report takes the lock only for its save.
StartFiling(f) ==
  /\ Free /\ mem.findings[f].version = 0
  /\ prior' = [mem |-> mem, disk |-> disk, told |-> [told EXCEPT ![f] = 1]]
  /\ Goto("loop", "filing")
  /\ UNCHANGED <<mem, disk, lock, local, staged, told, answer, faults, crashes>>

\* The finding joins the others, then the revision goes up.
File(f) ==
  \/ /\ at["loop"] = "filing" /\ prior.told[f] > mem.findings[f].version
     /\ mem' = [mem EXCEPT !.findings[f].version = 1]
     /\ Goto("loop", "listed") /\ UNCHANGED <<disk, lock, local, faults, books>>
  \/ /\ at["loop"] = "listed" /\ prior.told[f] > told[f]
     /\ mem' = [mem EXCEPT !.revision = @ + 1]
     /\ Goto("loop", "filed") /\ UNCHANGED <<disk, lock, local, faults, books>>

\* What was to be filed or revised is reported to be.
Report == told' = prior.told /\ prior' = NoOperation

SaveFinding ==
  \/ at["loop"] = "filed" /\ Project("loop", "none", "filed_record", "unfiling") /\ UNCHANGED books
  \/ /\ at["loop"] = "filed_record"
     /\ Record("loop", "none", "idle", "unfiling") /\ lock' = "none"
     /\ IF at'["loop"] = "idle" THEN Report ELSE UNCHANGED <<told, prior>>
     /\ UNCHANGED <<staged, answer, crashes>>

\* Mutant: the restored files are not those the operation began with.
BuggyRestored(d) == [d EXCEPT !.findings = disk.findings]

Restored(d) == d

\* restore_revision_artifacts: run.json comes first, and what cannot be restored is
\* left as it is.
RestoreFiles ==
  /\ prior' = NoOperation
  /\ \/ disk' = Restored(prior.disk) /\ UNCHANGED <<mem, faults>>
     \/ /\ Fault /\ mem' = [mem EXCEPT !.receipt = FALSE]
        /\ \E d \in {disk, prior.disk} :
             disk' = [d EXCEPT !.findings = disk.findings, !.sound = FALSE, !.torn = TRUE]

\* rollback_unpersisted_report: the memory, then the files, without the lock.
Unfile ==
  \/ /\ at["loop"] = "unfiling" /\ Goto("loop", "unfiled") /\ mem' = prior.mem
     /\ UNCHANGED <<disk, lock, local, faults, books>>
  \/ /\ at["loop"] = "unfiled" /\ Goto("loop", "idle") /\ RestoreFiles
     /\ UNCHANGED <<lock, local, staged, told, answer, crashes>>

\* The projections of a revision are written before the memory is changed.
Replace(findings, promise) ==
  /\ lock' = "loop" /\ prior' = [mem |-> mem, disk |-> disk, told |-> promise]
  /\ \/ /\ disk' = [disk EXCEPT !.findings = findings, !.sound = FALSE, !.torn = FALSE]
        /\ Goto("loop", "revising") /\ UNCHANGED faults
     \/ /\ Fault /\ Goto("loop", "unrevising")
        /\ disk' \in {disk, [disk EXCEPT !.findings = findings, !.sound = FALSE]}
  /\ UNCHANGED <<mem, local, told, answer, crashes>>

\* The evidence is being committed: nothing new is to be reported.
Committing == prior.told = told

\* The memory takes over what was written. A commit sets the revision after the one it
\* was staged at, a revision of a finding the one after the current.
TakeOver ==
  LET revision == (IF Committing THEN prior.mem.revision ELSE mem.revision) + 1
  IN  /\ at["loop"] = "revising" /\ Goto("loop", "revised")
      /\ mem' = [mem EXCEPT !.findings = disk.findings, !.revision = revision, !.persisted = revision]
      /\ UNCHANGED <<disk, lock, local, faults, books>>

\* update_vulnerability_report: a sealed run is immutable.
Revise(f) ==
  /\ Free /\ lock = "none" /\ mem.status # "completed"
  /\ mem.findings[f].version \in 1..MaxVersion - 1
  /\ LET v == mem.findings[f].version + 1
     IN  Replace([mem.findings EXCEPT ![f] = [version |-> v, verified |-> FALSE]], [told EXCEPT ![f] = v])
  /\ UNCHANGED staged

\* reconcile_http_exchange_evidence: the export is staged outside the lock.
Stage ==
  /\ at["loop"] = "idle" /\ lock = "none" /\ ~staged.on
  /\ staged' = [on |-> TRUE, revision |-> mem.revision, findings |-> mem.findings]
  /\ UNCHANGED <<mem, disk, lock, at, local, prior, told, answer, faults, crashes>>

\* Mutant: the export is committed whatever happened meanwhile.
BuggyCurrent == TRUE

Current == mem.revision = staged.revision

\* The evidence of every finding there is.
Verified(findings) ==
  [f \in Findings |-> IF findings[f].version > 0 THEN [findings[f] EXCEPT !.verified = TRUE] ELSE findings[f]]

\* _commit_revision
Commit ==
  /\ Free /\ lock = "none" /\ staged.on /\ staged' = NotStaged
  /\ IF Current THEN Replace(Verified(staged.findings), told)
     ELSE UNCHANGED <<mem, disk, lock, at, local, prior, told, answer, faults, crashes>>

\* The record of a revision, of a finding or of the evidence. A commit reads it back
\* (_persist_bound_revision), and fails if it is not what was to be written.
SaveRevision ==
  \/ /\ at["loop"] = "revised"
     /\ Project("loop", "none", "revised_record", "unrevising") /\ UNCHANGED books
  \/ /\ at["loop"] = "revised_record"
     /\ \/ /\ Record("loop", "none", "idle", "unrevising")
           /\ at'["loop"] = "idle" /\ Committing => disk'.sound /\ disk'.revision = prior.mem.revision + 1
        \/ Committing /\ Record("loop", "none", "unrevising", "unrevising")
     /\ IF at'["loop"] = "idle" THEN Report /\ lock' = "none" ELSE UNCHANGED <<told, prior, lock>>
     /\ UNCHANGED <<staged, answer, crashes>>

\* rollback_revision, under the lock.
Unrevise ==
  \/ /\ at["loop"] = "unrevising" /\ Goto("loop", "unrevised") /\ mem' = prior.mem
     /\ UNCHANGED <<disk, lock, local, faults, books>>
  \/ /\ at["loop"] = "unrevised" /\ Goto("loop", "idle") /\ lock' = "none" /\ RestoreFiles
     /\ UNCHANGED <<local, staged, told, answer, crashes>>

-----------------------------------------------------------------------------
(* finish_scan, and the other ends of a scan. *)

Step(point) == at["finisher"] = point
Answered(a) == Goto("finisher", "idle") /\ answer' = a

\* update_scan_final_fields sets the results and the revision without the lock.
StartFinish ==
  /\ Step("idle") /\ Alive /\ at["loop"] # "resumed" /\ answer # "success"
  /\ mem.revision < MaxRevision
  /\ mem' = [mem EXCEPT !.results = TRUE]
  /\ Goto("finisher", "bump") /\ UNCHANGED <<disk, lock, local, faults, books>>

SaveFinish ==
  \/ /\ Step("bump") /\ mem' = [mem EXCEPT !.revision = @ + 1] /\ Goto("finisher", "save")
     /\ UNCHANGED <<disk, lock, local, faults, books>>
  \/ Step("save") /\ Project("finisher", "none", "save_record", "mark") /\ UNCHANGED books
  \/ /\ Step("save_record") /\ Record("finisher", "none", "mark", "mark") /\ lock' = "none"
     /\ UNCHANGED books
  \/ Step("mark") /\ Project("finisher", "completed", "mark_record", "check") /\ UNCHANGED books
  \/ /\ Step("mark_record") /\ Record("finisher", "completed", "check", "check") /\ lock' = "none"
     /\ UNCHANGED books

\* Mutant: what is on disk is not looked at.
BuggyDurable(d, revision) == TRUE

\* _final_evidence_is_durable, of the record that was read.
Durable(d, revision) ==
  d.sound /\ d.status = "completed" /\ d.results /\ d.revision = revision

\* The answer of finish_scan: the receipt and the memory, then the disk is looked at.
CheckFinish ==
  \/ Step("check") /\ ~mem.receipt /\ Answered("none") /\ UNCHANGED local
  \/ /\ Step("check") /\ mem.receipt
     /\ Goto("finisher", IF mem.revision = mem.recorded THEN "verify" ELSE "leave")
     /\ local' = [local EXCEPT !["finisher"].revision = mem.revision] /\ UNCHANGED answer
  \/ /\ Step("verify") /\ local' = [local EXCEPT !["finisher"] = NoSave]
     /\ IF Durable(disk, local["finisher"].revision) THEN Answered("success")
        ELSE Goto("finisher", "leave") /\ UNCHANGED answer

Check == CheckFinish /\ UNCHANGED <<mem, disk, lock, prior, staged, told, faults, crashes>>

\* _leave_finish_unresolved, also without the lock but for its save.
LeaveUnresolved ==
  \/ /\ Step("leave") /\ mem' = [mem EXCEPT !.results = FALSE, !.status = "running"]
     /\ Goto("finisher", "leave_save") /\ UNCHANGED <<disk, lock, local, faults, books>>
  \/ Step("leave_save") /\ Project("finisher", "none", "leave_record", "left") /\ UNCHANGED books
  \/ /\ Step("leave_record") /\ Record("finisher", "none", "left", "left") /\ lock' = "none"
     /\ UNCHANGED books
  \/ /\ Step("left") /\ Answered("none")
     /\ UNCHANGED <<mem, disk, lock, local, prior, staged, told, faults, crashes>>

\* cleanup, when the user leaves the interface.
Stop ==
  \/ /\ at["ui"] = "idle" /\ mem.status # "stopped"
     /\ Project("ui", "stopped", "stop_record", "idle") /\ UNCHANGED books
  \/ /\ at["ui"] = "stop_record" /\ Record("ui", "stopped", "idle", "idle") /\ lock' = "none"
     /\ UNCHANGED books

\* The process dies and the scan is resumed: hydrate_from_run_dir refuses files that do
\* not fit the manifest. Then set_scan_config starts the record anew.
Dies(d) ==
  /\ Alive /\ crashes < MaxCrashes /\ crashes' = crashes + 1
  /\ disk' = [d EXCEPT !.torn = FALSE] /\ lock' = "none" /\ answer' = "none"
  /\ prior' = NoOperation /\ staged' = NotStaged /\ local' = [t \in Threads |-> NoSave]
  /\ IF d.sound
       THEN /\ mem' = [FreshMemory EXCEPT !.findings = d.findings, !.revision = d.revision + 1,
                                          !.persisted = d.revision, !.recorded = d.revision]
            /\ at' = [t \in Threads |-> IF t = "loop" THEN "resumed" ELSE "idle"]
       ELSE at' = [t \in Threads |-> IF t = "loop" THEN "refused" ELSE "idle"] /\ UNCHANGED mem
  /\ UNCHANGED <<told, faults>>

Crash == Dies(disk)

\* A signal handler runs in the loop's thread, wherever that is, and may enter the lock
\* again; it stores the interruption and exits.
Interrupt ==
  /\ lock \in {"none", "loop"}
  /\ Dies([findings |-> IF mem.revision = mem.persisted THEN disk.findings ELSE mem.findings,
           sound |-> TRUE, status |-> Settled(mem.status, "interrupted"), results |-> mem.results,
           revision |-> mem.revision, torn |-> FALSE])

-----------------------------------------------------------------------------
Act ==
  \/ SaveUsage \/ SaveFinding \/ Unfile \/ Stage \/ Commit \/ TakeOver \/ SaveRevision \/ Unrevise
  \/ \E f \in Findings : StartFiling(f) \/ File(f) \/ Revise(f)
  \/ StartFinish \/ SaveFinish \/ Check \/ LeaveUnresolved
  \/ Stop \/ Crash \/ Interrupt

\* The rollback of a change goes on.
RollsBack ==
  /\ at["loop"] \in {"unfiling", "unrevising", "unfiled", "unrevised"}
  /\ at'["loop"] \in {"unfiled", "unrevised", "idle"} /\ at'["loop"] # at["loop"]

\* A change may begin within another thread's save; one that fails counts as well.
Overlaps ==
  IF Changing THEN overlap \/ (at'["loop"] = at["loop"] /\ <<mem, disk, lock, faults>>' # <<mem, disk, lock, faults>>)
              ELSE lock \notin {"none", "loop"}

Watch ==
  /\ overlap' = (Changing' /\ Overlaps)
  /\ undone' = (undone \/ (RollsBack /\ overlap))

Next == Act /\ Watch

Spec == Init /\ [][Next]_vars

-----------------------------------------------------------------------------
\* What finish_scan reported as finished is finished on disk, with its results, as long
\* as the process lives and no rollback took back what another thread had done.
SuccessIsDurable == ~undone /\ answer = "success" => disk.status = "completed" /\ disk.results

\* When nobody is writing, projections that are taken for current, and will not be
\* written again before the next revision, are: after failures, rollbacks and restarts.
Quiet == Alive /\ \A t \in Threads : at[t] = "idle"
NeverOlder ==
  Quiet /\ mem.revision = mem.persisted /\ ~disk.torn => disk.findings = mem.findings

\* So they are, however the threads interleave, until a rollback takes back what another
\* thread had done.
CurrentProjections == ~undone => NeverOlder

\* While an operation is under way its findings are those it would roll back to.
Stored == IF Changing THEN prior.mem.findings ELSE mem.findings

Promise == INSTANCE FindingStore WITH store <- Stored

\* The report implements the promise of its artifacts, until then.
KeepsFindings == Promise!Init /\ [][~undone' => Promise!Next]_<<Stored, told>>
=============================================================================
