------------------------------ MODULE FileScan ------------------------------
(***************************************************************************)
(* One uploaded object from tusd's post-finish hook to its verdict         *)
(* (apps/api/src/webhooks/tusd.webhook.ts, queues/file-scan.queue.ts,      *)
(* workers/file-scan.worker.ts and the owner's delete of                   *)
(* services/file.service.ts), with virus scanning enabled.                 *)
(*                                                                         *)
(* Row, job and object live in three systems that no transaction spans:    *)
(* PostgreSQL, BullMQ and S3.  tusd repeats a hook it got no answer to.    *)
(* BullMQ runs a job again when it failed or when its worker has let the   *)
(* lock expire -- because it died, or was only slow and goes on.           *)
(***************************************************************************)
EXTENDS Integers, FiniteSets

CONSTANTS
  Files,       \* rows of files that may be created for the object
  Hooks,       \* deliveries of the post-finish hook
  Workers,     \* slots of file-scan workers (concurrency: 5)
  Attempts,    \* attempts of a job that fails (3 in the code)
  MaxStalls,   \* times BullMQ takes a stalled job up again (1, its default)
  MaxFaults    \* bound: errors, deaths, expired locks, failing commits

ASSUME FileScanAssumption ==
  /\ Attempts \in Nat \ {0}
  /\ MaxStalls \in Nat
  /\ MaxFaults \in Nat

NoFile == "no file"
NoWorker == "no worker"

ScanStatuses == {"PENDING", "SCANNING", "CLEAN", "INFECTED", "FAILED"}

VARIABLES
  infected,   \* what ClamAV will say of the object
  quarantine, \* is the object in the quarantine bucket
  clean,      \* is the object in the submissions bucket
  row,        \* scan_status per file; "none" before the insert, "gone" after
              \* a delete
  hook,       \* per delivery: what the hook does next, for which file
  job,        \* per file: state of the job of this id, its worker, attempts
              \* made and stalls
  run,        \* per worker: what the run does next, for which file
  del,        \* the owner's delete: what it does next, file, status read
  faults

vars == <<infected, quarantine, clean, row, hook, job, run, del, faults>>

object == <<infected, quarantine, clean>>

NoJob == [state |-> "none", by |-> NoWorker, made |-> 0, stalls |-> 0]
NoRun == [pc |-> "idle", file |-> NoFile]
NoDelete == [pc |-> "idle", file |-> NoFile, seen |-> "none"]

Exists(f) == row[f] \in ScanStatuses

(* The delete holds the row's lock until its transaction ends.             *)
Unlocked(f) == ~ (del.pc = "commit" /\ del.file = f)

Fault == faults < MaxFaults /\ faults' = faults + 1

Init ==
  /\ infected \in BOOLEAN /\ quarantine = TRUE /\ clean = FALSE
  /\ row = [f \in Files |-> "none"]
  /\ hook = [h \in Hooks |-> [pc |-> "find", file |-> NoFile]]
  /\ job = [f \in Files |-> NoJob]
  /\ run = [w \in Workers |-> NoRun]
  /\ del = NoDelete /\ faults = 0

-----------------------------------------------------------------------------
(* handlePostFinish.                                                       *)

(* getByStorageKey: no row, any row still PENDING, or nothing to do.       *)
HookFinds(h) ==
  /\ hook[h].pc = "find"
  /\ \/ /\ \A f \in Files : ~ Exists(f)
        /\ hook' = [hook EXCEPT ![h].pc = "insert"]
     \/ \E f \in Files :
          /\ Exists(f)
          /\ hook' = [hook EXCEPT ![h] =
               IF row[f] = "PENDING" THEN [pc |-> "enqueue", file |-> f]
                                     ELSE [pc |-> "done", file |-> NoFile]]
  /\ UNCHANGED <<object, row, job, run, del, faults>>

(* storage_key is not unique: a hook that found no row inserts one.        *)
HookInserts(h, f) ==
  /\ hook[h].pc = "insert" /\ row[f] = "none"
  /\ row' = [row EXCEPT ![f] = "PENDING"]
  /\ hook' = [hook EXCEPT ![h] = [pc |-> "enqueue", file |-> f]]
  /\ UNCHANGED <<object, job, run, del, faults>>

(* enqueueFileScan after the commit; add ignores an id BullMQ knows.       *)
HookEnqueues(h) ==
  LET f == hook[h].file
  IN  /\ hook[h].pc = "enqueue"
      /\ job' = IF job[f].state = "none" THEN [job EXCEPT ![f].state = "waiting"]
                                         ELSE job
      /\ hook' = [hook EXCEPT ![h] = [pc |-> "done", file |-> NoFile]]
      /\ UNCHANGED <<object, row, run, del, faults>>

HookFails(h) ==
  /\ hook[h].pc # "done" /\ Fault
  /\ hook' = [hook EXCEPT ![h] = [pc |-> "done", file |-> NoFile]]
  /\ UNCHANGED <<object, row, job, run, del>>

-----------------------------------------------------------------------------
(* BullMQ.                                                                 *)

TakeJob(w, f) ==
  /\ run[w] = NoRun /\ job[f].state = "waiting"
  /\ run' = [run EXCEPT ![w] = [pc |-> "mark", file |-> f]]
  /\ job' = [job EXCEPT ![f].state = "active", ![f].by = w]
  /\ UNCHANGED <<object, row, hook, del, faults>>

(* The worker lets the lock expire: the job waits again, or is given up    *)
(* as stalled too often.  Its run, if the worker is alive, goes on.        *)
Stall(f) ==
  LET j == job[f]
      again == j.stalls < MaxStalls
  IN  /\ j.state = "active"
      /\ \/ run[j.by].file = f /\ Fault
         \/ run[j.by].file # f /\ UNCHANGED faults
      /\ job' = [job EXCEPT ![f] =
           [state |-> IF again THEN "waiting" ELSE "stalled", by |-> NoWorker,
            made |-> j.made, stalls |-> IF again THEN j.stalls + 1 ELSE j.stalls]]
      /\ UNCHANGED <<object, row, hook, run, del>>

WorkerDies(w) ==
  /\ run[w] # NoRun /\ Fault
  /\ run' = [run EXCEPT ![w] = NoRun]
  /\ UNCHANGED <<object, row, hook, job, del>>

(* The run returned or threw: BullMQ moves the job on, if the worker still *)
(* holds its lock.                                                         *)
Ends(w, thrown) ==
  LET f == run[w].file
      made == job[f].made + 1
  IN  /\ run' = [run EXCEPT ![w] = NoRun]
      /\ job' = IF ~ (job[f].state = "active" /\ job[f].by = w) THEN job
                ELSE [job EXCEPT ![f].made = made, ![f].by = NoWorker,
                                 ![f].state = IF thrown /\ made < Attempts
                                              THEN "waiting" ELSE "finished"]

-----------------------------------------------------------------------------
(* The worker's run.                                                       *)

Goto(w, pc) == run' = [run EXCEPT ![w].pc = pc]

(* updateScanStatus: UPDATE by id, whatever the row says; nothing happens  *)
(* when the row is gone.                                                   *)
SetStatus(f, to) ==
  /\ Unlocked(f)
  /\ row' = IF Exists(f) THEN [row EXCEPT ![f] = to] ELSE row

Mark(w) ==
  /\ run[w].pc = "mark"
  /\ SetStatus(run[w].file, "SCANNING")
  /\ Goto(w, "scan")
  /\ UNCHANGED <<object, hook, job, del, faults>>

(* Mutant: both kinds of objects go on to the clean bucket. *)
ScanUnread(w) ==
  /\ run[w].pc = "scan"
  /\ Goto(w, IF quarantine THEN "copy" ELSE "fail")
  /\ UNCHANGED <<object, row, hook, job, del, faults>>

(* Download from quarantine and ask ClamAV.                                *)
Scan(w) ==
  /\ run[w].pc = "scan"
  /\ Goto(w, IF ~ quarantine THEN "fail" ELSE IF infected THEN "purge" ELSE "copy")
  /\ UNCHANGED <<object, row, hook, job, del, faults>>

(* Mutant: the move is best-effort, and may have copied nothing. *)
CopyBestEffort(w) ==
  /\ run[w].pc = "copy"
  /\ (quarantine /\ clean' = TRUE) \/ UNCHANGED clean
  /\ Goto(w, "drop")
  /\ UNCHANGED <<infected, quarantine, row, hook, job, del, faults>>

(* moveBetweenBuckets copies, then deletes.                                *)
Copy(w) ==
  /\ run[w].pc = "copy"
  /\ IF quarantine THEN clean' = TRUE /\ Goto(w, "drop")
                   ELSE UNCHANGED clean /\ Goto(w, "fail")
  /\ UNCHANGED <<infected, quarantine, row, hook, job, del, faults>>

(* The delete of the move, or of an infected object.                       *)
Drop(w) ==
  /\ run[w].pc \in {"drop", "purge"}
  /\ quarantine' = FALSE
  /\ Goto(w, IF run[w].pc = "drop" THEN "record" ELSE "verdict")
  /\ UNCHANGED <<infected, clean, row, hook, job, del, faults>>

RecordClean(w) ==
  /\ run[w].pc = "record"
  /\ SetStatus(run[w].file, "CLEAN")
  /\ Goto(w, "chain")
  /\ UNCHANGED <<object, hook, job, del, faults>>

RecordInfected(w) ==
  /\ run[w].pc = "verdict"
  /\ SetStatus(run[w].file, "INFECTED")
  /\ Ends(w, FALSE)
  /\ UNCHANGED <<object, hook, del, faults>>

(* The content extraction is enqueued.                                     *)
Chain(w) ==
  /\ run[w].pc = "chain"
  /\ Ends(w, FALSE)
  /\ UNCHANGED <<object, row, hook, del, faults>>

(* Mutant: a failed attempt leaves the status alone. *)
RethrowOnly(w) ==
  /\ run[w].pc = "fail"
  /\ UNCHANGED row
  /\ Ends(w, TRUE)
  /\ UNCHANGED <<object, hook, del, faults>>

(* The catch blocks: FAILED, then rethrow.                                 *)
RecordFailed(w) ==
  /\ run[w].pc = "fail"
  /\ SetStatus(run[w].file, "FAILED")
  /\ Ends(w, TRUE)
  /\ UNCHANGED <<object, hook, del, faults>>

(* A statement throws: inside a try block the catch runs next; marking and *)
(* the catch itself throw out of the run.                                  *)
StatementFails(w) ==
  /\ run[w] # NoRun /\ Fault
  /\ IF run[w].pc \in {"mark", "fail"} THEN Ends(w, TRUE)
                                       ELSE Goto(w, "fail") /\ UNCHANGED job
  /\ UNCHANGED <<object, row, hook, del>>

-----------------------------------------------------------------------------
(* deleteAsOwner.                                                          *)

DeleteReads(f) ==
  /\ del = NoDelete /\ Exists(f)
  /\ del' = [pc |-> "remove", file |-> f, seen |-> row[f]]
  /\ UNCHANGED <<object, row, hook, job, run, faults>>

(* DELETE locks the row; then the object goes from the bucket the status   *)
(* read before points to, unless S3 fails, which is swallowed.             *)
DeleteRemoves ==
  /\ del.pc = "remove"
  /\ del' = [del EXCEPT !.pc = "commit"]
  /\ \/ /\ clean' = (clean /\ del.seen # "CLEAN")
        /\ quarantine' = (quarantine /\ del.seen = "CLEAN")
        /\ UNCHANGED faults
     \/ Fault /\ UNCHANGED <<quarantine, clean>>
  /\ UNCHANGED <<infected, row, hook, job, run>>

DeleteCommits ==
  /\ del.pc = "commit"
  /\ row' = [row EXCEPT ![del.file] = "gone"]
  /\ del' = NoDelete
  /\ UNCHANGED <<object, hook, job, run, faults>>

(* The connection breaks: the row is back, the object is not.  (Nobody     *)
(* deletes after that.)                                                    *)
DeleteFails ==
  /\ del.pc \in {"remove", "commit"} /\ Fault
  /\ del' = [del EXCEPT !.pc = "broken"]
  /\ UNCHANGED <<object, row, hook, job, run>>

-----------------------------------------------------------------------------
HookStep(h) ==
  HookFinds(h) \/ (\E f \in Files : HookInserts(h, f)) \/ HookEnqueues(h)

RunStep(w) ==
  \/ Mark(w) \/ Scan(w) \/ Copy(w) \/ Drop(w) \/ RecordClean(w)
  \/ RecordInfected(w) \/ Chain(w) \/ RecordFailed(w)

QueueStep == \E f \in Files : Stall(f) \/ \E w \in Workers : TakeJob(w, f)

DeleteStep == (\E f \in Files : DeleteReads(f)) \/ DeleteRemoves \/ DeleteCommits

FaultStep ==
  \/ \E h \in Hooks : HookFails(h)
  \/ \E w \in Workers : WorkerDies(w) \/ StatementFails(w)
  \/ DeleteFails

Next ==
  \/ \E h \in Hooks : HookStep(h)
  \/ QueueStep
  \/ \E w \in Workers : RunStep(w)
  \/ DeleteStep
  \/ FaultStep

Spec == Init /\ [][Next]_vars

(* Workers take waiting jobs and run on, BullMQ finds the jobs of dead     *)
(* workers, and a delete that has begun ends.                              *)
Fairness ==
  /\ \A w \in Workers : WF_vars(RunStep(w))
  /\ \A f \in Files : WF_vars(\E w \in Workers : TakeJob(w, f))
  /\ \A f \in Files :
       WF_vars(job[f].state = "active" /\ run[job[f].by].file # f /\ Stall(f))
  /\ WF_vars(DeleteRemoves \/ DeleteCommits)

FairSpec == Spec /\ Fairness

-----------------------------------------------------------------------------
(* Properties                                                              *)

TypeOK ==
  /\ infected \in BOOLEAN /\ quarantine \in BOOLEAN /\ clean \in BOOLEAN
  /\ row \in [Files -> ScanStatuses \cup {"none", "gone"}]
  /\ hook \in [Hooks -> [pc : {"find", "insert", "enqueue", "done"},
                         file : Files \cup {NoFile}]]
  /\ job \in [Files -> [state : {"none", "waiting", "active", "finished", "stalled"},
                        by : Workers \cup {NoWorker},
                        made : 0..Attempts, stalls : 0..MaxStalls]]
  /\ run \in [Workers -> [pc : {"idle", "mark", "scan", "copy", "drop", "record",
                                "chain", "purge", "verdict", "fail"},
                          file : Files \cup {NoFile}]]
  /\ del \in [pc : {"idle", "remove", "commit", "broken"}, file : Files \cup {NoFile},
              seen : ScanStatuses \cup {"none"}]
  /\ faults \in 0..MaxFaults

(* An infected object never leaves quarantine but to be deleted, and no    *)
(* row ever calls it clean: not when runs of a stalled job overlap, not    *)
(* when the hook has made two files of it.                                 *)
InfectedContained == infected => ~ clean /\ \A f \in Files : row[f] # "CLEAN"

(* A file that is CLEAN can be downloaded: its object is in the bucket the *)
(* download looks in, unless the owner has deleted a file of this object   *)
(* or is about to.                                                         *)
CleanDownloadable ==
  \A f \in Files :
    /\ row[f] = "CLEAN"
    /\ del.pc \notin {"commit", "broken"} /\ \A g \in Files : row[g] # "gone"
    => clean

(* An enqueued scan comes to a verdict, FAILED included, whatever dies or  *)
(* stalls, unless BullMQ gives it up as stalled too often.                 *)
ScanSettles ==
  \A f \in Files :
    (row[f] = "PENDING" /\ job[f].state = "waiting")
      ~> (row[f] \in {"CLEAN", "INFECTED", "FAILED", "gone"} \/ job[f].state = "stalled")
=============================================================================
