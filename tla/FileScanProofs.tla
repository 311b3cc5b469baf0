--------------------------- MODULE FileScanProofs ---------------------------
(***************************************************************************)
(* Proofs about FileScan, for any number of files, hook deliveries,        *)
(* workers, attempts, stalls and faults: an infected object never leaves   *)
(* quarantine and no file of it is ever CLEAN; an object whose file is     *)
(* CLEAN can be downloaded; every state is well typed.                     *)
(***************************************************************************)
EXTENDS FileScan, TLAPS

(* The stages of a run that end with CLEAN.                                *)
Clearing == {"copy", "drop", "record", "chain"}

(* What InfectedContained rests on: nobody is about to clear the object.   *)
Contained ==
  infected =>
    /\ ~ clean
    /\ \A f \in Files : row[f] # "CLEAN"
    /\ \A w \in Workers : run[w].pc \notin Clearing

Stages == {"idle", "mark", "scan", "copy", "drop", "record", "chain", "purge",
           "verdict", "fail"}

RowStates == ScanStatuses \cup {"none", "gone"}

Runs == [Workers -> [pc : Stages, file : Files \cup {NoFile}]]

(* Enough types for Contained.                                             *)
Shapes ==
  /\ row \in [Files -> RowStates]
  /\ run \in Runs

LEMMA GotoRuns ==
  ASSUME run \in Runs, NEW w \in Workers, NEW pc \in Stages, Goto(w, pc)
  PROVE  /\ run' \in Runs
         /\ run'[w].pc = pc
         /\ \A v \in Workers : v # w => run'[v] = run[v]
  BY DEF Goto, Runs

LEMMA EndRuns ==
  ASSUME run \in Runs, NEW w \in Workers, run' = [run EXCEPT ![w] = NoRun]
  PROVE  /\ run' \in Runs
         /\ run'[w].pc = "idle"
         /\ \A v \in Workers : v # w => run'[v] = run[v]
  BY DEF NoRun, Runs, Stages

LEMMA RowsSet ==
  ASSUME row \in [Files -> RowStates], NEW f, NEW to \in RowStates, SetStatus(f, to)
  PROVE  /\ row' \in [Files -> RowStates]
         /\ \A g \in Files : row'[g] \in {row[g], to}
  BY DEF SetStatus

LEMMA ShapesStep ==
  ASSUME Shapes, [Next]_vars
  PROVE  Shapes'
<1> USE DEF Shapes
<1>a. /\ Stages = {"idle", "mark", "scan", "copy", "drop", "record", "chain",
                   "purge", "verdict", "fail"}
      /\ {"PENDING", "SCANNING", "CLEAN", "INFECTED", "FAILED", "gone"}
           \subseteq RowStates
  BY DEF Stages, RowStates, ScanStatuses
<1>1. CASE UNCHANGED <<row, run>>
  BY <1>1
<1>2. ASSUME NEW w \in Workers, NEW f \in Files, TakeJob(w, f) PROVE Shapes'
  BY <1>2, <1>a DEF TakeJob, Runs
<1>3. ASSUME NEW w \in Workers, WorkerDies(w) \/ Chain(w) PROVE Shapes'
  BY <1>3, EndRuns DEF WorkerDies, Chain, Ends
<1>4. ASSUME NEW w \in Workers, RecordInfected(w) PROVE Shapes'
  BY <1>4, <1>a, EndRuns, RowsSet DEF RecordInfected, Ends
<1>5. ASSUME NEW w \in Workers, RecordFailed(w) PROVE Shapes'
  BY <1>5, <1>a, EndRuns, RowsSet DEF RecordFailed, Ends
<1>6. ASSUME NEW w \in Workers, StatementFails(w) PROVE Shapes'
  BY <1>6, <1>a, GotoRuns, EndRuns DEF StatementFails, Ends
<1>7. ASSUME NEW w \in Workers, Mark(w) PROVE Shapes'
  BY <1>7, <1>a, GotoRuns, RowsSet DEF Mark
<1>8. ASSUME NEW w \in Workers, Scan(w) PROVE Shapes'
  <2>1. PICK pc \in Stages : Goto(w, pc)
    BY <1>8, <1>a DEF Scan
  <2> QED  BY <1>8, <2>1, GotoRuns DEF Scan
<1>9. ASSUME NEW w \in Workers, Copy(w) PROVE Shapes'
  BY <1>9, <1>a, GotoRuns DEF Copy
<1>10. ASSUME NEW w \in Workers, Drop(w) PROVE Shapes'
  <2>1. PICK pc \in Stages : Goto(w, pc)
    BY <1>10, <1>a DEF Drop
  <2> QED  BY <1>10, <2>1, GotoRuns DEF Drop
<1>11. ASSUME NEW w \in Workers, RecordClean(w) PROVE Shapes'
  BY <1>11, <1>a, GotoRuns, RowsSet DEF RecordClean
<1>12. ASSUME NEW h \in Hooks, HookStep(h) PROVE Shapes'
  BY <1>12, <1>a DEF HookStep, HookFinds, HookInserts, HookEnqueues
<1>13. CASE DeleteStep \/ DeleteFails
  BY <1>13, <1>a DEF DeleteStep, DeleteReads, DeleteRemoves, DeleteCommits, DeleteFails
<1> QED
  BY <1>1, <1>2, <1>3, <1>4, <1>5, <1>6, <1>7, <1>8, <1>9, <1>10, <1>11, <1>12, <1>13
     DEF Next, QueueStep, RunStep, FaultStep, HookFails, Stall, vars

(* A run in the middle of a clearing stage started it as a scan that found *)
(* the object clean, and what ClamAV says of an object does not change.    *)
LEMMA ContainedStep ==
  ASSUME Shapes, Contained, [Next]_vars
  PROVE  Contained'
<1> SUFFICES ASSUME infected, infected' = infected PROVE Contained'
  <2>1. infected' = infected
    BY DEF Next, HookStep, QueueStep, RunStep, DeleteStep, FaultStep, HookFinds,
           HookInserts, HookEnqueues, HookFails, TakeJob, Stall, WorkerDies, Mark,
           Scan, Copy, Drop, RecordClean, RecordInfected, Chain, RecordFailed,
           StatementFails, DeleteReads, DeleteRemoves, DeleteCommits, DeleteFails,
           vars, object
  <2> QED  BY <2>1 DEF Contained
<1> USE DEF Shapes, Contained, Clearing
<1>a. /\ Stages = {"idle", "mark", "scan", "copy", "drop", "record", "chain",
                   "purge", "verdict", "fail"}
      /\ {"SCANNING", "INFECTED", "FAILED"} \subseteq RowStates
  BY DEF Stages, RowStates, ScanStatuses
<1>1. CASE UNCHANGED <<row, run, clean>>
  BY <1>1
<1>2. ASSUME NEW w \in Workers, NEW f \in Files, TakeJob(w, f) PROVE Contained'
  BY <1>2 DEF TakeJob, object, Runs
<1>3. ASSUME NEW w \in Workers, WorkerDies(w) \/ Chain(w) PROVE Contained'
  BY <1>3, EndRuns DEF WorkerDies, Chain, Ends, object
<1>4. ASSUME NEW w \in Workers, RecordInfected(w) PROVE Contained'
  <2>1. \A f \in Files : row'[f] \in {row[f], "INFECTED"}
    BY <1>4, <1>a, RowsSet DEF RecordInfected
  <2> QED  BY <1>4, <2>1, EndRuns DEF RecordInfected, Ends, object
<1>5. ASSUME NEW w \in Workers, RecordFailed(w) PROVE Contained'
  <2>1. \A f \in Files : row'[f] \in {row[f], "FAILED"}
    BY <1>5, <1>a, RowsSet DEF RecordFailed
  <2> QED  BY <1>5, <2>1, EndRuns DEF RecordFailed, Ends, object
<1>6. ASSUME NEW w \in Workers, StatementFails(w) PROVE Contained'
  BY <1>6, <1>a, GotoRuns, EndRuns DEF StatementFails, Ends, object
<1>7. ASSUME NEW w \in Workers, Mark(w) PROVE Contained'
  <2>1. \A f \in Files : row'[f] \in {row[f], "SCANNING"}
    BY <1>7, <1>a, RowsSet DEF Mark
  <2> QED  BY <1>7, <1>a, <2>1, GotoRuns DEF Mark, object
<1>8. ASSUME NEW w \in Workers, Scan(w) PROVE Contained'
  <2>1. PICK pc \in {"fail", "purge"} : Goto(w, pc)
    BY <1>8 DEF Scan
  <2> QED  BY <1>8, <1>a, <2>1, GotoRuns DEF Scan, object
<1>9. ASSUME NEW w \in Workers, Drop(w) PROVE Contained'
  <2>1. Goto(w, "verdict")
    BY <1>9 DEF Drop
  <2> QED  BY <1>9, <1>a, <2>1, GotoRuns DEF Drop
<1>10. ASSUME NEW w \in Workers, Copy(w) \/ RecordClean(w) PROVE Contained'
  BY <1>10 DEF Copy, RecordClean
<1>11. ASSUME NEW h \in Hooks, HookStep(h) PROVE Contained'
  BY <1>11 DEF HookStep, HookFinds, HookInserts, HookEnqueues, object
<1>12. CASE DeleteStep \/ DeleteFails
  BY <1>12 DEF DeleteStep, DeleteReads, DeleteRemoves, DeleteCommits, DeleteFails, object
<1> QED
  BY <1>1, <1>2, <1>3, <1>4, <1>5, <1>6, <1>7, <1>8, <1>9, <1>10, <1>11, <1>12
     DEF Next, QueueStep, RunStep, FaultStep, HookFails, Stall, vars, object

(* An infected object is never in the clean bucket and none of its files   *)
(* is ever CLEAN, although runs of a stalled job overlap, hooks repeat and *)
(* any statement may fail.                                                 *)
THEOREM InfectionContained == Spec => []InfectedContained
<1>1. Init => Shapes /\ Contained
  BY DEF Init, Shapes, Contained, Clearing, NoRun, Runs, Stages, RowStates
<1>2. Contained => InfectedContained
  BY DEF Contained, InfectedContained
<1>3. Shapes /\ Contained /\ [Next]_vars => Shapes' /\ Contained'
  BY ShapesStep, ContainedStep
<1> QED  BY <1>1, <1>2, <1>3, PTL DEF Spec

-----------------------------------------------------------------------------
(* What CleanDownloadable rests on: as long as no delete of the owner has  *)
(* come to its transaction, the object of a CLEAN row, and of a run that   *)
(* has copied it, is in the clean bucket.                                  *)
Untouched ==
  /\ del.pc \notin {"commit", "broken"}
  /\ \A f \in Files : row[f] # "gone"

Copied == {"drop", "record", "chain"}

Downloadable ==
  Untouched =>
    /\ \A f \in Files : row[f] = "CLEAN" => clean
    /\ \A w \in Workers : run[w].pc \in Copied => clean

Deletes == [pc : {"idle", "remove", "commit", "broken"}, file : Files \cup {NoFile},
            seen : ScanStatuses \cup {"none"}]

DeleteShapes ==
  /\ del \in Deletes
  /\ del.pc # "idle" => del.file \in Files

LEMMA DeleteShapesStep ==
  ASSUME Shapes, DeleteShapes, [Next]_vars
  PROVE  DeleteShapes'
<1> USE DEF Shapes, DeleteShapes, Deletes
<1>1. CASE UNCHANGED del
  BY <1>1
<1>2. ASSUME NEW f \in Files, DeleteReads(f) PROVE DeleteShapes'
  BY <1>2 DEF DeleteReads, Exists
<1>3. CASE DeleteRemoves
  BY <1>3 DEF DeleteRemoves
<1>4. CASE DeleteCommits
  BY <1>4 DEF DeleteCommits, NoDelete
<1>5. CASE DeleteFails
  BY <1>5 DEF DeleteFails
<1> QED
  BY <1>1, <1>2, <1>3, <1>4, <1>5
     DEF Next, HookStep, QueueStep, RunStep, DeleteStep, FaultStep, HookFinds,
         HookInserts, HookEnqueues, HookFails, TakeJob, Stall, WorkerDies, Mark,
         Scan, Copy, Drop, RecordClean, RecordInfected, Chain, RecordFailed,
         StatementFails, vars

(* Only a statement of the owner's delete touches the object of the clean  *)
(* bucket, and with the next one the delete is in its transaction.         *)
LEMMA UntouchedBefore ==
  ASSUME Shapes, DeleteShapes, [Next]_vars, Untouched'
  PROVE  /\ Untouched
         /\ clean => clean'
<1> USE DEF Shapes, DeleteShapes, Deletes, Untouched
<1>a. \A f \in Files : row[f] # "none" /\ ~ Exists(f) => row[f] = "gone"
  BY DEF Exists, RowStates
<1>1. CASE UNCHANGED <<row, del>> /\ (clean => clean')
  BY <1>1
<1>2. ASSUME NEW w \in Workers, NEW to, SetStatus(run[w].file, to),
             UNCHANGED <<clean, del>>
      PROVE  Untouched /\ (clean => clean')
  <2>1. \A f \in Files : row[f] = "gone" => row'[f] = "gone"
    BY <1>2 DEF SetStatus, Exists, ScanStatuses
  <2> QED  BY <1>2, <2>1
<1>3. ASSUME NEW h \in Hooks, NEW f \in Files, HookInserts(h, f)
      PROVE  Untouched /\ (clean => clean')
  BY <1>3 DEF HookInserts, object
<1>4. ASSUME NEW f \in Files, DeleteReads(f) PROVE Untouched /\ (clean => clean')
  BY <1>4 DEF DeleteReads, NoDelete, object
<1>5. CASE DeleteRemoves \/ DeleteCommits \/ DeleteFails
  BY <1>5 DEF DeleteRemoves, DeleteCommits, DeleteFails, NoDelete
<1>6. ASSUME NEW w \in Workers, Mark(w) \/ RecordClean(w) \/ RecordInfected(w) \/ RecordFailed(w)
      PROVE  Untouched /\ (clean => clean')
  <2>1. PICK to : SetStatus(run[w].file, to)
    BY <1>6 DEF Mark, RecordClean, RecordInfected, RecordFailed
  <2>2. UNCHANGED <<clean, del>>
    BY <1>6 DEF Mark, RecordClean, RecordInfected, RecordFailed, object
  <2> QED  BY <2>1, <2>2, <1>2
<1>7. ASSUME NEW w \in Workers,
             \/ Scan(w) \/ Copy(w) \/ Drop(w) \/ Chain(w) \/ WorkerDies(w)
             \/ StatementFails(w)
      PROVE  Untouched /\ (clean => clean')
  BY <1>1, <1>7 DEF Scan, Copy, Drop, Chain, WorkerDies, StatementFails, object
<1>8. ASSUME NEW h \in Hooks, HookFinds(h) \/ HookEnqueues(h) \/ HookFails(h)
      PROVE  Untouched /\ (clean => clean')
  <2>1. UNCHANGED <<row, del, clean>>
    BY <1>8 DEF HookFinds, HookEnqueues, HookFails, object
  <2> QED  BY <1>1, <2>1
<1>9. CASE QueueStep \/ UNCHANGED vars
  <2>1. UNCHANGED <<row, del, clean>>
    <3>1. ASSUME NEW f \in Files, Stall(f) PROVE UNCHANGED <<row, del, clean>>
      BY <3>1 DEF Stall, object
    <3>2. ASSUME NEW f \in Files, NEW w \in Workers, TakeJob(w, f)
          PROVE  UNCHANGED <<row, del, clean>>
      BY <3>2 DEF TakeJob, object
    <3> QED  BY <1>9, <3>1, <3>2 DEF QueueStep, vars
  <2> QED  BY <1>1, <2>1
<1> QED
  BY <1>3, <1>4, <1>5, <1>6, <1>7, <1>8, <1>9
     DEF Next, HookStep, RunStep, DeleteStep, FaultStep

LEMMA DownloadableStep ==
  ASSUME Shapes, DeleteShapes, Downloadable, [Next]_vars
  PROVE  Downloadable'
<1> SUFFICES ASSUME Untouched', Untouched, clean => clean',
                    \A f \in Files : row[f] = "CLEAN" => clean,
                    \A w \in Workers : run[w].pc \in Copied => clean
             PROVE  /\ \A f \in Files : row'[f] = "CLEAN" => clean'
                    /\ \A w \in Workers : run'[w].pc \in Copied => clean'
  BY UntouchedBefore DEF Downloadable
<1> DEFINE Goal == /\ \A f \in Files : row'[f] = "CLEAN" => clean'
                   /\ \A w \in Workers : run'[w].pc \in Copied => clean'
<1> USE DEF Shapes, Copied
<1>a. /\ Stages = {"idle", "mark", "scan", "copy", "drop", "record", "chain",
                   "purge", "verdict", "fail"}
      /\ {"SCANNING", "CLEAN", "INFECTED", "FAILED"} \subseteq RowStates
  BY DEF Stages, RowStates, ScanStatuses
<1>1. CASE UNCHANGED <<row, run>>
  BY <1>1
<1>2. ASSUME NEW w \in Workers, NEW f \in Files, TakeJob(w, f) PROVE Goal
  BY <1>2 DEF TakeJob, object, Runs
<1>3. ASSUME NEW w \in Workers, WorkerDies(w) \/ Chain(w) PROVE Goal
  BY <1>3, EndRuns DEF WorkerDies, Chain, Ends, object
<1>4. ASSUME NEW w \in Workers, RecordInfected(w) PROVE Goal
  <2>1. \A f \in Files : row'[f] \in {row[f], "INFECTED"}
    BY <1>4, <1>a, RowsSet DEF RecordInfected
  <2> QED  BY <1>4, <2>1, EndRuns DEF RecordInfected, Ends, object
<1>5. ASSUME NEW w \in Workers, RecordFailed(w) PROVE Goal
  <2>1. \A f \in Files : row'[f] \in {row[f], "FAILED"}
    BY <1>5, <1>a, RowsSet DEF RecordFailed
  <2> QED  BY <1>5, <2>1, EndRuns DEF RecordFailed, Ends, object
<1>6. ASSUME NEW w \in Workers, StatementFails(w) PROVE Goal
  BY <1>6, <1>a, GotoRuns, EndRuns DEF StatementFails, Ends, object
<1>7. ASSUME NEW w \in Workers, Mark(w) PROVE Goal
  <2>1. \A f \in Files : row'[f] \in {row[f], "SCANNING"}
    BY <1>7, <1>a, RowsSet DEF Mark
  <2> QED  BY <1>7, <1>a, <2>1, GotoRuns DEF Mark, object
<1>8. ASSUME NEW w \in Workers, Scan(w) PROVE Goal
  <2>1. PICK pc \in {"fail", "purge", "copy"} : Goto(w, pc)
    BY <1>8 DEF Scan
  <2> QED  BY <1>8, <1>a, <2>1, GotoRuns DEF Scan, object
<1>9. ASSUME NEW w \in Workers, Copy(w) PROVE Goal
  <2>1. CASE clean'
    BY <2>1
  <2>2. CASE Goto(w, "fail")
    BY <1>9, <1>a, <2>2, GotoRuns DEF Copy
  <2> QED  BY <1>9, <2>1, <2>2 DEF Copy
<1>10. ASSUME NEW w \in Workers, Drop(w) PROVE Goal
  <2>1. CASE run[w].pc = "drop"
    BY <1>10, <2>1 DEF Drop
  <2>2. CASE Goto(w, "verdict")
    BY <1>10, <1>a, <2>2, GotoRuns DEF Drop
  <2> QED  BY <1>10, <2>1, <2>2 DEF Drop
<1>11. ASSUME NEW w \in Workers, RecordClean(w) PROVE Goal
  BY <1>11 DEF RecordClean
<1>12. ASSUME NEW h \in Hooks, HookStep(h) PROVE Goal
  BY <1>12 DEF HookStep, HookFinds, HookInserts, HookEnqueues, object
<1>13. CASE DeleteStep \/ DeleteFails
  BY <1>13 DEF DeleteStep, DeleteReads, DeleteRemoves, DeleteCommits, DeleteFails,
               object, Untouched
<1> QED
  BY <1>1, <1>2, <1>3, <1>4, <1>5, <1>6, <1>7, <1>8, <1>9, <1>10, <1>11, <1>12, <1>13
     DEF Next, QueueStep, RunStep, FaultStep, HookFails, Stall, vars

(* A file that is CLEAN can be downloaded until its owner deletes a file   *)
(* of the object: overlapping runs, repeated hooks and failing statements  *)
(* never leave a CLEAN row without its object.                             *)
THEOREM CleanIsThere == Spec => []CleanDownloadable
<1>1. Init => Shapes /\ DeleteShapes /\ Downloadable
  BY DEF Init, Shapes, Downloadable, Copied, NoRun, Runs, Stages, RowStates,
         DeleteShapes, Deletes, NoDelete
<1>2. Downloadable => CleanDownloadable
  BY DEF Downloadable, Untouched, CleanDownloadable
<1>3. Shapes /\ DeleteShapes /\ Downloadable /\ [Next]_vars
        => Shapes' /\ DeleteShapes' /\ Downloadable'
  BY ShapesStep, DeleteShapesStep, DownloadableStep
<1> QED  BY <1>1, <1>2, <1>3, PTL DEF Spec

-----------------------------------------------------------------------------
(* Types.  A job keeps within its attempts because one that has used them  *)
(* up is not put back to wait.                                             *)
JobStates == {"none", "waiting", "active", "finished", "stalled"}

Jobs == [Files -> [state : JobStates, by : Workers \cup {NoWorker},
                   made : 0..Attempts, stalls : 0..MaxStalls]]

JobShapes ==
  /\ job \in Jobs
  /\ \A f \in Files : job[f].state \in {"none", "waiting", "active"}
                        => job[f].made < Attempts

OtherShapes ==
  /\ infected \in BOOLEAN /\ quarantine \in BOOLEAN /\ clean \in BOOLEAN
  /\ hook \in [Hooks -> [pc : {"find", "insert", "enqueue", "done"},
                         file : Files \cup {NoFile}]]
  /\ faults \in 0..MaxFaults

LEMMA JobEnds ==
  ASSUME JobShapes, NEW w \in Workers, NEW thrown \in BOOLEAN, Ends(w, thrown)
  PROVE  JobShapes'
<1> DEFINE g == run[w].file
           made == job[g].made + 1
           state == IF thrown /\ made < Attempts THEN "waiting" ELSE "finished"
<1>1. CASE job' = job
  BY <1>1 DEF JobShapes, Jobs
<1>2. CASE job[g].state = "active" /\ g \in Files /\ job' # job
  <2>1. job[g] \in [state : JobStates, by : Workers \cup {NoWorker},
                    made : 0..Attempts, stalls : 0..MaxStalls]
    BY <1>2 DEF JobShapes, Jobs
  <2>2. job' = [job EXCEPT ![g].made = made, ![g].by = NoWorker, ![g].state = state]
    BY <1>2 DEF Ends
  <2>3. /\ job'[g] = [state |-> state, by |-> NoWorker, made |-> made,
                      stalls |-> job[g].stalls]
        /\ \A f \in Files : f # g => job'[f] = job[f]
        /\ DOMAIN job' = Files
    BY <1>2, <2>1, <2>2 DEF JobShapes, Jobs
  <2>4. made \in 0..Attempts /\ (state = "waiting" => made < Attempts)
    BY <1>2, <2>1, FileScanAssumption DEF JobShapes
  <2>5. /\ job'[g] \in [state : JobStates, by : Workers \cup {NoWorker},
                         made : 0..Attempts, stalls : 0..MaxStalls]
        /\ job'[g].state \in {"none", "waiting", "active"} => job'[g].made < Attempts
    BY <2>1, <2>3, <2>4 DEF JobStates
  <2> QED  BY <2>2, <2>3, <2>5 DEF JobShapes, Jobs
<1>3. CASE g \notin Files
  BY <1>3, <1>1 DEF Ends, JobShapes, Jobs
<1> QED  BY <1>1, <1>2, <1>3 DEF Ends

LEMMA JobShapesStep ==
  ASSUME Shapes, JobShapes, [Next]_vars
  PROVE  JobShapes'
<1>1. CASE UNCHANGED job
  BY <1>1 DEF JobShapes, Jobs
<1>2. ASSUME NEW h \in Hooks, HookEnqueues(h) PROVE JobShapes'
  BY ZenonT(60), <1>2 DEF HookEnqueues, JobShapes, Jobs, JobStates
<1>3. ASSUME NEW w \in Workers, NEW f \in Files, TakeJob(w, f) PROVE JobShapes'
  BY <1>3 DEF TakeJob, JobShapes, Jobs, JobStates
<1>4. ASSUME NEW f \in Files, Stall(f) PROVE JobShapes'
  <2>1. /\ job[f] \in [state : JobStates, by : Workers \cup {NoWorker},
                       made : 0..Attempts, stalls : 0..MaxStalls]
        /\ job[f].state = "active" /\ job[f].made < Attempts
    BY <1>4 DEF Stall, JobShapes, Jobs
  <2>2. PICK state \in {"waiting", "stalled"}, n \in 0..MaxStalls :
          job' = [job EXCEPT ![f] = [state |-> state, by |-> NoWorker,
                                     made |-> job[f].made, stalls |-> n]]
    <3>1. CASE job[f].stalls < MaxStalls
      <4>1. job[f].stalls + 1 \in 0..MaxStalls
        BY <2>1, <3>1, FileScanAssumption
      <4> QED  BY <1>4, <3>1, <4>1 DEF Stall
    <3>2. CASE ~ (job[f].stalls < MaxStalls)
      BY <1>4, <2>1, <3>2 DEF Stall
    <3> QED  BY <3>1, <3>2
  <2> QED  BY <2>1, <2>2 DEF JobShapes, Jobs, JobStates
<1>5. ASSUME NEW w \in Workers,
             RecordInfected(w) \/ Chain(w) \/ RecordFailed(w) \/ StatementFails(w)
      PROVE  JobShapes'
  BY <1>1, <1>5, JobEnds DEF RecordInfected, Chain, RecordFailed, StatementFails
<1> QED
  BY <1>1, <1>2, <1>3, <1>4, <1>5
     DEF Next, HookStep, QueueStep, RunStep, DeleteStep, FaultStep, HookFinds,
         HookInserts, HookFails, WorkerDies, Mark, Scan, Copy, Drop, RecordClean,
         DeleteReads, DeleteRemoves, DeleteCommits, DeleteFails, vars

LEMMA FaultCounts ==
  ASSUME faults \in 0..MaxFaults, Fault
  PROVE  faults' \in 0..MaxFaults
BY FileScanAssumption DEF Fault

LEMMA OtherShapesStep ==
  ASSUME Shapes, DeleteShapes, OtherShapes, [Next]_vars
  PROVE  OtherShapes'
<1> USE DEF OtherShapes
<1>1. CASE UNCHANGED <<object, hook>> /\ (faults' = faults \/ Fault)
  BY <1>1, FaultCounts DEF object
<1>2. ASSUME NEW h \in Hooks, HookStep(h) \/ HookFails(h) PROVE OtherShapes'
  <2>1. hook' \in [Hooks -> [pc : {"find", "insert", "enqueue", "done"},
                            file : Files \cup {NoFile}]]
    BY <1>2 DEF HookStep, HookFails, HookFinds, HookInserts, HookEnqueues
  <2>2. UNCHANGED object /\ (faults' = faults \/ Fault)
    BY <1>2 DEF HookStep, HookFails, HookFinds, HookInserts, HookEnqueues
  <2> QED  BY <2>1, <2>2, FaultCounts DEF object
<1>3. ASSUME NEW w \in Workers, Copy(w) \/ Drop(w) PROVE OtherShapes'
  BY <1>3 DEF Copy, Drop
<1>4. CASE DeleteRemoves
  <2>1. quarantine' \in BOOLEAN /\ clean' \in BOOLEAN
    BY <1>4 DEF DeleteRemoves
  <2>2. UNCHANGED <<infected, hook>> /\ (faults' = faults \/ Fault)
    BY <1>4 DEF DeleteRemoves
  <2> QED  BY <2>1, <2>2, FaultCounts
<1> QED
  BY <1>1, <1>2, <1>3, <1>4
     DEF Next, QueueStep, RunStep, DeleteStep, FaultStep, TakeJob, Stall, WorkerDies,
         Mark, Scan, RecordClean, RecordInfected, Chain, RecordFailed,
         StatementFails, DeleteReads, DeleteCommits, DeleteFails, vars, object

(* Every reachable state is well typed: no job is attempted more often     *)
(* than its queue grants.                                                  *)
THEOREM ScanTyped == Spec => []TypeOK
<1>1. Init => Shapes /\ DeleteShapes /\ JobShapes /\ OtherShapes
  <2>1. Init => Shapes /\ DeleteShapes
    BY DEF Init, Shapes, NoRun, Runs, Stages, RowStates, DeleteShapes, Deletes, NoDelete
  <2>2. Init => JobShapes
    <3>1. 0 \in 0..Attempts /\ 0 < Attempts /\ 0 \in 0..MaxStalls
      BY FileScanAssumption
    <3> QED  BY <3>1 DEF Init, JobShapes, Jobs, JobStates, NoJob
  <2>3. Init => OtherShapes
    <3>1. Init => /\ infected \in BOOLEAN /\ quarantine \in BOOLEAN
                  /\ clean \in BOOLEAN
      BY DEF Init
    <3>2. Init => /\ hook \in [Hooks -> [pc : {"find", "insert", "enqueue", "done"},
                                         file : Files \cup {NoFile}]]
                  /\ faults \in 0..MaxFaults
      BY FileScanAssumption DEF Init
    <3> QED  BY <3>1, <3>2 DEF OtherShapes
  <2> QED  BY <2>1, <2>2, <2>3
<1>2. Shapes /\ DeleteShapes /\ JobShapes /\ OtherShapes => TypeOK
  BY DEF Shapes, Runs, Stages, RowStates, DeleteShapes, Deletes, JobShapes, Jobs,
         JobStates, OtherShapes, TypeOK
<1>3. Shapes /\ DeleteShapes /\ JobShapes /\ OtherShapes /\ [Next]_vars
        => Shapes' /\ DeleteShapes' /\ JobShapes' /\ OtherShapes'
  BY ShapesStep, DeleteShapesStep, JobShapesStep, OtherShapesStep
<1> QED  BY <1>1, <1>2, <1>3, PTL DEF Spec
=============================================================================
