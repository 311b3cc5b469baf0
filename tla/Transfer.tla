------------------------------ MODULE Transfer ------------------------------
(***************************************************************************)
(* Transfer of a rejected piece to another instance                        *)
(* (services/transfer.service.ts): the origin posts a signed token and a   *)
(* manifest, the destination makes a draft and a BullMQ job that fetches   *)
(* the files (queues/transfer-fetch.queue.ts, workers/                     *)
(* transfer-fetch.worker.ts), and the origin records the transfer, without *)
(* which it serves no file, only after the answer.                         *)
(*                                                                         *)
(* BullMQ hands a job out again when its lock has expired, because its     *)
(* worker died, or was only slow and goes on.                              *)
(*                                                                         *)
(* One transfer is modelled: transfers share nothing but the trust between *)
(* the instances, here a flag that a revocation clears.                    *)
(***************************************************************************)
EXTENDS Naturals

CONSTANTS
  Files,
  Workers,   \* what runs a job at the destination (3 per process)
  Attempts,  \* attempts of a job (3)
  MaxStalls, \* times BullMQ takes a stalled job up again (1, its default)
  AuditRefuses, \* logDirect refuses the organizationId the worker passes to it
                \* (audit.service.ts:276 does; the worker's tests replace it)
  MaxFaults  \* bound: errors, deaths and expired locks at the destination

Fallback == "fallback"  \* runs the fetch when there is no job
NoWorker == "no worker"
Runners == Workers \cup {Fallback}

ASSUME TransferAssumption ==
  /\ Attempts \in Nat \ {0} /\ MaxStalls \in Nat /\ MaxFaults \in Nat
  /\ AuditRefuses \in BOOLEAN
  /\ Fallback \notin Workers /\ NoWorker \notin Workers

InboundStatuses == {"none", "RECEIVED", "FILES_FETCHING", "FILES_COMPLETE", "FAILED"}
Jobs == [state : {"none", "waiting", "active", "completed", "failed"},
         by : Workers \cup {NoWorker}, made : 0..Attempts, stalls : 0..MaxStalls]

(* What a run does next, the files it has still to fetch and those it has  *)
(* fetched, and the attempts made when it began.                           *)
Runs == [pc : {"idle", "begin", "peer", "fetch", "status", "return", "throw"},
         todo : SUBSET Files, got : SUBSET Files, made : 0..Attempts]

VARIABLES
  ini,        \* initiateTransfer: "start", "posted", "recorded" or "dead"
  request,    \* the POST: "none", "sent", "accepted" (the draft is there, the
              \* job is not), "answered" or "lost"
  rec,        \* status of the origin's record
  cancelling, \* a cancellation has read the record
  requested,  \* an update to FILES_REQUESTED is on its way
  clean,      \* CLEAN files of the piece at the origin
  manifest,
  inbound,    \* status of the destination's record
  linked,     \* files whose storage key is in the draft's formData
  stored,     \* files in the destination's bucket
  job,
  run,        \* per worker, and for the fallback
  expired,    \* the token is older than 72 hours
  trusted,    \* the destination's row for the origin is active
  faults,
  strayed     \* history: a run that did not hold the job's lock has written

origin == <<ini, rec, cancelling, requested, clean, manifest>>
draft == <<inbound, linked, strayed>>
vars == <<origin, request, draft, stored, job, run, expired, trusted, faults>>

NoJob == [state |-> "none", by |-> NoWorker, made |-> 0, stalls |-> 0]
NoRun == [pc |-> "idle", todo |-> {}, got |-> {}, made |-> 0]

Init ==
  /\ ini = "start" /\ request = "none" /\ rec = "none"
  /\ cancelling = FALSE /\ requested = FALSE
  /\ clean = Files /\ manifest = {}
  /\ inbound = "none" /\ linked = {} /\ stored = {} /\ strayed = FALSE
  /\ job = NoJob /\ run = [x \in Runners |-> NoRun]
  /\ expired = FALSE /\ trusted = TRUE /\ faults = 0

Fault == faults < MaxFaults /\ faults' = faults + 1
NoFault == UNCHANGED faults

-----------------------------------------------------------------------------
(* The origin.                                                             *)

(* initiateTransfer, up to the POST: the CLEAN files make the manifest.    *)
Post ==
  /\ ini = "start" /\ clean # {}
  /\ ini' = "posted" /\ request' = "sent"
  /\ manifest' = clean
  /\ UNCHANGED <<rec, cancelling, requested, clean, draft, stored, job, run, expired,
                 trusted, faults>>

(* ... and from its answer on.                                             *)
Record ==
  /\ ini = "posted" /\ request = "answered"
  /\ ini' = "recorded" /\ rec' = "PENDING"
  /\ UNCHANGED <<request, cancelling, requested, clean, manifest, draft, stored, job,
                 run, expired, trusted, faults>>

(* It times out, is refused, or dies.                                      *)
InitiatorDies ==
  /\ ini = "posted"
  /\ ini' = "dead"
  /\ UNCHANGED <<request, rec, cancelling, requested, clean, manifest, draft, stored,
                 job, run, expired, trusted, faults>>

(* cancelTransfer: an unlocked read, ...                                   *)
CancelReads ==
  /\ rec \in {"PENDING", "FILES_REQUESTED"}
  /\ cancelling' = TRUE
  /\ UNCHANGED <<ini, request, rec, requested, clean, manifest, draft, stored, job,
                 run, expired, trusted, faults>>

(* ... and an update by id.                                                *)
CancelWrites ==
  /\ cancelling
  /\ cancelling' = FALSE /\ rec' = "CANCELLED"
  /\ UNCHANGED <<ini, request, requested, clean, manifest, draft, stored, job, run,
                 expired, trusted, faults>>

(* Mutant: once files were requested, no more are served.                  *)
ServesPending(f) == rec = "PENDING" /\ ~expired /\ f \in clean

(* verifyTransferToken and getFileStream.                                  *)
Serves(f) ==
  /\ rec \in {"PENDING", "FILES_REQUESTED"} /\ ~expired
  /\ f \in clean

(* Mutant: the status is not looked at again.                              *)
RequestedUnguarded == rec' = "FILES_REQUESTED"

StillPending == rec' = IF rec = "PENDING" THEN "FILES_REQUESTED" ELSE rec

(* The update verifyTransferToken does not wait for; it may fail.          *)
MarkRequested ==
  /\ requested
  /\ requested' = FALSE
  /\ StillPending \/ UNCHANGED rec
  /\ UNCHANGED <<ini, request, cancelling, clean, manifest, draft, stored, job, run,
                 expired, trusted, faults>>

(* A file is deleted, or a later scan finds it infected.                   *)
FileGone(f) ==
  /\ f \in clean
  /\ clean' = clean \ {f}
  /\ UNCHANGED <<ini, request, rec, cancelling, requested, manifest, draft, stored,
                 job, run, expired, trusted, faults>>

-----------------------------------------------------------------------------
(* The destination.                                                        *)

(* handleInboundTransfer commits a draft and its inbound record...         *)
Accept ==
  /\ request = "sent" /\ trusted /\ ~expired
  /\ request' = "accepted" /\ inbound' = "RECEIVED"
  /\ UNCHANGED <<origin, linked, strayed, stored, job, run, expired, trusted, faults>>

(* ... or refuses, or is never reached, or dies before it has a job.       *)
RequestLost ==
  /\ request \in {"sent", "accepted"}
  /\ request' = "lost"
  /\ UNCHANGED <<origin, draft, stored, job, run, expired, trusted, faults>>

(* ... and enqueues the fetch.                                             *)
Enqueue ==
  /\ request = "accepted"
  /\ request' = "answered"
  /\ job' = [job EXCEPT !.state = "waiting"]
  /\ UNCHANGED <<origin, draft, stored, run, expired, trusted, faults>>

(* Redis is down, or only its answer is lost: fetchTransferFiles runs      *)
(* unattended, once, perhaps beside a job.                                 *)
FallBack ==
  /\ request = "accepted" /\ Fault
  /\ request' = "answered"
  /\ run' = [run EXCEPT ![Fallback].pc = "peer"]
  /\ job' \in {job, [job EXCEPT !.state = "waiting"]}
  /\ UNCHANGED <<origin, draft, stored, expired, trusted>>

-----------------------------------------------------------------------------
(* A run.                                                                  *)

Goto(x, next) == run' = [run EXCEPT ![x].pc = next]
Leaves(x) == run' = [run EXCEPT ![x] = NoRun]

(* Does the run hold the lock of the job; does anyone work on the job.     *)
Holds(x) == job.state = "active" /\ job.by = x
Attended == run[job.by] # NoRun

(* BullMQ moves the job on for the holder of its lock only.                *)
MoveJob(x, state, made) ==
  job' = IF Holds(x) THEN [job EXCEPT !.state = state, !.by = NoWorker, !.made = made]
                     ELSE job

(* Note of a write.                                                        *)
Strays(x) == strayed' = (strayed \/ ~ Holds(x))

(* Workers are interchangeable.                                            *)
IdleWorkers == {w \in Workers : run[w] = NoRun}
FreeWorker == CHOOSE w \in IdleWorkers : TRUE

(* The backoff (30 s and more) outlasts the origin's wait for the answer   *)
(* (10 s): a second attempt finds the initiator done or dead.              *)
Start ==
  /\ job.state = "waiting" /\ IdleWorkers # {}
  /\ job.made > 0 => ini # "posted"
  /\ job' = [job EXCEPT !.state = "active", !.by = FreeWorker]
  /\ run' = [run EXCEPT ![FreeWorker] = [NoRun EXCEPT !.pc = "begin", !.made = job.made]]
  /\ UNCHANGED <<origin, request, draft, stored, expired, trusted, faults>>

Fail(x) == MoveJob(x, "failed", job.made) /\ Leaves(x)

(* The worker writes an audit row before anything else, and again at each  *)
(* of its ends.  Phase 1; an expired token and a revoked peer are          *)
(* UnrecoverableErrors.                                                    *)
Begin(x) ==
  /\ run[x].pc = "begin"
  /\ IF AuditRefuses THEN Goto(x, "throw") /\ UNCHANGED <<draft, job>>
     ELSE IF expired THEN Fail(x) /\ UNCHANGED draft
     ELSE /\ Goto(x, "peer") /\ UNCHANGED <<linked, job>>
          /\ inbound' = "FILES_FETCHING" /\ Strays(x)
  /\ UNCHANGED <<origin, request, stored, expired, trusted, faults>>

ResolvePeer(x) ==
  /\ run[x].pc = "peer"
  /\ IF trusted
     THEN run' = [run EXCEPT ![x].pc = "fetch", ![x].todo = manifest] /\ UNCHANGED job
     ELSE Fail(x)
  /\ UNCHANGED <<origin, request, draft, stored, expired, trusted, faults>>

(* Phase 2: a file is served and stored, ...                               *)
Fetch(x, f) ==
  /\ run[x].pc = "fetch" /\ f \in run[x].todo /\ Serves(f)
  /\ run' = [run EXCEPT ![x].todo = @ \ {f}, ![x].got = @ \cup {f}]
  /\ stored' = stored \cup {f}
  /\ requested' = (requested \/ rec = "PENDING")
  /\ UNCHANGED <<ini, rec, cancelling, clean, manifest, request, draft, job, expired,
                 trusted, faults>>

(* ... refused, or lost on the way.                                        *)
FetchFails(x, f) ==
  /\ run[x].pc = "fetch" /\ f \in run[x].todo
  /\ IF Serves(f) THEN Fault ELSE NoFault
  /\ run' = [run EXCEPT ![x].todo = @ \ {f}]
  /\ UNCHANGED <<origin, request, draft, stored, job, expired, trusted>>

(* Phase 3: formData is rewritten with what this attempt has fetched.      *)
WriteLinks(x) ==
  /\ run[x].pc = "fetch" /\ run[x].todo = {}
  /\ IF run[x].got # {} THEN linked' = run[x].got /\ Strays(x)
                        ELSE UNCHANGED <<linked, strayed>>
  /\ IF x = Fallback THEN Leaves(x) ELSE Goto(x, "status")
  /\ UNCHANGED <<origin, request, inbound, stored, job, expired, trusted, faults>>

Last(x) == run[x].made + 1 >= Attempts

(* Mutants: any file will do; the attempt's number is off by one.          *)
AnyFile(x) ==
  IF run[x].got # {} THEN "FILES_COMPLETE" ELSE IF Last(x) THEN "FAILED" ELSE inbound

LastTooLate(x) ==
  IF run[x].got = manifest THEN "FILES_COMPLETE"
  ELSE IF run[x].got = {} /\ run[x].made >= Attempts THEN "FAILED"
  ELSE inbound

Verdict(x) ==
  IF run[x].got = manifest THEN "FILES_COMPLETE"
  ELSE IF run[x].got = {} /\ Last(x) THEN "FAILED"
  ELSE inbound

WriteStatus(x) ==
  /\ run[x].pc = "status"
  /\ inbound' = Verdict(x)
  /\ IF Verdict(x) # inbound THEN Strays(x) ELSE UNCHANGED strayed
  /\ Goto(x, IF run[x].got = manifest THEN "return" ELSE "throw")
  /\ UNCHANGED <<origin, request, linked, stored, job, expired, trusted, faults>>

Return(x) ==
  /\ run[x].pc = "return"
  /\ MoveJob(x, "completed", job.made) /\ Leaves(x)
  /\ UNCHANGED <<origin, request, draft, stored, expired, trusted, faults>>

Throw(x) ==
  /\ run[x].pc = "throw"
  /\ MoveJob(x, IF Last(x) THEN "failed" ELSE "waiting", job.made + 1) /\ Leaves(x)
  /\ UNCHANGED <<origin, request, draft, stored, expired, trusted, faults>>

(* A statement fails.                                                      *)
Errs(x) ==
  /\ run[x].pc \notin {"idle", "throw"} /\ Fault
  /\ IF x = Fallback THEN Leaves(x) ELSE Goto(x, "throw")
  /\ UNCHANGED <<origin, request, draft, stored, job, expired, trusted>>

(* The process of the run stops.                                           *)
Dies(x) ==
  /\ run[x] # NoRun /\ Fault
  /\ Leaves(x)
  /\ UNCHANGED <<origin, request, draft, stored, job, expired, trusted>>

(* BullMQ finds that the job's lock has expired and takes the job up again *)
(* or fails it.  The run, if its worker is alive, goes on.                 *)
Stall ==
  /\ job.state = "active"
  /\ IF Attended THEN Fault ELSE NoFault
  /\ job' = IF job.stalls < MaxStalls
            THEN [job EXCEPT !.state = "waiting", !.by = NoWorker, !.stalls = @ + 1]
            ELSE [job EXCEPT !.state = "failed", !.by = NoWorker]
  /\ UNCHANGED <<origin, request, draft, stored, run, expired, trusted>>

-----------------------------------------------------------------------------
Expire ==
  /\ ini # "start" /\ ~expired
  /\ expired' = TRUE
  /\ UNCHANGED <<origin, request, draft, stored, job, run, trusted, faults>>

Revoke ==
  /\ trusted
  /\ trusted' = FALSE
  /\ UNCHANGED <<origin, request, draft, stored, job, run, expired, faults>>

Initiating == Record \/ InitiatorDies

Working(x) ==
  \/ Begin(x) \/ ResolvePeer(x) \/ WriteLinks(x) \/ WriteStatus(x)
  \/ Return(x) \/ Throw(x)
  \/ \E f \in Files : Fetch(x, f) \/ FetchFails(x, f)

Next ==
  \/ Post \/ Initiating \/ CancelReads \/ CancelWrites \/ MarkRequested
  \/ \E f \in Files : FileGone(f)
  \/ Accept \/ RequestLost \/ Enqueue \/ FallBack
  \/ Start \/ Stall
  \/ \E x \in Runners : Working(x) \/ Errs(x) \/ Dies(x)
  \/ Expire \/ Revoke

Spec == Init /\ [][Next]_vars

(* The worker works its queue, BullMQ finds the job of a dead worker, and  *)
(* the origin's request handler ends.                                      *)
FairSpec ==
  /\ Spec /\ WF_vars(Initiating) /\ WF_vars(Start)
  /\ WF_vars(job.state = "active" /\ ~ Attended /\ Stall)
  /\ \A x \in Runners : WF_vars(Working(x))

-----------------------------------------------------------------------------
TypeOK ==
  /\ ini \in {"start", "posted", "recorded", "dead"}
  /\ request \in {"none", "sent", "accepted", "answered", "lost"}
  /\ rec \in {"none", "PENDING", "FILES_REQUESTED", "CANCELLED"}
  /\ cancelling \in BOOLEAN /\ requested \in BOOLEAN
  /\ clean \subseteq Files /\ manifest \subseteq Files
  /\ inbound \in InboundStatuses
  /\ linked \subseteq Files /\ stored \subseteq Files
  /\ job \in Jobs
  /\ run \in [Runners -> Runs]
  /\ expired \in BOOLEAN /\ trusted \in BOOLEAN /\ strayed \in BOOLEAN
  /\ faults \in 0..MaxFaults

(* FILES_COMPLETE is true of the draft: every file of the manifest is      *)
(* stored, whoever wrote the status, and linked, although each attempt     *)
(* rewrites the links with what it has got itself and a job that was done  *)
(* may be run again after a death.  Only a run that had lost its lock, or  *)
(* a fallback beside a job, can leave other links.                         *)
CompleteHonest ==
  inbound = "FILES_COMPLETE" => manifest \subseteq stored /\ (linked = manifest \/ strayed)

(* The destination comes to know: when the job has given up, the record    *)
(* says FAILED, or files are linked, unless trust or token ended, or       *)
(* something broke, or the audit call threw.  So a transfer the origin     *)
(* has no record of (it died between the answer and its record) is not     *)
(* left waiting.                                                           *)
FailureShown ==
  job.state = "failed" =>
    \/ inbound = "FAILED" \/ linked # {}
    \/ expired \/ ~trusted \/ faults > 0 \/ AuditRefuses

(* A cancelled transfer stays cancelled, whatever updates are on the way.  *)
CancelFinal == [][rec = "CANCELLED" => rec' = "CANCELLED"]_rec

(* The files arrive although the first attempt may come before the origin  *)
(* has its record and serves nothing, and although one thing goes wrong -- *)
(* other than a run without the lock that writes over what the second run  *)
(* has written.                                                            *)
FilesArrive ==
  job.state = "waiting" ~>
    \/ inbound = "FILES_COMPLETE"
    \/ rec = "CANCELLED" \/ ini = "dead" \/ expired \/ ~trusted
    \/ ~(manifest \subseteq clean)
    \/ strayed
=============================================================================
