--------------------------- MODULE RegisterProofs ---------------------------
(***************************************************************************)
(* Proofs about the Register's components: Transfer (FILES_COMPLETE is     *)
(* true of the draft, a job that gave up shows, and a cancelled transfer   *)
(* stays cancelled -- for any files, attempts, stalls and faults), SimSub  *)
(* (no submission is let through over a conflict that lasted) and Identity *)
(* (the row of a user is what the applied events make of it in the order   *)
(* they happened -- for any number of events).                             *)
(***************************************************************************)
EXTENDS Transfer, SimSub, Identity, WellFoundedInduction, SequenceTheorems, TLAPS

-----------------------------------------------------------------------------
(* Piece transfers                                                         *)

(* Who has acted when: the request and the records follow the initiator,   *)
(* the job follows the answer, and the manifest is never empty.            *)
Sequenced ==
  /\ ini = "start" => request = "none"
  /\ ini # "start" => manifest # {}
  /\ ini # "recorded" => rec = "none"
  /\ cancelling => rec # "none"
  /\ request = "none" => inbound = "none"
  /\ request = "accepted" => inbound = "RECEIVED"
  /\ request \in {"none", "sent", "accepted"} =>
       job = NoJob /\ \A x \in Runners : run[x] = NoRun

(* Who is at work on the job: its holder, and without a fault nobody else. *)
JobRuns ==
  /\ job.state = "active" => job.by \in Workers
  /\ job.state \in {"none", "waiting", "active"} => job.made < Attempts
  /\ \A x \in Runners : run[x] # NoRun => run[x].pc # "idle"
  /\ \A x \in Runners : Holds(x) /\ run[x] # NoRun => run[x].made = job.made
  /\ faults = 0 =>
       /\ \A x \in Runners : run[x] # NoRun => Holds(x)
       /\ job.state = "active" => Attended

(* What a run has done so far, and what nobody but a stray one has undone. *)
AttemptedBy(x) ==
  /\ run[x].got \subseteq stored
  /\ run[x].pc = "status" /\ run[x].got # {} => linked # {}
  /\ Holds(x) /\ ~strayed =>
       /\ run[x].pc = "status" /\ run[x].got # {} => linked = run[x].got
       /\ run[x].pc \in {"peer", "fetch", "status"} => inbound # "FILES_COMPLETE"
  /\ run[x].pc = "throw" /\ faults = 0 =>
       inbound = "FAILED" \/ linked # {} \/ run[x].made + 1 < Attempts \/ AuditRefuses

Attempted == \A x \in Runners : AttemptedBy(x)

(* The type invariant, its flags apart.                                    *)
Flags ==
  /\ cancelling \in BOOLEAN /\ requested \in BOOLEAN /\ strayed \in BOOLEAN
  /\ expired \in BOOLEAN /\ trusted \in BOOLEAN

Typed ==
  /\ ini \in {"start", "posted", "recorded", "dead"}
  /\ request \in {"none", "sent", "accepted", "answered", "lost"}
  /\ rec \in {"none", "PENDING", "FILES_REQUESTED", "CANCELLED"}
  /\ clean \subseteq Files /\ manifest \subseteq Files
  /\ inbound \in InboundStatuses
  /\ linked \subseteq Files /\ stored \subseteq Files
  /\ job \in Jobs
  /\ run \in [Runners -> Runs]
  /\ faults \in 0..MaxFaults

TransferInv ==
  Typed /\ Sequenced /\ JobRuns /\ Attempted /\ CompleteHonest /\ FailureShown

LEMMA RunFacts ==
  /\ NoRun \in Runs /\ NoRun.pc = "idle" /\ NoRun.got = {} /\ NoRun.made = 0
  /\ NoJob \in Jobs /\ NoJob.state = "none" /\ NoJob.made = 0
  /\ Fallback \in Runners /\ Workers \subseteq Runners /\ Fallback \notin Workers
  /\ 0 < Attempts
  BY TransferAssumption DEF NoRun, Runs, NoJob, Jobs, Runners

LEMMA TransferBegins == Init => TransferInv
<1> SUFFICES ASSUME Init PROVE TransferInv
  OBVIOUS
<1> USE RunFacts DEF Init
<1>1. Typed
  BY TransferAssumption DEF Typed, InboundStatuses
<1>2. Sequenced /\ JobRuns
  BY DEF Sequenced, JobRuns, Holds
<1>3. Attempted /\ CompleteHonest /\ FailureShown
  BY DEF Attempted, AttemptedBy, CompleteHonest, FailureShown, Holds
<1> QED  BY <1>1, <1>2, <1>3 DEF TransferInv

(* The job's fields.                                                       *)
LEMMA JobTyped ==
  ASSUME Typed
  PROVE  /\ job.state \in {"none", "waiting", "active", "completed", "failed"}
         /\ job.by \in Workers \cup {NoWorker}
         /\ job.made \in 0..Attempts /\ job.stalls \in 0..MaxStalls
  BY DEF Typed, Jobs

(* What one run does next: it leaves, goes on, or fetches.                 *)
LEMMA RunTyped ==
  ASSUME Typed, NEW x \in Runners,
         NEW pc \in {"begin", "peer", "fetch", "status", "return", "throw"}
  PROVE  /\ run[x] \in Runs /\ run[x].made \in Nat /\ run[x].got \subseteq Files
         /\ Leaves(x) => /\ run' \in [Runners -> Runs] /\ run'[x] = NoRun
                         /\ \A y \in Runners \ {x} : run'[y] = run[y]
         /\ Goto(x, pc) => /\ run' \in [Runners -> Runs]
                           /\ run'[x].pc = pc /\ run'[x].got = run[x].got
                           /\ run'[x].made = run[x].made
                           /\ \A y \in Runners \ {x} : run'[y] = run[y]
  BY RunFacts, TransferAssumption DEF Typed, Runs, Leaves, Goto

(* The origin, the token and the trust: nothing they do touches the fetch. *)
LEMMA OriginStep ==
  ASSUME TransferInv,
         \/ Post \/ Initiating \/ CancelReads \/ CancelWrites \/ MarkRequested
         \/ Expire \/ Revoke \/ \E f \in Files : FileGone(f)
  PROVE  TransferInv'
<1>1. UNCHANGED <<draft, stored, job, run, faults>>
  BY DEF Post, Initiating, Record, InitiatorDies, CancelReads, CancelWrites, MarkRequested,
     Expire, Revoke, FileGone
<1>2. /\ Typed' /\ Sequenced' /\ (manifest' = manifest \/ inbound = "none")
  <2> USE <1>1 DEF TransferInv, Typed, Sequenced, draft, origin
  <2>1. CASE Post
    BY <2>1, RunFacts DEF Post
  <2>2. CASE Initiating
    BY <2>2 DEF Initiating, Record, InitiatorDies
  <2>3. CASE CancelReads \/ CancelWrites
    BY <2>3 DEF CancelReads, CancelWrites
  <2>4. CASE MarkRequested
    BY <2>4 DEF MarkRequested, StillPending
  <2>5. CASE Expire \/ Revoke
    BY <2>5 DEF Expire, Revoke
  <2>6. CASE \E f \in Files : FileGone(f)
    BY <2>6 DEF FileGone
  <2> QED  BY <2>1, <2>2, <2>3, <2>4, <2>5, <2>6
<1>3. JobRuns' /\ Attempted'
  BY <1>1 DEF TransferInv, JobRuns, Attempted, AttemptedBy, Holds, Attended, draft
<1>4. CompleteHonest'
  BY <1>1, <1>2 DEF TransferInv, CompleteHonest, draft
<1>5. (expired => expired') /\ (~trusted => ~trusted')
  BY DEF Post, Initiating, Record, InitiatorDies, CancelReads, CancelWrites, MarkRequested,
     Expire, Revoke, FileGone
<1>6. FailureShown'
  BY <1>1, <1>5 DEF TransferInv, FailureShown, draft
<1> QED  BY <1>2, <1>3, <1>4, <1>6 DEF TransferInv

(* The request at the destination.                                         *)
LEMMA RequestStep ==
  ASSUME TransferInv, Accept \/ RequestLost \/ Enqueue \/ FallBack
  PROVE  TransferInv'
<1> USE RunFacts, TransferAssumption
    DEF TransferInv, Typed, Sequenced, JobRuns, Attempted, AttemptedBy, CompleteHonest,
        FailureShown, Holds, Attended, origin, draft
<1>1. CASE Accept
  BY <1>1 DEF Accept, InboundStatuses
<1>2. CASE RequestLost
  BY <1>2 DEF RequestLost
<1>3. CASE Enqueue
  <2>1. job' = [NoJob EXCEPT !.state = "waiting"] /\ \A x \in Runners : run[x] = NoRun
    BY <1>3 DEF Enqueue
  <2>2. job' \in Jobs /\ job'.state = "waiting" /\ job'.made = 0
    BY <2>1 DEF Jobs, NoJob
  <2> QED  BY <1>3, <2>1, <2>2 DEF Enqueue
<1>4. CASE FallBack
  <2>1. job' \in {NoJob, [NoJob EXCEPT !.state = "waiting"]} /\ \A x \in Runners : run[x] = NoRun
    BY <1>4 DEF FallBack
  <2>2. job' \in Jobs /\ job'.state \in {"none", "waiting"} /\ job'.made = 0
    BY <2>1 DEF Jobs, NoJob
  <2>3. /\ run' \in [Runners -> Runs] /\ run'[Fallback].pc = "peer" /\ run'[Fallback].got = {}
        /\ \A x \in Runners \ {Fallback} : run'[x] = NoRun
    BY <1>4, <2>1 DEF FallBack, Runs
  <2>4. faults' \in 0..MaxFaults /\ faults' > 0
    BY <1>4 DEF FallBack, Fault
  <2> QED  BY <1>4, <2>2, <2>3, <2>4 DEF FallBack
<1> QED  BY <1>1, <1>2, <1>3, <1>4

(* BullMQ moves the job.                                                   *)
LEMMA JobMoves ==
  ASSUME Typed, JobRuns, NEW x \in Runners, NEW st \in {"waiting", "completed", "failed"},
         NEW made \in 0..Attempts, MoveJob(x, st, made)
  PROVE  /\ job' \in Jobs
         /\ Holds(x) => job'.state = st /\ job'.made = made
         /\ ~ Holds(x) => job' = job
<1>1. CASE Holds(x)
  <2>1. job' = [job EXCEPT !.state = st, !.by = NoWorker, !.made = made]
    BY <1>1 DEF MoveJob
  <2> QED  BY <1>1, <2>1 DEF Typed, Jobs
<1>2. CASE ~ Holds(x)
  BY <1>2 DEF MoveJob, Typed
<1> QED  BY <1>1, <1>2

(* A run that ends with the job, or without it, keeps the invariant when   *)
(* the job may be moved so.                                                *)
LEMMA RunEnds ==
  ASSUME TransferInv, NEW x \in Runners, run[x] # NoRun, Leaves(x),
         NEW st \in {"waiting", "completed", "failed"}, NEW made \in 0..Attempts,
         MoveJob(x, st, made), st = "waiting" => made < Attempts,
         UNCHANGED <<origin, request, draft, stored, expired, trusted, faults>>,
         st = "failed" /\ Holds(x) =>
           \/ inbound = "FAILED" \/ linked # {}
           \/ expired \/ ~trusted \/ faults > 0 \/ AuditRefuses
  PROVE  TransferInv'
<1>0. request \notin {"none", "sent", "accepted"}
  BY DEF TransferInv, Sequenced
<1>1. /\ run' \in [Runners -> Runs] /\ run'[x] = NoRun
      /\ \A y \in Runners \ {x} : run'[y] = run[y]
  BY RunTyped DEF TransferInv
<1>2. /\ job' \in Jobs
      /\ Holds(x) => job'.state = st /\ job'.made = made
      /\ ~ Holds(x) => job' = job
  BY JobMoves DEF TransferInv
<1>3. Typed'
  BY <1>1, <1>2 DEF TransferInv, Typed, origin, draft
<1>4. Sequenced'
  BY <1>0 DEF TransferInv, Sequenced, origin, draft
<1>5. \A y \in Runners : run'[y] # NoRun => y # x /\ run[y] # NoRun /\ run'[y] = run[y]
  BY <1>1
<1>6. \A y \in Runners \ {x} : Holds(y)' <=> Holds(y)
  BY <1>2 DEF Holds
<1>7. JobRuns'
  <2>1. CASE Holds(x)
    <3>1. \A y \in Runners \ {x} : ~ Holds(y)
      BY <2>1 DEF Holds
    <3> QED  BY <1>2, <1>5, <1>6, <2>1, <3>1 DEF TransferInv, JobRuns, Holds
  <2>2. CASE ~ Holds(x)
    <3>1. faults = 0 => FALSE
      BY <2>2 DEF TransferInv, JobRuns
    <3> QED  BY <1>2, <1>5, <1>6, <2>2, <3>1 DEF TransferInv, JobRuns, Holds
  <2> QED  BY <2>1, <2>2
<1>8. Attempted'
  BY <1>1, <1>6, RunFacts DEF TransferInv, Attempted, AttemptedBy, draft
<1>9. CompleteHonest' /\ FailureShown'
  BY <1>2 DEF TransferInv, CompleteHonest, FailureShown, origin, draft
<1> QED  BY <1>3, <1>4, <1>7, <1>8, <1>9 DEF TransferInv

(* A run that goes on with the job where it is: what holds of the others.  *)
LEMMA RunGoesOn ==
  ASSUME TransferInv, NEW x \in Runners, run[x] # NoRun,
         run' \in [Runners -> Runs], \A y \in Runners \ {x} : run'[y] = run[y],
         run'[x].pc # "idle", run'[x].made = run[x].made,
         UNCHANGED <<job, request>>, faults' = 0 => faults = 0,
         stored \subseteq stored', linked # {} => linked' # {},
         UNCHANGED draft \/ Strays(x)
  PROVE  /\ request \notin {"none", "sent", "accepted"} /\ JobRuns'
         /\ \A y \in Runners : Holds(y)' <=> Holds(y)
         /\ \A y \in Runners \ {x} : AttemptedBy(y)'
         /\ faults' = 0 => Holds(x)
<1>1. request \notin {"none", "sent", "accepted"}
  BY DEF TransferInv, Sequenced
<1>2. \A y \in Runners : Holds(y)' <=> Holds(y)
  BY DEF Holds
<1>3. run'[x] # NoRun /\ \A y \in Runners : run'[y] = NoRun <=> run[y] = NoRun
  BY RunFacts
<1>4. JobRuns'
  BY <1>2, <1>3, RunFacts DEF TransferInv, JobRuns, Attended
<1>5. ASSUME NEW y \in Runners \ {x}
      PROVE  AttemptedBy(y)'
  <2>1. faults' = 0 => run[y] = NoRun
    BY DEF TransferInv, JobRuns, Holds
  <2>2. AttemptedBy(y)
    BY DEF TransferInv, Attempted
  <2>3. run'[y] = run[y]
    OBVIOUS
  <2>4. CASE UNCHANGED draft
    BY <1>2, <2>1, <2>2, <2>3, <2>4, RunFacts DEF AttemptedBy, draft
  <2>5. CASE Strays(x)
    <3>1. Holds(y) => strayed'
      BY <2>5 DEF Strays, Holds
    <3> QED  BY <1>2, <2>1, <2>2, <2>3, <3>1, RunFacts DEF AttemptedBy
  <2> QED  BY <2>4, <2>5
<1>6. faults' = 0 => Holds(x)
  BY DEF TransferInv, JobRuns
<1> QED  BY <1>1, <1>2, <1>4, <1>5, <1>6

(* Phases 1 to 3 of a run.                                                 *)
LEMMA BeginStep ==
  ASSUME TransferInv, NEW x \in Runners, Begin(x)
  PROVE  TransferInv'
<1>1. run[x].pc = "begin" /\ run[x] # NoRun
  BY RunFacts DEF Begin
<1>2. CASE expired /\ ~AuditRefuses
  <2>1. MoveJob(x, "failed", job.made) /\ Leaves(x)
    BY <1>2 DEF Begin, Fail
  <2>2. UNCHANGED <<origin, request, draft, stored, expired, trusted, faults>>
    BY <1>2 DEF Begin, draft
  <2>3. job.made \in 0..Attempts
    BY JobTyped DEF TransferInv
  <2> QED  BY <1>1, <1>2, <2>1, <2>2, <2>3, RunEnds
<1>3. CASE AuditRefuses \/ ~expired
  <2> DEFINE next == IF AuditRefuses THEN "throw" ELSE "peer"
  <2>1. /\ Goto(x, next) /\ UNCHANGED <<job, linked>>
        /\ UNCHANGED <<origin, request, stored, expired, trusted, faults>>
        /\ \/ AuditRefuses /\ UNCHANGED draft
           \/ ~AuditRefuses /\ inbound' = "FILES_FETCHING" /\ Strays(x)
    BY <1>3 DEF Begin, draft
  <2>2. next \in {"peer", "throw"}
    OBVIOUS
  <2>3. /\ run[x] \in Runs /\ run' \in [Runners -> Runs]
        /\ run'[x].pc = next /\ run'[x].got = run[x].got /\ run'[x].made = run[x].made
        /\ \A y \in Runners \ {x} : run'[y] = run[y]
    BY <2>1, <2>2, RunTyped DEF TransferInv
  <2>4. /\ request \notin {"none", "sent", "accepted"} /\ JobRuns'
        /\ \A y \in Runners : Holds(y)' <=> Holds(y)
        /\ \A y \in Runners \ {x} : AttemptedBy(y)'
        /\ faults' = 0 => Holds(x)
    BY <1>1, <2>1, <2>2, <2>3, RunGoesOn
  <2>5. Typed' /\ Sequenced'
    BY <2>1, <2>3, <2>4 DEF TransferInv, Typed, Sequenced, origin, draft, InboundStatuses
  <2>6. AttemptedBy(x)'
    BY <2>1, <2>3, <2>4 DEF TransferInv, Attempted, AttemptedBy
  <2>7. CompleteHonest'
    BY <2>1 DEF TransferInv, CompleteHonest, origin, draft
  <2>8. FailureShown'
    <3>1. faults > 0 \/ job.state = "active"
      BY <2>1, <2>4 DEF TransferInv, Typed, Holds
    <3> QED  BY <2>1, <3>1 DEF FailureShown
  <2> QED  BY <2>4, <2>5, <2>6, <2>7, <2>8 DEF TransferInv, Attempted
<1> QED  BY <1>2, <1>3

LEMMA ResolveStep ==
  ASSUME TransferInv, NEW x \in Runners, ResolvePeer(x)
  PROVE  TransferInv'
<1>1. run[x].pc = "peer" /\ run[x] # NoRun
  BY RunFacts DEF ResolvePeer
<1>2. CASE ~trusted
  <2>1. MoveJob(x, "failed", job.made) /\ Leaves(x)
    BY <1>2 DEF ResolvePeer, Fail
  <2>2. UNCHANGED <<origin, request, draft, stored, expired, trusted, faults>>
    BY DEF ResolvePeer
  <2>3. job.made \in 0..Attempts
    BY JobTyped DEF TransferInv
  <2> QED  BY <1>1, <1>2, <2>1, <2>2, <2>3, RunEnds
<1>3. CASE trusted
  <2>1. /\ run' = [run EXCEPT ![x].pc = "fetch", ![x].todo = manifest]
        /\ UNCHANGED <<origin, request, draft, stored, job, expired, trusted, faults>>
    BY <1>3 DEF ResolvePeer
  <2>2. run[x] \in Runs /\ manifest \subseteq Files
    BY DEF TransferInv, Typed
  <2>3. /\ run' \in [Runners -> Runs] /\ run'[x].pc = "fetch"
        /\ run'[x].got = run[x].got /\ run'[x].made = run[x].made
        /\ \A y \in Runners \ {x} : run'[y] = run[y]
    BY <2>1, <2>2 DEF TransferInv, Typed, Runs
  <2>4. /\ request \notin {"none", "sent", "accepted"} /\ JobRuns'
        /\ \A y \in Runners : Holds(y)' <=> Holds(y)
        /\ \A y \in Runners \ {x} : AttemptedBy(y)'
    BY <1>1, <2>1, <2>3, RunGoesOn DEF draft
  <2>5. AttemptedBy(x)'
    BY <1>1, <2>1, <2>3, <2>4 DEF TransferInv, Attempted, AttemptedBy, draft
  <2> QED
    BY <2>1, <2>3, <2>4, <2>5 DEF TransferInv, Attempted, Typed, Sequenced, CompleteHonest,
       FailureShown, origin, draft
<1> QED  BY <1>2, <1>3

LEMMA FetchStep ==
  ASSUME TransferInv, NEW x \in Runners, NEW f \in Files, Fetch(x, f) \/ FetchFails(x, f)
  PROVE  TransferInv'
<1>1. run[x].pc = "fetch" /\ run[x] # NoRun
  BY RunFacts DEF Fetch, FetchFails
<1>2. run[x] \in Runs /\ run \in [Runners -> Runs]
  BY DEF TransferInv, Typed
<1>3. /\ run' \in [Runners -> Runs] /\ run'[x].pc = "fetch"
      /\ run'[x].made = run[x].made /\ run'[x].got \subseteq run[x].got \cup {f}
      /\ \A y \in Runners \ {x} : run'[y] = run[y]
      /\ run'[x].got \subseteq stored' /\ stored \subseteq stored' /\ stored' \subseteq Files
  <2>1. CASE Fetch(x, f)
    <3>1. /\ run' = [run EXCEPT ![x].todo = @ \ {f}, ![x].got = @ \cup {f}]
          /\ stored' = stored \cup {f}
      BY <2>1 DEF Fetch
    <3>2. run'[x] = [run[x] EXCEPT !.todo = @ \ {f}, !.got = @ \cup {f}]
      BY <1>2, <3>1
    <3>3. run[x].got \subseteq stored /\ stored \subseteq Files
      BY DEF TransferInv, Typed, Attempted, AttemptedBy
    <3> QED  BY <1>1, <1>2, <3>1, <3>2, <3>3 DEF Runs
  <2>2. CASE FetchFails(x, f)
    <3>1. run' = [run EXCEPT ![x].todo = @ \ {f}] /\ stored' = stored
      BY <2>2 DEF FetchFails
    <3>2. run'[x] = [run[x] EXCEPT !.todo = @ \ {f}]
      BY <1>2, <3>1
    <3>3. run[x].got \subseteq stored /\ stored \subseteq Files
      BY DEF TransferInv, Typed, Attempted, AttemptedBy
    <3> QED  BY <1>1, <1>2, <3>1, <3>2, <3>3 DEF Runs
  <2> QED  BY <2>1, <2>2
<1>4. UNCHANGED <<ini, request, rec, cancelling, clean, manifest, draft, job, expired,
                  trusted>>
  BY DEF Fetch, FetchFails, origin
<1>5. faults' \in 0..MaxFaults /\ (faults' = 0 => faults = 0)
  <2>1. faults' \in {faults, faults + 1} /\ (faults' # faults => faults < MaxFaults)
    BY DEF Fetch, FetchFails, Fault, NoFault
  <2> QED  BY <2>1, TransferAssumption DEF TransferInv, Typed
<1>6. /\ request \notin {"none", "sent", "accepted"} /\ JobRuns'
      /\ \A y \in Runners : Holds(y)' <=> Holds(y)
      /\ \A y \in Runners \ {x} : AttemptedBy(y)'
  BY <1>1, <1>3, <1>4, <1>5, RunGoesOn DEF draft
<1>7. AttemptedBy(x)'
  BY <1>1, <1>3, <1>4, <1>5, <1>6 DEF TransferInv, Attempted, AttemptedBy, draft
<1>8. Typed' /\ Sequenced'
  BY <1>3, <1>4, <1>5, <1>6 DEF TransferInv, Typed, Sequenced, draft
<1>9. CompleteHonest' /\ FailureShown'
  BY <1>3, <1>4, <1>5 DEF TransferInv, Typed, CompleteHonest, FailureShown, draft
<1> QED  BY <1>6, <1>7, <1>8, <1>9 DEF TransferInv, Attempted

LEMMA LinksStep ==
  ASSUME TransferInv, NEW x \in Runners, WriteLinks(x)
  PROVE  TransferInv'
<1>1. run[x].pc = "fetch" /\ run[x] # NoRun /\ run[x] \in Runs
  BY RunFacts DEF WriteLinks, TransferInv, Typed
<1>2. UNCHANGED <<origin, request, inbound, stored, job, expired, trusted, faults>>
  BY DEF WriteLinks
<1>3. \/ run[x].got # {} /\ linked' = run[x].got /\ Strays(x)
      \/ run[x].got = {} /\ UNCHANGED draft
  BY <1>2 DEF WriteLinks, draft
<1>4. /\ linked' \subseteq Files
      /\ linked # {} => linked' # {}
      /\ strayed => strayed'
  <2>1. run[x].got \subseteq Files
    BY <1>1 DEF Runs
  <2>2. linked' \subseteq Files /\ (linked # {} => linked' # {})
    BY <1>3, <2>1 DEF TransferInv, Typed, draft
  <2>3. strayed => strayed'
    BY <1>3, Zenon DEF Strays, draft
  <2> QED  BY <2>2, <2>3
<1>5. CompleteHonest'
  <2>1. CASE inbound = "FILES_COMPLETE" /\ ~strayed' /\ run[x].got # {}
    <3>1. Holds(x) /\ ~strayed
      BY <1>3, <2>1 DEF Strays
    <3> QED  BY <1>1, <2>1, <3>1 DEF TransferInv, Attempted, AttemptedBy
  <2> QED  BY <1>2, <1>3, <1>4, <2>1 DEF TransferInv, CompleteHonest, origin, draft
<1>6. FailureShown'
  BY <1>2, <1>4 DEF TransferInv, FailureShown
<1>7. CASE x = Fallback
  <2>1. /\ run' \in [Runners -> Runs] /\ run'[x] = NoRun
        /\ \A y \in Runners \ {x} : run'[y] = run[y]
    BY <1>7, RunTyped DEF TransferInv, WriteLinks
  <2>2. request \notin {"none", "sent", "accepted"}
    BY <1>1 DEF TransferInv, Sequenced
  <2>3. Typed' /\ Sequenced'
    BY <1>2, <1>4, <2>1, <2>2 DEF TransferInv, Typed, Sequenced, origin
  <2>4. ~ Holds(x) /\ faults # 0
    BY <1>1, <1>7, RunFacts DEF TransferInv, JobRuns, Holds
  <2>5. JobRuns'
    BY <1>2, <2>1, <2>4, RunFacts DEF TransferInv, JobRuns, Holds
  <2>6. ASSUME NEW y \in Runners
        PROVE  AttemptedBy(y)'
    <3>1. Holds(y)' <=> Holds(y)
      BY <1>2 DEF Holds
    <3>2. CASE y = x
      BY <1>2, <2>1, <2>4, <3>1, <3>2, RunFacts DEF AttemptedBy
    <3>3. CASE y # x /\ run[x].got = {}
      BY <1>2, <1>3, <2>1, <3>1, <3>3 DEF TransferInv, Attempted, AttemptedBy, draft
    <3>4. CASE y # x /\ run[x].got # {}
      <4>1. strayed' /\ linked' # {}
        BY <1>3, <2>4, <3>4 DEF Strays
      <4> QED  BY <1>2, <2>1, <3>1, <3>4, <4>1 DEF TransferInv, Attempted, AttemptedBy
    <3> QED  BY <3>2, <3>3, <3>4
  <2> QED  BY <1>5, <1>6, <2>3, <2>5, <2>6 DEF TransferInv, Attempted
<1>8. CASE x # Fallback
  <2>1. /\ run' \in [Runners -> Runs]
        /\ run'[x].pc = "status" /\ run'[x].got = run[x].got /\ run'[x].made = run[x].made
        /\ \A y \in Runners \ {x} : run'[y] = run[y]
    BY <1>8, RunTyped DEF TransferInv, WriteLinks
  <2>2. /\ request \notin {"none", "sent", "accepted"} /\ JobRuns'
        /\ \A y \in Runners : Holds(y)' <=> Holds(y)
        /\ \A y \in Runners \ {x} : AttemptedBy(y)'
    BY <1>1, <1>2, <1>3, <1>4, <2>1, RunGoesOn
  <2>3. Typed' /\ Sequenced'
    BY <1>2, <1>4, <2>1, <2>2 DEF TransferInv, Typed, Sequenced, origin
  <2>4. AttemptedBy(x)'
    BY <1>1, <1>2, <1>3, <1>4, <2>1, <2>2 DEF TransferInv, Attempted, AttemptedBy
  <2> QED  BY <1>5, <1>6, <2>2, <2>3, <2>4 DEF TransferInv, Attempted
<1> QED  BY <1>7, <1>8

LEMMA StatusStep ==
  ASSUME TransferInv, NEW x \in Runners, WriteStatus(x)
  PROVE  TransferInv'
<1> DEFINE next == IF run[x].got = manifest THEN "return" ELSE "throw"
<1>1. run[x].pc = "status" /\ run[x] # NoRun /\ run[x] \in Runs
  BY RunFacts DEF WriteStatus, TransferInv, Typed
<1>2. /\ UNCHANGED <<origin, request, linked, stored, job, expired, trusted, faults>>
      /\ inbound' = Verdict(x) /\ Goto(x, next)
      /\ \/ UNCHANGED draft
         \/ inbound' # inbound /\ Strays(x)
  BY DEF WriteStatus, draft
<1>3. /\ run' \in [Runners -> Runs]
      /\ run'[x].pc = next /\ run'[x].got = run[x].got /\ run'[x].made = run[x].made
      /\ \A y \in Runners \ {x} : run'[y] = run[y]
  BY <1>2, RunTyped DEF TransferInv
<1>4. /\ request \notin {"none", "sent", "accepted"} /\ JobRuns'
      /\ \A y \in Runners : Holds(y)' <=> Holds(y)
      /\ \A y \in Runners \ {x} : AttemptedBy(y)'
      /\ faults' = 0 => Holds(x)
  BY <1>1, <1>2, <1>3, RunGoesOn
<1>5. /\ inbound' \in {inbound, "FILES_COMPLETE", "FAILED"}
      /\ inbound' = "FILES_COMPLETE" =>
           run[x].got = manifest \/ inbound = "FILES_COMPLETE"
      /\ strayed => strayed'
  <2>1. strayed => strayed'
    BY <1>2, Zenon DEF Strays, draft
  <2> QED  BY <1>2, <2>1 DEF Verdict
<1>6. Typed' /\ Sequenced'
  BY <1>2, <1>3, <1>4, <1>5 DEF TransferInv, Typed, Sequenced, origin, InboundStatuses
<1>7. AttemptedBy(x)'
  <2>1. run[x].got \subseteq stored
    BY DEF TransferInv, Attempted, AttemptedBy
  <2>2. next = "throw" => \/ inbound' = "FAILED" \/ linked # {} \/ run[x].made + 1 < Attempts
    <3>1. run[x].got # {} => linked # {}
      BY <1>1 DEF TransferInv, Attempted, AttemptedBy
    <3>2. run[x].made \in Nat /\ Attempts \in Nat
      BY RunTyped, TransferAssumption DEF TransferInv
    <3> QED  BY <1>2, <3>1, <3>2 DEF Verdict, Last
  <2> QED  BY <1>2, <1>3, <2>1, <2>2 DEF AttemptedBy
<1>8. CompleteHonest'
  <2>1. CASE inbound = "FILES_COMPLETE"
    BY <1>2, <1>5, <2>1 DEF TransferInv, CompleteHonest, origin
  <2>2. CASE inbound # "FILES_COMPLETE" /\ inbound' = "FILES_COMPLETE"
    <3>1. run[x].got = manifest /\ Strays(x)
      BY <1>2, <1>5, <2>2 DEF draft
    <3>2. manifest # {} /\ manifest \subseteq stored
      BY <1>4, <3>1 DEF TransferInv, Sequenced, Attempted, AttemptedBy
    <3>3. ~ strayed' => linked = manifest
      BY <1>1, <3>1, <3>2 DEF TransferInv, Attempted, AttemptedBy, Strays
    <3> QED  BY <1>2, <3>2, <3>3 DEF CompleteHonest, origin
  <2> QED  BY <2>1, <2>2 DEF CompleteHonest
<1>9. FailureShown'
  <2>1. faults > 0 \/ job.state = "active"
    BY <1>2, <1>4 DEF TransferInv, Typed, Holds
  <2> QED  BY <1>2, <2>1 DEF FailureShown
<1> QED  BY <1>4, <1>6, <1>7, <1>8, <1>9 DEF TransferInv, Attempted

(* The ends of a run.                                                      *)
LEMMA EndStep ==
  ASSUME TransferInv, NEW x \in Runners, Return(x) \/ Throw(x)
  PROVE  TransferInv'
<1>1. run[x].pc \in {"return", "throw"} /\ run[x] # NoRun /\ Leaves(x)
  BY RunFacts DEF Return, Throw
<1>2. UNCHANGED <<origin, request, draft, stored, expired, trusted, faults>>
  BY DEF Return, Throw
<1>3. job.made \in 0..Attempts /\ Attempts \in Nat
  BY JobTyped, TransferAssumption DEF TransferInv
<1>4. CASE Return(x)
  <2>1. MoveJob(x, "completed", job.made)
    BY <1>4 DEF Return
  <2> QED  BY <1>1, <1>2, <1>3, <2>1, RunEnds
<1>5. CASE Throw(x)
  <2>1. run[x].pc = "throw" /\ run[x].made \in Nat
    BY <1>5, RunTyped DEF Throw, TransferInv
  <2>2. CASE Holds(x)
    <3> DEFINE st == IF Last(x) THEN "failed" ELSE "waiting"
    <3>1. MoveJob(x, st, job.made + 1)
      BY <1>5 DEF Throw
    <3>2. run[x].made = job.made /\ job.made < Attempts
      BY <1>1, <2>2 DEF TransferInv, JobRuns, Holds
    <3>3. job.made + 1 \in 0..Attempts /\ (st = "waiting" => job.made + 1 < Attempts)
      BY <1>3, <3>2 DEF Last
    <3>4. st = "failed" => \/ inbound = "FAILED" \/ linked # {} \/ faults > 0 \/ AuditRefuses
      <4>1. faults \in Nat
        BY TransferAssumption DEF TransferInv, Typed
      <4>2. st = "failed" => ~(run[x].made + 1 < Attempts)
        BY <1>3, <2>1 DEF Last
      <4> QED  BY <2>1, <4>1, <4>2 DEF TransferInv, Attempted, AttemptedBy
    <3>5. st \in {"waiting", "completed", "failed"}
      OBVIOUS
    <3> QED  BY <1>1, <1>2, <3>1, <3>3, <3>4, <3>5, RunEnds
  <2>3. CASE ~ Holds(x)
    <3>1. MoveJob(x, "completed", job.made)
      BY <1>5, <2>3 DEF Throw, MoveJob
    <3> QED  BY <1>1, <1>2, <1>3, <3>1, RunEnds
  <2> QED  BY <2>2, <2>3
<1> QED  BY <1>4, <1>5

LEMMA StartStep ==
  ASSUME TransferInv, Start
  PROVE  TransferInv'
<1> DEFINE w == FreeWorker
<1>1. w \in Workers /\ w \in Runners /\ run[w] = NoRun
  BY DEF Start, FreeWorker, IdleWorkers, Runners
<1>2. /\ job.state = "waiting"
      /\ job' = [job EXCEPT !.state = "active", !.by = w]
      /\ run' = [run EXCEPT ![w] = [NoRun EXCEPT !.pc = "begin", !.made = job.made]]
      /\ UNCHANGED <<origin, request, draft, stored, expired, trusted, faults>>
  BY DEF Start
<1> HIDE DEF w
<1>3. /\ job' \in Jobs /\ job'.state = "active" /\ job'.by = w /\ job'.made = job.made
  BY <1>1, <1>2 DEF TransferInv, Typed, Jobs
<1>4. /\ run' \in [Runners -> Runs]
      /\ run'[w].pc = "begin" /\ run'[w].got = {} /\ run'[w].made = job.made
      /\ \A y \in Runners \ {w} : run'[y] = run[y]
  <2>1. [NoRun EXCEPT !.pc = "begin", !.made = job.made] \in Runs
    BY JobTyped DEF TransferInv, NoRun, Runs
  <2> QED  BY <1>1, <1>2, <2>1 DEF TransferInv, Typed, NoRun
<1>5. \A y \in Runners : Holds(y)' <=> y = w
  BY <1>1, <1>3 DEF Holds
<1>6. request \notin {"none", "sent", "accepted"}
  BY <1>2, RunFacts DEF TransferInv, Sequenced
<1>7. Typed' /\ Sequenced'
  BY <1>2, <1>3, <1>4, <1>6 DEF TransferInv, Typed, Sequenced, origin, draft
<1>8. faults = 0 => \A y \in Runners : run[y] = NoRun
  BY <1>2 DEF TransferInv, JobRuns, Holds
<1>9. JobRuns'
  BY <1>1, <1>2, <1>3, <1>4, <1>5, <1>8, RunFacts DEF TransferInv, JobRuns, Attended
<1>10. Attempted'
  BY <1>1, <1>2, <1>4, <1>5, RunFacts DEF TransferInv, Attempted, AttemptedBy, draft
<1>11. CompleteHonest' /\ FailureShown'
  BY <1>2, <1>3 DEF TransferInv, CompleteHonest, FailureShown, origin, draft
<1> QED  BY <1>7, <1>9, <1>10, <1>11 DEF TransferInv

(* Errors, deaths and expired locks.                                       *)
LEMMA ErrsStep ==
  ASSUME TransferInv, NEW x \in Runners, Errs(x) \/ Dies(x)
  PROVE  TransferInv'
<1>1. run[x] # NoRun /\ UNCHANGED <<origin, request, draft, stored, job, expired, trusted>>
  BY RunFacts DEF Errs, Dies
<1>2. faults' \in 0..MaxFaults /\ faults' > 0
  BY TransferAssumption DEF Errs, Dies, Fault, TransferInv, Typed
<1>3. /\ run' \in [Runners -> Runs] /\ \A y \in Runners \ {x} : run'[y] = run[y]
      /\ \/ run'[x] = NoRun
         \/ run'[x].pc = "throw" /\ run'[x].got = run[x].got /\ run'[x].made = run[x].made
  BY RunTyped DEF Errs, Dies, TransferInv
<1>4. request \notin {"none", "sent", "accepted"}
  BY <1>1 DEF TransferInv, Sequenced
<1>5. Typed' /\ Sequenced'
  BY <1>1, <1>2, <1>3, <1>4 DEF TransferInv, Typed, Sequenced, origin, draft
<1>6. JobRuns'
  BY <1>1, <1>2, <1>3, RunFacts DEF TransferInv, JobRuns, Holds
<1>7. Attempted'
  BY <1>1, <1>2, <1>3, RunFacts DEF TransferInv, Attempted, AttemptedBy, Holds, draft
<1>8. CompleteHonest' /\ FailureShown'
  BY <1>1, <1>2 DEF TransferInv, CompleteHonest, FailureShown, origin, draft
<1> QED  BY <1>5, <1>6, <1>7, <1>8 DEF TransferInv

LEMMA StallStep ==
  ASSUME TransferInv, Stall
  PROVE  TransferInv'
<1>1. /\ job.state = "active"
      /\ UNCHANGED <<origin, request, draft, stored, run, expired, trusted>>
  BY DEF Stall
<1>2. faults' \in 0..MaxFaults /\ faults' > 0
  <2>1. CASE Attended
    BY <2>1, TransferAssumption DEF Stall, Fault, TransferInv, Typed
  <2>2. CASE ~ Attended
    <3>1. faults # 0 /\ faults' = faults
      BY <1>1, <2>2 DEF Stall, NoFault, TransferInv, JobRuns
    <3> QED  BY <3>1, TransferAssumption DEF TransferInv, Typed
  <2> QED  BY <2>1, <2>2
<1>3. job' \in Jobs /\ job'.state \in {"waiting", "failed"} /\ job'.made = job.made
  <2>1. CASE job.stalls < MaxStalls
    <3>1. job' = [job EXCEPT !.state = "waiting", !.by = NoWorker, !.stalls = @ + 1]
      BY <2>1 DEF Stall
    <3>2. job.stalls + 1 \in 0..MaxStalls
      BY <2>1, JobTyped, TransferAssumption DEF TransferInv
    <3> QED  BY <3>1, <3>2 DEF TransferInv, Typed, Jobs
  <2>2. CASE ~(job.stalls < MaxStalls)
    <3>1. job' = [job EXCEPT !.state = "failed", !.by = NoWorker]
      BY <2>2 DEF Stall
    <3> QED  BY <3>1 DEF TransferInv, Typed, Jobs
  <2> QED  BY <2>1, <2>2
<1>4. request \notin {"none", "sent", "accepted"}
  BY <1>1, RunFacts DEF TransferInv, Sequenced
<1>5. Typed' /\ Sequenced'
  BY <1>1, <1>2, <1>3, <1>4 DEF TransferInv, Typed, Sequenced, origin, draft
<1>6. JobRuns'
  BY <1>1, <1>2, <1>3 DEF TransferInv, JobRuns, Holds
<1>7. Attempted'
  BY <1>1, <1>2, <1>3 DEF TransferInv, Attempted, AttemptedBy, Holds, draft
<1>8. CompleteHonest' /\ FailureShown'
  BY <1>1, <1>2 DEF TransferInv, CompleteHonest, FailureShown, origin, draft
<1> QED  BY <1>5, <1>6, <1>7, <1>8 DEF TransferInv

LEMMA TransferStep ==
  ASSUME TransferInv, [Next]_vars
  PROVE  TransferInv'
<1>1. CASE UNCHANGED vars
  BY <1>1 DEF vars, origin, draft, TransferInv, Typed, Sequenced, JobRuns, Attempted,
     AttemptedBy, Holds, Attended, CompleteHonest, FailureShown
<1>2. CASE \E x \in Runners : Working(x)
  <2>1. PICK x \in Runners : Working(x)
    BY <1>2
  <2>2. CASE \E f \in Files : Fetch(x, f) \/ FetchFails(x, f)
    BY <2>2, FetchStep
  <2>3. CASE ~ \E f \in Files : Fetch(x, f) \/ FetchFails(x, f)
    BY <2>1, <2>3, BeginStep, ResolveStep, LinksStep, StatusStep, EndStep DEF Working
  <2> QED  BY <2>2, <2>3
<1>3. CASE \E x \in Runners : Errs(x) \/ Dies(x)
  BY <1>3, ErrsStep
<1> QED
  BY <1>1, <1>2, <1>3, OriginStep, RequestStep, StartStep, StallStep DEF Next

LEMMA TransferAlways == Spec => []TransferInv
  BY TransferBegins, TransferStep, PTL DEF Spec

(* The records' statuses, the job and its runs stay typed; in particular   *)
(* no job is attempted more often than the queue grants.                   *)
THEOREM TransferTyped == Spec => []TypeOK
<1>1. Flags /\ [Next]_vars => Flags'
  <2> USE DEF Flags
  <2>1. CASE Post \/ Initiating \/ CancelReads \/ CancelWrites \/ MarkRequested \/ Expire
             \/ Revoke \/ \E f \in Files : FileGone(f)
    BY <2>1, Zenon DEF Post, Initiating, Record, InitiatorDies, CancelReads, CancelWrites,
       MarkRequested, Expire, Revoke, FileGone, origin, draft
  <2>2. CASE Accept \/ RequestLost \/ Enqueue \/ FallBack \/ Start \/ Stall
    BY <2>2, Zenon DEF Accept, RequestLost, Enqueue, FallBack, Start, Stall, origin, draft
  <2>3. CASE \E x \in Runners : Working(x) \/ Errs(x) \/ Dies(x)
    <3>1. PICK x \in Runners : Working(x) \/ Errs(x) \/ Dies(x)
      BY <2>3
    <3>2. CASE Begin(x) \/ ResolvePeer(x) \/ WriteLinks(x) \/ WriteStatus(x)
      <4>1. UNCHANGED <<origin, expired, trusted>> /\ (UNCHANGED strayed \/ Strays(x))
        BY <3>2, Zenon DEF Begin, ResolvePeer, WriteLinks, WriteStatus, draft
      <4> QED  BY <4>1, Zenon DEF Strays, origin
    <3>3. CASE Return(x) \/ Throw(x) \/ Errs(x) \/ Dies(x)
      BY <3>3, Zenon DEF Return, Throw, Errs, Dies, origin, draft
    <3>4. CASE \E f \in Files : Fetch(x, f) \/ FetchFails(x, f)
      BY <3>4, Zenon DEF Fetch, FetchFails, origin, draft
    <3> QED  BY <3>1, <3>2, <3>3, <3>4 DEF Working
  <2>4. CASE UNCHANGED vars
    BY <2>4, Zenon DEF vars, origin, draft
  <2> QED  BY <2>1, <2>2, <2>3, <2>4 DEF Next
<1>2. Init => Flags
  BY DEF Init, Flags
<1>3. TransferInv /\ Flags => TypeOK
  BY DEF TransferInv, Typed, Flags, TypeOK
<1> QED  BY <1>1, <1>2, <1>3, TransferAlways, PTL DEF Spec

(* FILES_COMPLETE is true of the draft: every file of the manifest is      *)
(* stored, and linked unless a run that had lost its lock, or a fallback   *)
(* beside a job, has written as well (transfer-fetch.worker.ts).           *)
THEOREM CompleteIsHonest == Spec => []CompleteHonest
<1>1. TransferInv => CompleteHonest
  BY DEF TransferInv
<1> QED  BY <1>1, TransferAlways, PTL

(* A job that gave up without a fault, an expired token, an end of trust   *)
(* or a refused audit row is FAILED or has linked files                    *)
(* (transfer-fetch.worker.ts).                                             *)
THEOREM FailureIsShown == Spec => []FailureShown
<1>1. TransferInv => FailureShown
  BY DEF TransferInv
<1> QED  BY <1>1, TransferAlways, PTL

(* No update that is on its way takes a cancellation back                  *)
(* (transfer.service.ts: cancelTransfer, verifyTransferToken).             *)
THEOREM CancelledStays == Spec => CancelFinal
<1>1. TransferInv /\ [Next]_vars => [rec = "CANCELLED" => rec' = "CANCELLED"]_rec
  <2> SUFFICES ASSUME TransferInv, Next, rec = "CANCELLED" PROVE rec' = "CANCELLED"
    BY DEF vars, origin
  <2>1. ini = "recorded"
    BY DEF TransferInv, Sequenced
  <2> QED
    BY <2>1 DEF Next, Post, Initiating, Record, InitiatorDies, CancelReads, CancelWrites,
       MarkRequested, StillPending, Accept, RequestLost, Enqueue, FallBack, Working, Start,
       Begin, ResolvePeer, WriteLinks, WriteStatus, Return, Throw, Fetch, FetchFails, Errs,
       Dies, Stall, FileGone, Expire, Revoke, origin
<1> QED  BY <1>1, TransferAlways, PTL DEF Spec, CancelFinal

-----------------------------------------------------------------------------
(* Simultaneous submissions                                                *)

(* While a submit request runs, its submission is a draft, or gone.        *)
Asking(s) == req[s].pc # "idle" => status[s] \in {"DRAFT", "closed"}

(* What a check in progress keeps of the conflicts that last: each still   *)
(* is one, and ...                                                         *)
Lasting(s) ==
  /\ steady[s] \subseteq ConflictsOf(s)
  /\ req[s].pc \in {"idle", "look up", "compute"} => steady[s] = {}

(* ... has been found, or will be looked for yet -- a sibling by its       *)
(* manuscript, as its fingerprint may change meanwhile --; a remote may    *)
(* have failed to answer.                                                  *)
ByManuscript(s, t) == Sibling(version[s], version[t]) /\ FewSiblings(version[s])

LookedFor(s) ==
  req[s].pc = "check" =>
    /\ \A t \in Submissions : <<"here", t>> \in steady[s] =>
         /\ ByManuscript(s, t) => "sibling" \in req[s].todo \/ req[s].found
         /\ ~ ByManuscript(s, t) => "local" \in req[s].todo \/ req[s].found
    /\ \A w \in Versions : <<"disclosed", w>> \in steady[s] =>
         "disclosed" \in req[s].todo \/ req[s].found
    /\ \A r \in Remotes : <<"abroad", r>> \in steady[s] =>
         r \in req[s].todo \/ req[s].found \/ req[s].partial

(* The verdict stands when the request goes on to submit.                  *)
Judged(s) ==
  req[s].pc = "submit" =>
    \/ steady[s] = {}
    \/ req[s].found /\ policy[s] # "prohibited"
    \/ steady[s] \subseteq {"abroad"} \X Remotes /\ req[s].partial

Kept(s) == Asking(s) /\ Lasting(s) /\ LookedFor(s) /\ Judged(s)

SimSubInv == SimSubTypeOK /\ \A s \in Submissions : Kept(s)

LEMMA IdleRequest == Idle \in Requests /\ Idle.pc = "idle"
  BY DEF Idle, Requests

LEMMA ConflictsType ==
  ASSUME disclosed \subseteq Versions, known \subseteq Remotes, NEW s \in Submissions
  PROVE  ConflictsOf(s) \subseteq Conflicts
<1>1. Local(s) \subseteq Submissions /\ Siblings(s) \subseteq Submissions
  BY DEF Local, Siblings, ActiveElsewhere
<1>2. Disclosed(s) \subseteq Versions /\ Abroad(s) \subseteq Remotes
  BY DEF Disclosed, Abroad
<1> QED  BY <1>1, <1>2 DEF ConflictsOf, Conflicts

(* A conflict among submissions is one of two kinds.                       *)
LEMMA ConflictHere ==
  ASSUME NEW s \in Submissions, NEW t \in Submissions, <<"here", t>> \in ConflictsOf(s)
  PROVE  /\ t \in ActiveElsewhere(s)
         /\ ByManuscript(s, t) \/ t \in Local(s)
  BY DEF ConflictsOf, Local, Siblings, ByManuscript

LEMMA ConflictsStay ==
  ASSUME NEW s \in Submissions, UNCHANGED <<decided, status, version, prints, elsewhere>>,
         req'[s].print = req[s].print
  PROVE  ConflictsOf(s)' = ConflictsOf(s)
BY DEF decided, elsewhere, ConflictsOf, Local, Siblings, ActiveElsewhere, Disclosed, Abroad

LEMMA SimSubBegins == SimSubInit => SimSubInv
<1> SUFFICES ASSUME SimSubInit PROVE SimSubInv
  OBVIOUS
<1>1. req \in [Submissions -> Requests] /\ \A s \in Submissions : req[s].pc = "idle"
  BY IdleRequest DEF SimSubInit
<1>2. SimSubTypeOK
  BY <1>1, SimSubAssumption DEF SimSubInit, SimSubTypeOK, Statuses, Conflicts
<1>3. \A s \in Submissions : steady[s] = {}
  BY DEF SimSubInit
<1> QED  BY <1>1, <1>2, <1>3 DEF SimSubInv, Kept, Asking, Lasting, LookedFor, Judged

(* A submission whose request stands still loses at most conflicts.        *)
LEMMA StandsStill ==
  ASSUME SimSubInv, NEW s \in Submissions, req'[s] = req[s], policy' = policy,
         steady'[s] \subseteq steady[s], steady'[s] \subseteq ConflictsOf(s)',
         req[s].pc # "idle" =>
           version'[s] = version[s] /\ status'[s] \in {"DRAFT", "closed"},
         \A t \in Submissions : status[t] = "active" => version'[t] = version[t]
  PROVE  Kept(s)'
<1>0. Asking(s) /\ Lasting(s) /\ LookedFor(s) /\ Judged(s)
  BY DEF SimSubInv, Kept
<1>1. ASSUME req[s].pc = "check", NEW t \in Submissions, <<"here", t>> \in steady'[s]
      PROVE  <<"here", t>> \in steady[s] /\ (ByManuscript(s, t)' <=> ByManuscript(s, t))
  <2>1. <<"here", t>> \in ConflictsOf(s)
    BY <1>0, <1>1 DEF Lasting
  <2>2. status[t] = "active"
    BY <2>1, ConflictHere DEF ActiveElsewhere
  <2> QED  BY <1>1, <2>2 DEF ByManuscript, Sibling, FewSiblings
<1>2. LookedFor(s)'
  BY <1>0, <1>1 DEF LookedFor
<1>3. Asking(s)' /\ Lasting(s)' /\ Judged(s)'
  BY <1>0 DEF Asking, Lasting, Judged
<1> QED  BY <1>2, <1>3 DEF Kept

(* The world moves on: what is steady is cut down to what still conflicts. *)
LEMMA WorldMoves ==
  ASSUME SimSubInv, Change, UNCHANGED <<policy, duty, req, prints>>,
         override' \subseteq Submissions,
         status' \in [Submissions -> Statuses],
         version' \in [Submissions -> Versions],
         content' \in [Versions -> Contents],
         disclosed' \subseteq Versions, known' \subseteq Remotes,
         abroad' \in [Remotes -> SUBSET Contents],
         \A t \in Submissions :
           /\ status[t] \in {"DRAFT", "closed"} =>
                version'[t] = version[t] /\ status'[t] \in {"DRAFT", "closed"}
           /\ status[t] = "active" => version'[t] = version[t]
  PROVE  SimSubInv'
<1>1. changes' \in 0..MaxChanges
  BY SimSubAssumption DEF Change, SimSubInv, SimSubTypeOK
<1>2. /\ steady' \in [Submissions -> SUBSET Conflicts]
      /\ \A s \in Submissions :
           steady'[s] \subseteq steady[s] /\ steady'[s] \subseteq ConflictsOf(s)'
  <2>1. steady' = [s \in Submissions |-> {c \in steady[s] : c \in ConflictsOf(s)'}]
    BY DEF Change
  <2> QED  BY <2>1 DEF SimSubInv, SimSubTypeOK
<1>3. SimSubTypeOK'
  BY <1>1, <1>2 DEF SimSubInv, SimSubTypeOK
<1>4. ASSUME NEW s \in Submissions
      PROVE  Kept(s)'
  <2>1. req'[s] = req[s]
    OBVIOUS
  <2>2. req[s].pc # "idle" => status[s] \in {"DRAFT", "closed"}
    BY DEF SimSubInv, Kept, Asking
  <2> QED  BY <1>2, <2>1, <2>2, StandsStill
<1> QED  BY <1>3, <1>4 DEF SimSubInv

(* One request takes a step and nothing else moves.                        *)
LEMMA RequestMoves ==
  ASSUME SimSubInv, NEW s \in Submissions, NEW x \in Requests, NEW S \in SUBSET Conflicts,
         req' = [req EXCEPT ![s] = x], steady' = [steady EXCEPT ![s] = S],
         UNCHANGED <<decided, status, version, content, prints, elsewhere, changes>>,
         Kept(s)'
  PROVE  SimSubInv'
<1> USE DEF decided, elsewhere
<1>1. /\ req \in [Submissions -> Requests]
      /\ steady \in [Submissions -> SUBSET Conflicts]
  BY DEF SimSubInv, SimSubTypeOK
<1>2. SimSubTypeOK'
  BY <1>1 DEF SimSubInv, SimSubTypeOK
<1>3. ASSUME NEW u \in Submissions \ {s}
      PROVE  Kept(u)'
  <2>1. req'[u] = req[u] /\ steady'[u] = steady[u]
    BY <1>1, <1>3
  <2>2. ConflictsOf(u)' = ConflictsOf(u)
    BY <2>1, ConflictsStay
  <2>3. steady[u] \subseteq ConflictsOf(u) /\ (req[u].pc # "idle" => status[u] \in {"DRAFT", "closed"})
    BY DEF SimSubInv, Kept, Lasting, Asking
  <2> QED  BY <2>1, <2>2, <2>3, StandsStill
<1> QED  BY <1>2, <1>3 DEF SimSubInv

(* A request gets its fingerprint; another's may be computed again.        *)
LEMMA PrintStep ==
  ASSUME SimSubInv, NEW s \in Submissions, NEW p \in Contents, HasPrint(s, p),
         req[s].pc \in {"look up", "compute"},
         prints' \in [Versions -> Contents \cup {NoPrint}],
         UNCHANGED <<decided, status, version, content, elsewhere, changes>>
  PROVE  SimSubInv'
<1> DEFINE x == [req[s] EXCEPT !.pc = "check", !.print = p, !.todo = Checks]
<1>1. /\ req \in [Submissions -> Requests] /\ req[s] \in Requests
      /\ steady \in [Submissions -> SUBSET Conflicts]
      /\ disclosed \subseteq Versions /\ known \subseteq Remotes
  BY DEF SimSubInv, SimSubTypeOK
<1>2. x \in Requests /\ x.pc = "check" /\ x.todo = Checks
  BY <1>1 DEF Requests
<1>3. req' = [req EXCEPT ![s] = x]
  BY <1>1 DEF HasPrint
<1>4. steady' = [t \in Submissions |->
        IF t = s THEN ConflictsOf(s)' ELSE {c \in steady[t] : c \in ConflictsOf(t)'}]
  BY DEF HasPrint
<1> HIDE DEF x
<1>5. disclosed' \subseteq Versions /\ known' \subseteq Remotes
  BY <1>1 DEF elsewhere
<1>6. ConflictsOf(s)' \subseteq Conflicts
  <2>1. Local(s)' \subseteq Submissions /\ Siblings(s)' \subseteq Submissions
    BY DEF Local, Siblings, ActiveElsewhere
  <2>2. Disclosed(s)' \subseteq Versions /\ Abroad(s)' \subseteq Remotes
    BY <1>5 DEF Disclosed, Abroad
  <2> QED  BY <2>1, <2>2 DEF ConflictsOf, Conflicts
<1>7. /\ steady' \in [Submissions -> SUBSET Conflicts]
      /\ steady'[s] = ConflictsOf(s)'
      /\ \A t \in Submissions \ {s} :
           steady'[t] \subseteq steady[t] /\ steady'[t] \subseteq ConflictsOf(t)'
  BY <1>1, <1>4, <1>6
<1>8. SimSubTypeOK'
  BY <1>1, <1>2, <1>3, <1>7 DEF SimSubInv, SimSubTypeOK, decided, elsewhere
<1>9. ASSUME NEW u \in Submissions \ {s}
      PROVE  Kept(u)'
  <2>1. req'[u] = req[u]
    BY <1>1, <1>3
  <2>2. req[u].pc # "idle" => status[u] \in {"DRAFT", "closed"}
    BY DEF SimSubInv, Kept, Asking
  <2> QED  BY <1>7, <2>1, <2>2, StandsStill DEF decided
<1>10. Kept(s)'
  <2>1. req'[s] = x
    BY <1>1, <1>3
  <2>2. status'[s] \in {"DRAFT", "closed"}
    BY DEF SimSubInv, Kept, Asking
  <2>3. Asking(s)' /\ Lasting(s)' /\ Judged(s)'
    BY <1>2, <1>7, <2>1, <2>2 DEF Asking, Lasting, Judged
  <2>4. LookedFor(s)'
    BY <1>2, <2>1 DEF LookedFor, Checks
  <2> QED  BY <2>3, <2>4 DEF Kept
<1> QED  BY <1>8, <1>9, <1>10 DEF SimSubInv

(* A request ends.                                                         *)
LEMMA EndsStep ==
  ASSUME SimSubInv, NEW s \in Submissions, Ends(s),
         UNCHANGED <<decided, status, version, content, prints, elsewhere, changes>>
  PROVE  SimSubInv'
<1>1. req' = [req EXCEPT ![s] = Idle] /\ steady' = [steady EXCEPT ![s] = {}]
  BY DEF Ends
<1>2. req'[s] = Idle /\ steady'[s] = {}
  BY <1>1 DEF SimSubInv, SimSubTypeOK
<1>3. Kept(s)'
  BY <1>2, IdleRequest DEF Kept, Asking, Lasting, LookedFor, Judged
<1>4. {} \in SUBSET Conflicts
  OBVIOUS
<1> QED  BY <1>1, <1>3, <1>4, IdleRequest, RequestMoves

LEMMA CheckStep ==
  ASSUME SimSubInv, NEW s \in Submissions, NEW check \in Checks, Check(s, check)
  PROVE  SimSubInv'
<1>0. /\ req \in [Submissions -> Requests] /\ req[s] \in Requests
      /\ steady \in [Submissions -> SUBSET Conflicts] /\ steady[s] \in SUBSET Conflicts
  BY DEF SimSubInv, SimSubTypeOK
<1>1. PICK seen \in Sees(s, check) :
        req' = [req EXCEPT ![s].todo = @ \ {check}, ![s].found = @ \/ seen]
  BY DEF Check
<1>2. seen \in BOOLEAN
  BY DEF Sees
<1> DEFINE x == [req[s] EXCEPT !.todo = @ \ {check}, !.found = @ \/ seen]
<1>3. /\ req[s].found \in BOOLEAN /\ req[s].pc = "check" /\ check \in req[s].todo
      /\ UNCHANGED <<decided, status, version, content, prints, elsewhere, changes, steady>>
  BY <1>0 DEF Check, Requests
<1>4. (req[s].found \/ seen) \in BOOLEAN
  OBVIOUS
<1>5. /\ x \in Requests /\ x.pc = "check" /\ x.print = req[s].print
      /\ x.todo = req[s].todo \ {check} /\ x.partial = req[s].partial
      /\ x.found = (req[s].found \/ seen)
  BY <1>0, <1>3, <1>4 DEF Requests
<1>6. req' = [req EXCEPT ![s] = x] /\ steady' = [steady EXCEPT ![s] = steady[s]]
  BY <1>0, <1>1, <1>3
<1> HIDE DEF x
<1>7. req'[s] = x /\ steady'[s] = steady[s]
  BY <1>0, <1>6
<1>8. /\ steady[s] \subseteq ConflictsOf(s) /\ LookedFor(s)
      /\ status[s] \in {"DRAFT", "closed"}
  BY <1>3 DEF SimSubInv, Kept, Lasting, Asking
<1>9. Asking(s)' /\ Lasting(s)' /\ Judged(s)'
  <2>1. ConflictsOf(s)' = ConflictsOf(s)
    BY <1>3, <1>5, <1>7, ConflictsStay
  <2> QED  BY <1>3, <1>5, <1>7, <1>8, <2>1 DEF Asking, Lasting, Judged
<1>10. ASSUME NEW t \in Submissions, <<"here", t>> \in steady[s]
       PROVE  /\ ByManuscript(s, t) => "sibling" \in x.todo \/ x.found
              /\ ~ ByManuscript(s, t) => "local" \in x.todo \/ x.found
  <2>1. t \in ActiveElsewhere(s) /\ (ByManuscript(s, t) \/ t \in Local(s))
    BY <1>8, <1>10, ConflictHere
  <2>2. check = "local" /\ ~ ByManuscript(s, t) => seen = TRUE
    BY <2>1 DEF Sees
  <2>3. check = "sibling" /\ ByManuscript(s, t) => seen = TRUE
    BY <2>1 DEF Sees, Siblings, ByManuscript
  <2> QED  BY <1>3, <1>5, <1>8, <1>10, <2>2, <2>3 DEF LookedFor
<1>11. ASSUME NEW w \in Versions, <<"disclosed", w>> \in steady[s]
       PROVE  "disclosed" \in x.todo \/ x.found
  <2>1. w \in Disclosed(s)
    BY <1>8, <1>11 DEF ConflictsOf
  <2>2. check = "disclosed" => seen = TRUE
    BY <2>1 DEF Sees
  <2> QED  BY <1>3, <1>5, <1>8, <1>11, <2>2 DEF LookedFor
<1>12. ASSUME NEW r \in Remotes, <<"abroad", r>> \in steady[s]
       PROVE  r \in x.todo \/ x.found \/ x.partial
  <2>1. r \in Abroad(s)
    BY <1>8, <1>12 DEF ConflictsOf
  <2>2. check = r => seen = TRUE
    BY <2>1, SimSubAssumption DEF Sees
  <2> QED  BY <1>3, <1>5, <1>8, <1>12, <2>2 DEF LookedFor
<1>13. \A t \in Submissions : ByManuscript(s, t)' <=> ByManuscript(s, t)
  BY <1>3 DEF ByManuscript, Sibling, FewSiblings
<1>14. LookedFor(s)'
  BY <1>5, <1>7, <1>10, <1>11, <1>12, <1>13 DEF LookedFor
<1>15. Kept(s)'
  BY <1>9, <1>14 DEF Kept
<1> QED  BY <1>0, <1>3, <1>5, <1>6, <1>15, RequestMoves

LEMMA UnansweredStep ==
  ASSUME SimSubInv, NEW s \in Submissions, NEW r \in Remotes, Unanswered(s, r)
  PROVE  SimSubInv'
<1> DEFINE x == [req[s] EXCEPT !.todo = @ \ {r}, !.partial = TRUE]
<1>0. /\ req \in [Submissions -> Requests] /\ req[s] \in Requests
      /\ steady \in [Submissions -> SUBSET Conflicts] /\ steady[s] \in SUBSET Conflicts
  BY DEF SimSubInv, SimSubTypeOK
<1>1. /\ req[s].pc = "check" /\ r \in req[s].todo
      /\ UNCHANGED <<decided, status, version, content, prints, elsewhere, changes, steady>>
  BY DEF Unanswered
<1>2. /\ x \in Requests /\ x.pc = "check" /\ x.print = req[s].print
      /\ x.todo = req[s].todo \ {r} /\ x.partial = TRUE /\ x.found = req[s].found
  BY <1>0, <1>1 DEF Requests
<1>3. req' = [req EXCEPT ![s] = x] /\ steady' = [steady EXCEPT ![s] = steady[s]]
  BY <1>0, <1>1 DEF Unanswered
<1> HIDE DEF x
<1>4. req'[s] = x /\ steady'[s] = steady[s]
  BY <1>0, <1>3
<1>5. /\ steady[s] \subseteq ConflictsOf(s) /\ LookedFor(s)
      /\ status[s] \in {"DRAFT", "closed"}
  BY <1>1 DEF SimSubInv, Kept, Lasting, Asking
<1>6. Asking(s)' /\ Lasting(s)' /\ Judged(s)'
  <2>1. ConflictsOf(s)' = ConflictsOf(s)
    BY <1>1, <1>2, <1>4, ConflictsStay
  <2> QED  BY <1>1, <1>2, <1>4, <1>5, <2>1 DEF Asking, Lasting, Judged
<1>7. \A t \in Submissions : ByManuscript(s, t)' <=> ByManuscript(s, t)
  BY <1>1 DEF ByManuscript, Sibling, FewSiblings
<1>8. r \notin {"local", "sibling", "disclosed"}
  BY SimSubAssumption
<1>9. LookedFor(s)'
  BY <1>1, <1>2, <1>4, <1>5, <1>7, <1>8 DEF LookedFor
<1>10. Kept(s)'
  BY <1>6, <1>9 DEF Kept
<1> QED  BY <1>0, <1>1, <1>2, <1>3, <1>10, RequestMoves

LEMMA DecideStep ==
  ASSUME SimSubInv, NEW s \in Submissions, Decide(s)
  PROVE  SimSubInv'
<1> DEFINE stopped == CheckVerdict(req[s]) = "CONFLICT" /\ policy[s] = "prohibited"
           x == [req[s] EXCEPT !.pc = "submit"]
<1>0. /\ req \in [Submissions -> Requests] /\ req[s] \in Requests
      /\ steady \in [Submissions -> SUBSET Conflicts] /\ steady[s] \in SUBSET Conflicts
  BY DEF SimSubInv, SimSubTypeOK
<1>1. /\ req[s].pc = "check" /\ req[s].todo = {}
      /\ UNCHANGED <<decided, status, version, content, prints, elsewhere, changes>>
  BY DEF Decide
<1>2. CASE stopped
  BY <1>1, <1>2, EndsStep DEF Decide, Ends
<1>3. CASE ~ stopped
  <2>1. /\ x \in Requests /\ x.pc = "submit" /\ x.print = req[s].print
        /\ x.found = req[s].found /\ x.partial = req[s].partial
    BY <1>0 DEF Requests
  <2>2. req' = [req EXCEPT ![s] = x] /\ steady' = [steady EXCEPT ![s] = steady[s]]
    BY <1>0, <1>3 DEF Decide
  <2> HIDE DEF x
  <2>3. req'[s] = x /\ steady'[s] = steady[s]
    BY <1>0, <2>2
  <2>4. /\ steady[s] \subseteq ConflictsOf(s) /\ LookedFor(s)
        /\ status[s] \in {"DRAFT", "closed"}
    BY <1>1 DEF SimSubInv, Kept, Lasting, Asking
  <2>5. Asking(s)' /\ Lasting(s)' /\ LookedFor(s)'
    <3>1. ConflictsOf(s)' = ConflictsOf(s)
      BY <1>1, <2>1, <2>3, ConflictsStay
    <3> QED  BY <1>1, <2>1, <2>3, <2>4, <3>1 DEF Asking, Lasting, LookedFor
  <2>6. CASE req[s].found
    <3>1. policy[s] # "prohibited" /\ policy' = policy
      BY <1>1, <1>3, <2>6 DEF CheckVerdict, decided
    <3>2. Judged(s)'
      BY <2>1, <2>3, <2>6, <3>1 DEF Judged
    <3> QED  BY <1>0, <1>1, <2>1, <2>2, <2>5, <3>2, RequestMoves DEF Kept
  <2>7. CASE ~ req[s].found
    <3>1. \A t \in Submissions : <<"here", t>> \notin steady[s]
      BY <1>1, <2>4, <2>7 DEF LookedFor
    <3>2. \A w \in Versions : <<"disclosed", w>> \notin steady[s]
      BY <1>1, <2>4, <2>7 DEF LookedFor
    <3>3. \A r \in Remotes : <<"abroad", r>> \in steady[s] => req[s].partial
      BY <1>1, <2>4, <2>7 DEF LookedFor
    <3>4. steady[s] \subseteq {"abroad"} \X Remotes
      BY <1>0, <3>1, <3>2 DEF Conflicts
    <3>5. steady[s] = {} \/ req[s].partial
      BY <3>3, <3>4
    <3>6. Judged(s)'
      BY <2>1, <2>3, <3>4, <3>5 DEF Judged
    <3> QED  BY <1>0, <1>1, <2>1, <2>2, <2>5, <3>6, RequestMoves DEF Kept
  <2> QED  BY <2>6, <2>7
<1> QED  BY <1>2, <1>3

LEMMA SubmitStep ==
  ASSUME SimSubInv, NEW s \in Submissions, Submit(s)
  PROVE  SimSubInv'
<1>0. /\ status \in [Submissions -> Statuses]
      /\ req \in [Submissions -> Requests]
      /\ steady \in [Submissions -> SUBSET Conflicts]
  BY DEF SimSubInv, SimSubTypeOK
<1>1. /\ status[s] = "DRAFT" /\ status' = [status EXCEPT ![s] = "active"]
      /\ req' = [req EXCEPT ![s] = Idle] /\ steady' = [steady EXCEPT ![s] = {}]
      /\ UNCHANGED <<policy, override, version, content, prints, elsewhere, changes>>
  BY DEF Submit, Ends
<1>2. duty' \in [Submissions -> {"none", "notify", "withdraw"}]
  BY DEF Submit, Duty, SimSubInv, SimSubTypeOK
<1>3. SimSubTypeOK'
  BY <1>1, <1>2, IdleRequest DEF SimSubInv, SimSubTypeOK, Statuses, elsewhere
<1>4. ASSUME NEW u \in Submissions \ {s}
      PROVE  Kept(u)'
  <2>1. req'[u] = req[u] /\ steady'[u] = steady[u] /\ status'[u] = status[u]
    BY <1>0, <1>1
  <2>2. ActiveElsewhere(u) \subseteq ActiveElsewhere(u)'
    BY <1>0, <1>1 DEF ActiveElsewhere
  <2>3. ConflictsOf(u) \subseteq ConflictsOf(u)'
    BY <1>1, <2>1, <2>2
       DEF ConflictsOf, Local, Siblings, Disclosed, Abroad, elsewhere, FewSiblings, Sibling
  <2>4. steady[u] \subseteq ConflictsOf(u) /\ (req[u].pc # "idle" => status[u] \in {"DRAFT", "closed"})
    BY DEF SimSubInv, Kept, Lasting, Asking
  <2> QED  BY <1>1, <2>1, <2>3, <2>4, StandsStill
<1>5. Kept(s)'
  <2>1. req'[s] = Idle /\ steady'[s] = {}
    BY <1>0, <1>1
  <2> QED  BY <2>1, IdleRequest DEF Kept, Asking, Lasting, LookedFor, Judged
<1> QED  BY <1>3, <1>4, <1>5 DEF SimSubInv

LEMMA SimSubStep ==
  ASSUME SimSubInv, SimSubNext
  PROVE  SimSubInv'
<1>0. /\ policy \in [Submissions -> Policies]
      /\ status \in [Submissions -> Statuses]
      /\ version \in [Submissions -> Versions]
      /\ content \in [Versions -> Contents]
      /\ prints \in [Versions -> Contents \cup {NoPrint}]
      /\ disclosed \subseteq Versions /\ override \subseteq Submissions
      /\ abroad \in [Remotes -> SUBSET Contents] /\ known \subseteq Remotes
      /\ req \in [Submissions -> Requests]
      /\ steady \in [Submissions -> SUBSET Conflicts]
  BY DEF SimSubInv, SimSubTypeOK
<1>1. ASSUME NEW s \in Submissions, Moves(s) PROVE SimSubInv'
  BY <1>0, <1>1, WorldMoves DEF Moves, decided, elsewhere, Statuses
<1>2. ASSUME NEW s \in Submissions, NEW v \in Versions, Resubmits(s, v)
      PROVE  SimSubInv'
  <2>1. /\ status[s] = "revise" /\ status' = [status EXCEPT ![s] = "active"]
        /\ version' = [version EXCEPT ![s] = v] /\ Change
        /\ UNCHANGED <<decided, content, prints, elsewhere, req>>
    BY <1>2 DEF Resubmits
  <2>2. \A t \in Submissions \ {s} : version'[t] = version[t] /\ status'[t] = status[t]
    BY <1>0, <2>1
  <2>3. /\ status' \in [Submissions -> Statuses] /\ version' \in [Submissions -> Versions]
    BY <1>0, <2>1 DEF Statuses
  <2> QED  BY <1>0, <2>1, <2>2, <2>3, WorldMoves DEF decided, elsewhere
<1>3. ASSUME NEW v \in Versions, NEW c \in Contents, Edits(v, c) PROVE SimSubInv'
  BY <1>0, <1>3, WorldMoves DEF Edits, decided, elsewhere
<1>4. ASSUME NEW v \in Versions, Discloses(v) PROVE SimSubInv'
  BY <1>0, <1>4, WorldMoves DEF Discloses, decided, Toggled
<1>5. ASSUME NEW r \in Remotes, NEW c \in Contents, MovesAbroad(r, c) PROVE SimSubInv'
  BY <1>0, <1>5, WorldMoves DEF MovesAbroad, decided, Toggled
<1>6. ASSUME NEW r \in Remotes, AccountAbroad(r) PROVE SimSubInv'
  BY <1>0, <1>6, WorldMoves DEF AccountAbroad, decided, Toggled
<1>7. ASSUME NEW s \in Submissions, GrantOverride(s) PROVE SimSubInv'
  BY <1>0, <1>7, WorldMoves DEF GrantOverride, elsewhere
<1>8. ASSUME NEW s \in Submissions, BeginSubmit(s) PROVE SimSubInv'
  <2> DEFINE x == [req[s] EXCEPT !.pc = IF Exempt(s) THEN "submit" ELSE "look up"]
  <2>1. /\ req[s].pc = "idle" /\ status[s] = "DRAFT"
        /\ req' = [req EXCEPT ![s] = x] /\ steady' = [steady EXCEPT ![s] = steady[s]]
        /\ UNCHANGED <<decided, status, version, content, prints, elsewhere, changes, steady>>
    BY <1>0, <1>8 DEF BeginSubmit
  <2>2. x \in Requests /\ x.pc \in {"submit", "look up"}
    BY <1>0 DEF Requests
  <2>3. steady[s] = {} /\ steady[s] \in SUBSET Conflicts
    BY <2>1 DEF SimSubInv, Kept, Lasting
  <2> HIDE DEF x
  <2>4. req'[s] = x /\ steady'[s] = {} /\ status'[s] = "DRAFT"
    BY <1>0, <2>1, <2>3
  <2>5. Kept(s)'
    BY <2>2, <2>4 DEF Kept, Asking, Lasting, LookedFor, Judged
  <2> QED  BY <2>1, <2>2, <2>3, <2>5, RequestMoves
<1>9. ASSUME NEW s \in Submissions, LookUp(s) PROVE SimSubInv'
  <2>1. /\ req[s].pc = "look up"
        /\ UNCHANGED <<decided, status, version, content, prints, elsewhere, changes>>
    BY <1>9 DEF LookUp
  <2>2. CASE prints[version[s]] # NoPrint
    <3>1. HasPrint(s, prints[version[s]]) /\ prints[version[s]] \in Contents
      BY <1>0, <1>9, <2>2 DEF LookUp
    <3> QED  BY <1>0, <2>1, <3>1, PrintStep
  <2>3. CASE prints[version[s]] = NoPrint
    <3> DEFINE x == [req[s] EXCEPT !.pc = "compute"]
    <3>1. req' = [req EXCEPT ![s] = x] /\ steady' = [steady EXCEPT ![s] = steady[s]]
      BY <1>0, <1>9, <2>3 DEF LookUp
    <3>2. x \in Requests /\ x.pc = "compute" /\ steady[s] \in SUBSET Conflicts
      BY <1>0 DEF Requests
    <3>3. steady[s] = {} /\ status[s] \in {"DRAFT", "closed"}
      BY <2>1 DEF SimSubInv, Kept, Lasting, Asking
    <3> HIDE DEF x
    <3>4. req'[s] = x /\ steady'[s] = {} /\ status'[s] = status[s]
      BY <1>0, <2>1, <3>1, <3>3
    <3>5. Kept(s)'
      BY <3>2, <3>3, <3>4 DEF Kept, Asking, Lasting, LookedFor, Judged
    <3> QED  BY <2>1, <3>1, <3>2, <3>5, RequestMoves
  <2> QED  BY <2>2, <2>3
<1>10. ASSUME NEW s \in Submissions, Compute(s) PROVE SimSubInv'
  <2>1. /\ req[s].pc = "compute" /\ HasPrint(s, content[version[s]])
        /\ prints' = [prints EXCEPT ![version[s]] = content[version[s]]]
        /\ UNCHANGED <<decided, status, version, content, elsewhere, changes>>
    BY <1>10 DEF Compute
  <2>2. content[version[s]] \in Contents /\ prints' \in [Versions -> Contents \cup {NoPrint}]
    BY <1>0, <2>1
  <2> QED  BY <2>1, <2>2, PrintStep
<1>11. ASSUME NEW s \in Submissions, RequestDies(s) PROVE SimSubInv'
  BY <1>11, EndsStep DEF RequestDies
<1> QED
  BY <1>1, <1>2, <1>3, <1>4, <1>5, <1>6, <1>7, <1>8, <1>9, <1>10, <1>11, CheckStep,
     UnansweredStep, DecideStep, SubmitStep DEF SimSubNext

LEMMA SimSubInvariant ==
  /\ SimSubInit => SimSubInv
  /\ SimSubInv /\ [SimSubNext]_simSubVars => SimSubInv'
<1>1. ASSUME SimSubInv, UNCHANGED simSubVars PROVE SimSubInv'
  <2> USE <1>1 DEF simSubVars, decided, elsewhere
  <2>1. SimSubTypeOK'
    BY DEF SimSubInv, SimSubTypeOK
  <2>2. ASSUME NEW s \in Submissions PROVE Kept(s)'
    <3>1. ConflictsOf(s)' = ConflictsOf(s)
      BY ConflictsStay
    <3>2. steady[s] \subseteq ConflictsOf(s) /\ (req[s].pc # "idle" => status[s] \in {"DRAFT", "closed"})
      BY DEF SimSubInv, Kept, Lasting, Asking
    <3> QED  BY <3>1, <3>2, StandsStill
  <2> QED  BY <2>1, <2>2 DEF SimSubInv
<1> QED  BY <1>1, SimSubBegins, SimSubStep

(* Every reachable state of the checks is well typed.                      *)
THEOREM SimSubTyped == SimSubSpec => []SimSubTypeOK
<1>1. SimSubInv => SimSubTypeOK
  BY DEF SimSubInv
<1> QED  BY <1>1, SimSubInvariant, PTL DEF SimSubSpec

LEMMA NotMissed ==
  ASSUME SimSubInv, [SimSubNext]_simSubVars, NEW s \in Submissions,
         Submits(s), steady[s] # {}
  PROVE  \/ policy[s] # "prohibited" /\ duty'[s] # "none"
         \/ steady[s] \subseteq {"abroad"} \X Remotes /\ req[s].partial
<1>1. status[s] = "DRAFT" /\ status'[s] = "active" /\ status \in [Submissions -> Statuses]
  BY DEF Submits, SimSubInv, SimSubTypeOK
<1>2. /\ \A t \in Submissions : ~ Moves(t) \/ status'[s] = status[s]
      /\ \A t \in Submissions, v \in Versions : ~ Resubmits(t, v) \/ status'[s] = status[s]
  BY <1>1 DEF Moves, Resubmits
<1>3. PICK t \in Submissions : Submit(t)
  BY <1>1, <1>2 DEF SimSubNext, simSubVars, Edits, Discloses, MovesAbroad, AccountAbroad,
     GrantOverride, BeginSubmit, LookUp, Compute, Check, Unanswered, Decide, RequestDies
<1>4. t = s
  BY <1>1, <1>3 DEF Submit
<1>5. req[s].found /\ policy[s] # "prohibited" => duty'[s] # "none"
  BY <1>3, <1>4 DEF Submit, Duty, SimSubInv, SimSubTypeOK
<1> QED  BY <1>3, <1>4, <1>5 DEF Submit, SimSubInv, Kept, Judged

(* However many submissions, versions and instances there are, and         *)
(* whatever happens between two reads of a check or before its submit, a   *)
(* conflict that the stored fingerprints, the manuscript, the writer's     *)
(* account or an instance that finds the writer have shown since the       *)
(* request looked up its fingerprint is not missed (simsub.service.ts:     *)
(* preSubmitCheck, performFullCheck; fingerprint.service.ts:               *)
(* getOrCompute).                                                          *)
THEOREM LastingConflictSeen == SimSubSpec => NoUnseenConflict
<1>1. SimSubInv /\ [SimSubNext]_simSubVars =>
        [\A s \in Submissions :
           Submits(s) /\ steady[s] # {} =>
             \/ policy[s] # "prohibited" /\ duty'[s] # "none"
             \/ steady[s] \subseteq {"abroad"} \X Remotes /\ req[s].partial]_simSubVars
  BY NotMissed
<1> QED  BY <1>1, SimSubInvariant, PTL DEF SimSubSpec, NoUnseenConflict

-----------------------------------------------------------------------------
(* Replaying events                                                        *)

(* Sets of naturals have least elements; induction over a log argues from  *)
(* the least number that breaks the claim.                                 *)
LEMMA LeastNumber ==
  ASSUME NEW T \in SUBSET Nat, T # {}
  PROVE  \E m \in T : \A k \in T : m <= k
<1> DEFINE R == OpToRel(<, Nat)
<1>1. PICK m \in T : \A k \in T : <<k, m>> \notin R
  BY NatLessThanWellFounded, WFMin
<1>2. \A k \in T : ~ (k < m)
  BY <1>1 DEF OpToRel
<1> QED  BY <1>2

(* One step of a replay, and a whole one.                                  *)
Passes(row, S, l, n) == IF n \in S THEN Effect(row, l[n].type, n) ELSE row

IsReplay(f, start, S, l) ==
  f = [n \in 0..Len(l) |-> IF n = 0 THEN start ELSE Passes(f[n - 1], S, l, n)]

Event == [type : Types, at : 1..MaxTime]
Logs == Seq(Event)

LEMMA LogEvents ==
  ASSUME NEW l \in Logs, NEW i \in 1..Len(l)
  PROVE  l[i] \in Event /\ l[i].type \in Types /\ l[i].at \in Nat /\ l[i].at # 0
<1>1. l[i] \in Event
  BY ElementOfSeq DEF Logs
<1>2. 1..MaxTime \subseteq Nat \ {0}
  OBVIOUS
<1> QED  BY <1>1, <1>2 DEF Event

LEMMA ReplayExists ==
  ASSUME NEW start, NEW S, NEW l \in Logs
  PROVE  \E f : IsReplay(f, start, S, l)
<1> DEFINE Upto(f, m) ==
             f = [n \in 0..m |-> IF n = 0 THEN start ELSE Passes(f[n - 1], S, l, n)]
           Exists(m) == \E f : Upto(f, m)
           T == {m \in Nat : ~ Exists(m)}
<1>1. SUFFICES T = {}
  <2>1. Len(l) \in Nat
    BY DEF Logs
  <2>2. \E f : Upto(f, Len(l))
    BY <1>1, <2>1
  <2> QED  BY <2>2 DEF IsReplay
<1>2. SUFFICES ASSUME T # {} PROVE FALSE
  OBVIOUS
<1>3. PICK m \in T : \A k \in T : m <= k
  BY <1>2, LeastNumber
<1>4. m # 0
  <2> DEFINE f == [n \in 0..0 |-> start]
  <2>1. Upto(f, 0)
    OBVIOUS
  <2> QED  BY <2>1
<1>5. PICK f : Upto(f, m - 1)
  <2> HIDE DEF Exists
  <2>1. m - 1 \in Nat /\ m - 1 \notin T
    BY <1>3, <1>4
  <2>2. Exists(m - 1)
    BY <2>1
  <2> QED  BY <2>2 DEF Exists
<1> DEFINE g == [n \in 0..m |-> IF n < m THEN f[n] ELSE Passes(f[m - 1], S, l, m)]
<1>6. Upto(g, m)
  <2>1. \A n \in 0..(m - 1) :
          f[n] = IF n = 0 THEN start ELSE Passes(f[n - 1], S, l, n)
    BY <1>5
  <2>2. \A n \in 0..m : n # 0 => g[n - 1] = f[n - 1]
    BY <1>3, <1>4
  <2>3. \A n \in 0..m :
          g[n] = IF n = 0 THEN start ELSE Passes(f[n - 1], S, l, n)
    BY <1>3, <1>4, <2>1
  <2>4. g = [n \in 0..m |-> g[n]]
    OBVIOUS
  <2> HIDE DEF g
  <2> QED  BY <2>2, <2>3, <2>4
<1> HIDE DEF g
<1> QED  BY <1>3, <1>6

(* The recursion in Replay is one.                                         *)
LEMMA ReplayIs ==
  ASSUME NEW start, NEW S, NEW l \in Logs
  PROVE  \E f : IsReplay(f, start, S, l) /\ Replay(l, start, S) = f[Len(l)]
<1> DEFINE after == CHOOSE f : IsReplay(f, start, S, l)
<1>1. IsReplay(after, start, S, l)
  BY ReplayExists
<1>2. Replay(l, start, S) = after[Len(l)]
  BY DEF Replay, IsReplay, Passes
<1> QED  BY <1>1, <1>2

LEMMA ReplaySteps ==
  ASSUME NEW f, NEW start, NEW S, NEW l \in Logs, IsReplay(f, start, S, l)
  PROVE  /\ f[0] = start
         /\ \A n \in 1..Len(l) : f[n] = Passes(f[n - 1], S, l, n)
<1>1. Len(l) \in Nat
  BY DEF Logs
<1>2. \A n \in 0..Len(l) : f[n] = IF n = 0 THEN start ELSE Passes(f[n - 1], S, l, n)
  BY DEF IsReplay
<1> QED  BY <1>1, <1>2

(* Two replays that are at one row go the same way while they see the same *)
(* events.                                                                 *)
LEMMA ReplaysAgree ==
  ASSUME NEW f, NEW g, NEW x, NEW y, NEW S, NEW U, NEW l \in Logs, NEW k \in Logs,
         IsReplay(f, x, S, l), IsReplay(g, y, U, k),
         NEW a \in Nat, NEW b \in Nat, a <= b, b <= Len(l), b <= Len(k),
         f[a] = g[a],
         \A n \in (a + 1)..b : (n \in S <=> n \in U) /\ (n \in S => l[n] = k[n])
  PROVE  f[b] = g[b]
<1> DEFINE T == {m \in a..b : f[m] # g[m]}
<1>1. SUFFICES T = {}
  BY <1>1
<1>2. SUFFICES ASSUME T # {} PROVE FALSE
  OBVIOUS
<1>3. T \in SUBSET Nat
  OBVIOUS
<1>4. PICK m \in T : \A n \in T : m <= n
  BY <1>2, <1>3, LeastNumber
<1>5. m # a /\ m \in (a + 1)..b /\ m - 1 \in a..b
  BY <1>4
<1>6. f[m - 1] = g[m - 1]
  BY <1>4, <1>5
<1>7. Len(l) \in Nat /\ Len(k) \in Nat /\ m \in 1..Len(l) /\ m \in 1..Len(k)
  BY <1>5 DEF Logs
<1>8. f[m] = Passes(f[m - 1], S, l, m) /\ g[m] = Passes(g[m - 1], U, k, m)
  BY <1>7, ReplaySteps
<1>9. Passes(f[m - 1], S, l, m) = Passes(g[m - 1], U, k, m)
  BY <1>5, <1>6 DEF Passes
<1> QED  BY <1>4, <1>8, <1>9

(* A replay stays at its row while no event is in S.                       *)
LEMMA ReplayRests ==
  ASSUME NEW f, NEW x, NEW S, NEW l \in Logs, IsReplay(f, x, S, l),
         NEW a \in Nat, NEW b \in Nat, a <= b, b <= Len(l),
         \A n \in (a + 1)..b : n \notin S
  PROVE  f[b] = f[a]
<1> DEFINE T == {m \in a..b : f[m] # f[a]}
<1>1. SUFFICES T = {}
  BY <1>1
<1>2. SUFFICES ASSUME T # {} PROVE FALSE
  OBVIOUS
<1>3. T \in SUBSET Nat
  OBVIOUS
<1>4. PICK m \in T : \A n \in T : m <= n
  BY <1>2, <1>3, LeastNumber
<1>5. m # a /\ m \in (a + 1)..b /\ m - 1 \in a..b
  BY <1>4
<1>6. f[m - 1] = f[a]
  BY <1>4, <1>5
<1>7. Len(l) \in Nat /\ m \in 1..Len(l)
  BY <1>5 DEF Logs
<1>8. f[m] = Passes(f[m - 1], S, l, m)
  BY <1>7, ReplaySteps
<1> QED  BY <1>4, <1>5, <1>6, <1>8 DEF Passes

(* Replaying nothing, ...                                                  *)
LEMMA ReplayNothing ==
  ASSUME NEW l \in Logs, NEW start
  PROVE  Replay(l, start, {}) = start
<1>1. PICK f : IsReplay(f, start, {}, l) /\ Replay(l, start, {}) = f[Len(l)]
  BY ReplayIs
<1>2. Len(l) \in Nat /\ 0 \in Nat
  BY DEF Logs
<1>3. f[0] = start
  BY <1>1, ReplaySteps
<1>4. f[Len(l)] = f[0]
  BY <1>1, <1>2, ReplayRests
<1> QED  BY <1>1, <1>3, <1>4

(* ... one event more than S, after all of S, ...                          *)
LEMMA ReplayOneMore ==
  ASSUME NEW l \in Logs, NEW start, NEW S \in SUBSET Nat,
         NEW i \in 1..Len(l), \A j \in S : j < i
  PROVE  Replay(l, start, S \cup {i}) = Effect(Replay(l, start, S), l[i].type, i)
<1> DEFINE U == S \cup {i}
<1>1. PICK f : IsReplay(f, start, S, l) /\ Replay(l, start, S) = f[Len(l)]
  BY ReplayIs
<1>2. PICK g : IsReplay(g, start, U, l) /\ Replay(l, start, U) = g[Len(l)]
  BY ReplayIs
<1>3. Len(l) \in Nat /\ i \in Nat /\ i - 1 \in Nat /\ 0 \in Nat
      /\ 0 <= i - 1 /\ i - 1 <= Len(l) /\ i <= Len(l) /\ Len(l) <= Len(l)
  BY DEF Logs
<1>4. f[0] = g[0]
  BY <1>1, <1>2, ReplaySteps
<1>5. \A n \in (0 + 1)..(i - 1) : (n \in S <=> n \in U) /\ (n \in S => l[n] = l[n])
  <2>1. \A n \in (0 + 1)..(i - 1) : n # i
    BY <1>3
  <2>2. \A n : n # i => (n \in S <=> n \in U)
    OBVIOUS
  <2> HIDE DEF U
  <2> QED  BY <2>1, <2>2
<1>6. f[i - 1] = g[i - 1]
  <2> DEFINE b == i - 1
             k == l
  <2>1. IsReplay(f, start, S, l) /\ IsReplay(g, start, U, k) /\ k \in Logs
    BY <1>1, <1>2
  <2>2. 0 \in Nat /\ b \in Nat /\ 0 <= b /\ b <= Len(l) /\ b <= Len(k)
    BY <1>3
  <2>3. \A n \in (0 + 1)..b : (n \in S <=> n \in U) /\ (n \in S => l[n] = k[n])
    BY <1>5
  <2> HIDE DEF U, b, k
  <2>4. f[b] = g[b]
    BY <2>1, <2>2, <2>3, <1>4, ReplaysAgree
  <2> QED  BY <2>4 DEF b
<1>7. \A n \in ((i - 1) + 1)..Len(l) : n \notin S
  BY <1>3
<1>8. f[Len(l)] = f[i - 1]
  BY <1>1, <1>3, <1>7, ReplayRests
<1>9. \A n \in (i + 1)..Len(l) : n \notin U
  BY <1>3
<1>10. g[Len(l)] = g[i]
  BY <1>2, <1>3, <1>9, ReplayRests
<1>11. g[i] = Effect(g[i - 1], l[i].type, i)
  BY <1>2, ReplaySteps DEF Passes
<1> QED  BY <1>1, <1>2, <1>6, <1>8, <1>10, <1>11

(* ... and a log that grows by an event that is not in S.                  *)
LEMMA ReplayLonger ==
  ASSUME NEW l \in Logs, NEW k \in Logs, Len(k) = Len(l) + 1,
         \A n \in 1..Len(l) : k[n] = l[n],
         NEW start, NEW S \in SUBSET (1..Len(l))
  PROVE  Replay(k, start, S) = Replay(l, start, S)
<1>1. PICK f : IsReplay(f, start, S, l) /\ Replay(l, start, S) = f[Len(l)]
  BY ReplayIs
<1>2. PICK g : IsReplay(g, start, S, k) /\ Replay(k, start, S) = g[Len(k)]
  BY ReplayIs
<1>3. Len(l) \in Nat /\ Len(k) \in Nat /\ 0 \in Nat
  BY DEF Logs
<1>4. f[0] = g[0]
  BY <1>1, <1>2, ReplaySteps
<1>5. \A n \in (0 + 1)..Len(l) : (n \in S <=> n \in S) /\ (n \in S => l[n] = k[n])
  OBVIOUS
<1>6. 0 <= Len(l) /\ Len(l) <= Len(l) /\ Len(l) <= Len(k) /\ Len(k) <= Len(k)
  BY <1>3
<1>7. f[Len(l)] = g[Len(l)]
  BY <1>1, <1>2, <1>3, <1>4, <1>5, <1>6, ReplaysAgree
<1>8. \A n \in (Len(l) + 1)..Len(k) : n \notin S
  BY <1>3
<1>9. g[Len(k)] = g[Len(l)]
  BY <1>2, <1>3, <1>6, <1>8, ReplayRests
<1> QED  BY <1>1, <1>2, <1>7, <1>9

-----------------------------------------------------------------------------
(* The identity provider's events                                          *)

(* Events are issued in the order of their times, a user's first event     *)
(* adds it, and nothing follows its removal.                               *)
LogOrdered ==
  /\ Len(log) <= MaxEvents
  /\ \A i, j \in DOMAIN log : i <= j => log[i].at <= log[j].at
  /\ log # << >> => log[1].type = "added"
  /\ \A i \in DOMAIN log : log[i].type = "removed" => i = Len(log)

(* lastAt is the time of the newest event that was applied, and the first  *)
(* event makes a row.                                                      *)
Newest ==
  /\ \A j \in applied : log[j].at <= lastAt
  /\ applied # {} => user.known /\ \E j \in applied : log[j].at = lastAt
  /\ applied = {} => user = base /\ lastAt = 0
  /\ 1 \in processed => user.known

(* The row was anonymized by the last event there is.                      *)
Erased ==
  user.email = Anonymized =>
    /\ user.known /\ log # << >>
    /\ log[Len(log)].type = "removed" /\ lastAt = log[Len(log)].at

DistinctTimes == \A i, j \in DOMAIN log : log[i].at = log[j].at => i = j

(* While nothing overtakes, what is processed has no gaps, and all of      *)
(* it is applied.                                                          *)
InOrder ==
  ahead = {} =>
    /\ \A i \in processed : \A j \in 1..i : j \in processed
    /\ base = Missing /\ DistinctTimes => applied = processed

IdentityInv ==
  /\ IdentityTypeOK /\ LogOrdered /\ Newest /\ Erased /\ InOrder
  /\ DroppedForNewer /\ ReplayOfApplied

LEMMA EffectTyped ==
  ASSUME NEW row \in Rows, NEW type \in Types, NEW i \in 1..MaxEvents
  PROVE  /\ Effect(row, type, i) \in Rows
         /\ row.known \/ type \in {"added", "changed"} => Effect(row, type, i).known
         /\ Effect(row, type, i).email = Anonymized =>
              type = "removed" \/ row.email = Anonymized
<1>1. i \in Emails /\ i # Anonymized /\ Anonymized \in Emails
  BY IdentityAssumption DEF Emails, Anonymized
<1> HIDE DEF Anonymized
<1> QED  BY <1>1 DEF Effect, Rows, Types

LEMMA IdentityBegins == IdentityInit => IdentityInv
<1> SUFFICES ASSUME IdentityInit PROVE IdentityInv
  OBVIOUS
<1> USE DEF IdentityInit
<1>1. log \in Logs /\ Len(log) = 0 /\ DOMAIN log = {}
  BY DEF Logs
<1>2. Missing \in Rows /\ Missing.email # Anonymized
  <2>1. 0 \in Emails /\ 0 # Anonymized
    BY IdentityAssumption DEF Emails, Anonymized
  <2>2. Missing.email = 0
    BY DEF Missing
  <2>3. Missing \in Rows
    BY <2>1 DEF Missing, Rows
  <2> QED  BY <2>1, <2>2, <2>3
<1>3. IdentityTypeOK
  <2>1. log \in Logs /\ processed \subseteq DOMAIN log /\ applied \subseteq processed
    BY <1>1
  <2>2. lastAt \in 0..MaxTime
    BY IdentityAssumption
  <2>3. user \in Rows /\ base \in Rows /\ ahead \subseteq processed
    BY <1>2
  <2> QED  BY <2>1, <2>2, <2>3 DEF IdentityTypeOK, Logs, Event
<1>4. LogOrdered /\ Newest /\ Erased /\ InOrder /\ DroppedForNewer
  BY <1>1, <1>2, IdentityAssumption
     DEF LogOrdered, Newest, Erased, InOrder, DroppedForNewer
<1>5. ReplayOfApplied
  BY <1>1, ReplayNothing DEF ReplayOfApplied
<1> QED  BY <1>3, <1>4, <1>5 DEF IdentityInv

(* Zitadel issues an event.                                                *)
LEMMA IssueKeeps ==
  ASSUME IdentityInv, NEW type \in Types, NEW at \in 1..MaxTime, Issue(type, at)
  PROVE  IdentityInv'
<1> DEFINE e == [type |-> type, at |-> at]
<1> USE DEF IdentityInv
<1>1. /\ log \in Logs /\ Len(log) \in Nat /\ DOMAIN log = 1..Len(log)
      /\ Len(log) < MaxEvents /\ log' = Append(log, e)
      /\ UNCHANGED <<processed, user, lastAt, guest, base, applied, ahead>>
  BY DEF Issue, IdentityTypeOK, Logs, Event
<1>2. /\ log' \in Logs /\ Len(log') = Len(log) + 1 /\ DOMAIN log' = 1..Len(log')
      /\ \A n \in 1..Len(log) : log'[n] = log[n]
      /\ log'[Len(log')] = e
  <2>1. e \in Event
    BY DEF Event
  <2> QED  BY <1>1, <2>1, AppendProperties DEF Logs
<1>3. /\ log = << >> => type = "added"
      /\ log # << >> =>
           /\ log[Len(log)].type # "removed" /\ type # "added"
           /\ log[Len(log)].at <= at
  BY DEF Issue
<1>4. log = << >> <=> Len(log) = 0
  BY <1>1, EmptySeq DEF Logs
<1>5. \A i \in 1..Len(log) : log[i].at \in Nat /\ log[i].at <= at
  <2> SUFFICES ASSUME NEW i \in 1..Len(log) PROVE log[i].at \in Nat /\ log[i].at <= at
    OBVIOUS
  <2>1. Len(log) \in 1..Len(log) /\ i <= Len(log)
    BY <1>1
  <2>2. log[i].at \in Nat /\ log[Len(log)].at \in Nat
    BY <1>1, <2>1, LogEvents
  <2>3. log[i].at <= log[Len(log)].at
    BY <1>1, <2>1 DEF LogOrdered
  <2> QED  BY <1>1, <1>3, <1>4, <2>1, <2>2, <2>3
<1>6. IdentityTypeOK'
  BY <1>1, <1>2 DEF IdentityTypeOK, Logs, Event
<1>7. LogOrdered'
  <2>1. \A i, j \in 1..Len(log') : i <= j => log'[i].at <= log'[j].at
    <3> SUFFICES ASSUME NEW i \in 1..Len(log'), NEW j \in 1..Len(log'), i <= j
                 PROVE  log'[i].at <= log'[j].at
      OBVIOUS
    <3>1. CASE j <= Len(log)
      BY <1>1, <1>2, <3>1 DEF LogOrdered
    <3>2. CASE j > Len(log)
      <4>1. log'[j].at = at
        BY <1>1, <1>2, <3>2
      <4> QED  BY <1>1, <1>2, <1>5, <4>1
    <3> QED  BY <1>1, <3>1, <3>2
  <2>2. log'[1].type = "added"
    BY <1>1, <1>2, <1>3, <1>4 DEF LogOrdered
  <2>3. \A i \in 1..Len(log) : log[i].type # "removed"
    BY <1>1, <1>3, <1>4 DEF LogOrdered
  <2>4. \A i \in 1..Len(log') : log'[i].type = "removed" => i = Len(log')
    BY <1>1, <1>2, <2>3
  <2>5. Len(log') <= MaxEvents
    BY <1>1, <1>2, IdentityAssumption
  <2> QED  BY <1>2, <2>1, <2>2, <2>4, <2>5 DEF LogOrdered
<1>8. \A j \in applied : j \in 1..Len(log)
  BY <1>1 DEF IdentityTypeOK
<1>9. Newest'
  BY <1>1, <1>2, <1>8 DEF Newest
<1>10. Erased'
  BY <1>1, <1>3 DEF Erased
<1>11. InOrder'
  <2>1. DistinctTimes' => DistinctTimes
    BY <1>1, <1>2 DEF DistinctTimes
  <2> QED  BY <1>1, <2>1 DEF InOrder
<1>12. ReplayOfApplied'
  <2>1. applied \in SUBSET (1..Len(log))
    BY <1>8
  <2>2. Replay(log', base, applied) = Replay(log, base, applied)
    BY <1>1, <1>2, <2>1, ReplayLonger
  <2> QED  BY <1>1, <2>2 DEF ReplayOfApplied
<1>13. DroppedForNewer'
  <2>1. \A n \in processed : n \in 1..Len(log)
    BY <1>1 DEF IdentityTypeOK
  <2>2. \A n \in processed : log'[n] = log[n]
    BY <1>2, <2>1
  <2>3. applied \subseteq processed
    BY DEF IdentityTypeOK
  <2> QED  BY <1>1, <2>2, <2>3 DEF DroppedForNewer
<1> QED  BY <1>6, <1>7, <1>9, <1>10, <1>11, <1>12, <1>13

(* A delivery is marked, and applied unless it is stale.                   *)
LEMMA DeliverKeeps ==
  ASSUME IdentityInv, NEW i \in DOMAIN log, Deliver(i)
  PROVE  IdentityInv'
<1> USE DEF IdentityInv
<1>1. /\ log \in Logs /\ Len(log) \in Nat /\ DOMAIN log = 1..Len(log)
      /\ i \in 1..Len(log) /\ i \in 1..MaxEvents
      /\ log[i] \in Event /\ log[i].type \in Types /\ log[i].at \in Nat
      /\ log[i].at \in 0..MaxTime /\ log[i].at # 0
      /\ user \in Rows /\ lastAt \in Nat
  <2>1. log \in Logs /\ user \in Rows /\ lastAt \in 0..MaxTime
    BY DEF IdentityTypeOK, Logs, Event
  <2>2. Len(log) \in Nat /\ DOMAIN log = 1..Len(log)
    BY <2>1 DEF Logs
  <2>3. log[i] \in Event /\ log[i].type \in Types /\ log[i].at \in Nat /\ log[i].at # 0
    BY <2>1, <2>2, LogEvents
  <2>4. log[i].at \in 0..MaxTime
    <3>1. 1..MaxTime \subseteq 0..MaxTime
      OBVIOUS
    <3> QED  BY <2>3, <3>1 DEF Event
  <2>5. i \in 1..MaxEvents
    BY <2>2, IdentityAssumption DEF LogOrdered
  <2>6. lastAt \in Nat
    BY <2>1
  <2> QED  BY <2>1, <2>2, <2>3, <2>4, <2>5, <2>6
<1>2. /\ i \notin processed /\ processed' = processed \cup {i}
      /\ ahead' = IF 1..i - 1 \subseteq processed THEN ahead ELSE ahead \cup {i}
      /\ UNCHANGED <<log, guest, base>>
  BY DEF Deliver, Marked
<1>3. applied \subseteq processed /\ processed \subseteq 1..Len(log)
  BY <1>1 DEF IdentityTypeOK
<1>4. LogOrdered'
  BY <1>2 DEF LogOrdered
<1>5. ahead' \subseteq processed'
  BY <1>2 DEF IdentityTypeOK
<1>6. ahead' = {} => ahead = {} /\ \A j \in 1..(i - 1) : j \in processed
  BY <1>2
<1>7. ahead' = {} => \A n \in processed' : \A j \in 1..n : j \in processed'
  BY <1>1, <1>2, <1>3, <1>6 DEF InOrder
<1>8. CASE Affects(i)
  <2>1. /\ user' = Effect(user, log[i].type, i) /\ lastAt' = log[i].at
        /\ applied' = applied \cup {i}
    BY <1>8 DEF Deliver
  <2>2. /\ user' \in Rows
        /\ user'.known
        /\ user'.email = Anonymized =>
             log[i].type = "removed" \/ user.email = Anonymized
    <3>1. user.known \/ log[i].type \in {"added", "changed"}
      BY <1>8 DEF Affects
    <3> QED  BY <1>1, <2>1, <3>1, EffectTyped
  <2>3. IdentityTypeOK'
    BY <1>1, <1>2, <1>3, <1>5, <2>1, <2>2 DEF IdentityTypeOK
  <2>4. \A j \in applied : log[j].at \in Nat /\ log[j].at < log[i].at
    <3> SUFFICES ASSUME NEW j \in applied
                 PROVE  log[j].at \in Nat /\ log[j].at < log[i].at
      OBVIOUS
    <3>1. lastAt < log[i].at
      BY <1>8 DEF Affects, Fresh, Newest
    <3>2. log[j].at \in Nat
      BY <1>1, <1>3, LogEvents
    <3>3. log[j].at <= lastAt
      BY DEF Newest
    <3> QED  BY <1>1, <3>1, <3>2, <3>3
  <2>5. \A j \in applied : j < i
    <3> SUFFICES ASSUME NEW j \in applied, i <= j PROVE FALSE
      BY <1>1, <1>3
    <3>1. log[i].at <= log[j].at
      BY <1>1, <1>3 DEF LogOrdered
    <3> QED  BY <1>1, <2>4, <3>1
  <2>6. Newest'
    BY <1>1, <1>2, <2>1, <2>2, <2>4 DEF Newest
  <2>7. user.email # Anonymized
    <3> SUFFICES ASSUME user.email = Anonymized PROVE FALSE
      OBVIOUS
    <3>1. user.known /\ lastAt = log[Len(log)].at
      BY DEF Erased
    <3>2. lastAt < log[i].at
      BY <1>8, <3>1 DEF Affects, Fresh
    <3>3. log[i].at <= log[Len(log)].at
      BY <1>1 DEF LogOrdered
    <3> QED  BY <1>1, <3>1, <3>2, <3>3
  <2>8. Erased'
    <3>1. user'.email = Anonymized => i = Len(log) /\ log[i].type = "removed"
      BY <1>1, <2>2, <2>7 DEF LogOrdered
    <3>2. log # << >>
      BY <1>1
    <3> QED  BY <1>2, <2>1, <2>2, <3>1, <3>2 DEF Erased
  <2>9. InOrder'
    BY <1>2, <1>6, <1>7, <2>1 DEF InOrder, DistinctTimes
  <2>10. ReplayOfApplied'
    <3>1. applied \in SUBSET Nat
      BY <1>1, <1>3
    <3>2. Replay(log, base, applied \cup {i})
            = Effect(Replay(log, base, applied), log[i].type, i)
      BY <1>1, <2>5, <3>1, ReplayOneMore
    <3> QED  BY <1>2, <2>1, <3>2 DEF ReplayOfApplied
  <2>11. DroppedForNewer'
    BY <1>2, <2>1 DEF DroppedForNewer
  <2> QED  BY <1>4, <2>3, <2>6, <2>8, <2>9, <2>10, <2>11
<1>9. CASE ~ Affects(i)
  <2>1. UNCHANGED <<user, lastAt, applied>>
    BY <1>9 DEF Deliver
  <2>2. IdentityTypeOK'
    BY <1>1, <1>2, <1>3, <1>5, <2>1 DEF IdentityTypeOK
  <2>3. Newest' /\ Erased' /\ ReplayOfApplied'
    <3>1. i = 1 => user.known
      BY <1>1, <1>9 DEF Affects, LogOrdered
    <3> QED  BY <1>2, <2>1, <3>1 DEF Newest, Erased, ReplayOfApplied
  <2>4. ahead' # {} \/ base # Missing \/ ~ DistinctTimes
    <3> SUFFICES ASSUME ahead' = {}, base = Missing, DistinctTimes PROVE FALSE
      OBVIOUS
    <3>1. applied = processed
      BY <1>6 DEF InOrder
    <3>2. \A j \in processed : j < i
      BY <1>1, <1>2, <1>3, <1>6 DEF InOrder
    <3>3. CASE i = 1
      <4>1. applied = {} /\ log[1].type = "added"
        BY <1>1, <1>3, <3>1, <3>2, <3>3 DEF LogOrdered
      <4>2. user = Missing
        BY <4>1 DEF Newest
      <4> QED  BY <1>9, <3>3, <4>1, <4>2 DEF Affects, Missing
    <3>4. CASE i # 1
      <4>1. 1 \in applied
        BY <1>1, <1>6, <3>1, <3>4
      <4>2. PICK j \in applied : log[j].at = lastAt /\ user.known
        BY <4>1 DEF Newest
      <4>3. j \in 1..Len(log) /\ j < i
        BY <1>3, <3>1, <3>2
      <4>4. log[j].at <= log[i].at /\ log[j].at # log[i].at
        BY <1>1, <4>3 DEF LogOrdered, DistinctTimes
      <4>5. lastAt < log[i].at
        BY <1>1, <4>2, <4>4
      <4> QED  BY <1>9, <4>2, <4>5 DEF Affects, Fresh
    <3> QED  BY <3>3, <3>4
  <2>5. InOrder'
    BY <1>2, <1>7, <2>4 DEF InOrder, DistinctTimes
  <2>6. DroppedForNewer'
    <3>1. CASE user.known
      <4>1. lastAt >= log[i].at
        BY <1>1, <1>9, <3>1 DEF Affects, Fresh
      <4>2. applied # {}
        BY <1>1, <4>1 DEF Newest
      <4>3. PICK j \in applied : log[j].at = lastAt
        BY <4>2 DEF Newest
      <4> QED  BY <1>2, <2>1, <4>1, <4>3 DEF DroppedForNewer
    <3>2. CASE ~ user.known
      <4>1. log[i].type \notin {"added", "changed"} /\ i # 1
        BY <1>1, <1>9, <3>2 DEF Affects, LogOrdered
      <4>2. 1 \notin processed /\ 1 \in 1..(i - 1)
        BY <1>1, <3>2, <4>1 DEF Newest
      <4> QED  BY <1>2, <2>1, <4>1, <4>2 DEF DroppedForNewer
    <3> QED  BY <3>1, <3>2
  <2> QED  BY <1>4, <2>2, <2>3, <2>5, <2>6
<1> QED  BY <1>8, <1>9

(* A sign-in makes the row, or takes one over.                             *)
LEMMA SignInKeeps ==
  ASSUME IdentityInv, NEW i \in DOMAIN log, SignIn(i)
  PROVE  IdentityInv'
<1> USE DEF IdentityInv
<1>1. /\ log \in Logs /\ Len(log) \in Nat /\ i \in 1..Len(log) /\ i \in 1..MaxEvents
  <2>1. log \in Logs /\ Len(log) \in Nat /\ i \in 1..Len(log)
    BY DEF IdentityTypeOK, Logs, Event
  <2> QED  BY <2>1, IdentityAssumption DEF LogOrdered
<1>2. PICK verified \in BOOLEAN :
        user' = [[Missing EXCEPT !.known = TRUE, !.email = i] EXCEPT !.verified = verified]
  BY DEF SignIn
<1>3. /\ ~ user.known /\ base' = user' /\ guest' = (guest /\ i # 1)
      /\ UNCHANGED <<log, processed, lastAt, applied, ahead>>
  BY DEF SignIn
<1>4. /\ user' \in Rows /\ user'.known /\ user'.email = i
  <2>1. i \in Emails
    BY <1>1, IdentityAssumption DEF Emails
  <2> QED  BY <1>2, <2>1 DEF Missing, Rows
<1>5. user'.email # Anonymized /\ base' # Missing
  BY <1>1, <1>3, <1>4, IdentityAssumption DEF Anonymized, Missing
<1>6. applied = {}
  BY <1>3 DEF Newest
<1>7. IdentityTypeOK'
  BY <1>3, <1>4 DEF IdentityTypeOK
<1>8. LogOrdered' /\ Newest' /\ Erased' /\ InOrder' /\ DroppedForNewer'
  BY <1>3, <1>4, <1>5, <1>6 DEF LogOrdered, Newest, Erased, InOrder, DroppedForNewer
<1>9. ReplayOfApplied'
  BY <1>1, <1>3, <1>6, ReplayNothing DEF ReplayOfApplied
<1> QED  BY <1>7, <1>8, <1>9

LEMMA IdentityInvariant ==
  /\ IdentityInit => IdentityInv
  /\ IdentityInv /\ [IdentityNext]_identityVars => IdentityInv'
<1>1. ASSUME IdentityInv,
             UNCHANGED <<log, processed, user, lastAt, guest, base, applied, ahead>>
      PROVE  IdentityInv'
  BY <1>1 DEF IdentityInv, IdentityTypeOK, LogOrdered, Newest, Erased, InOrder,
     DistinctTimes, DroppedForNewer, ReplayOfApplied
<1>2. ASSUME NEW i \in DOMAIN log, DeliveryFails(i), IdentityInv PROVE IdentityInv'
  BY <1>1, <1>2 DEF DeliveryFails, RolledBack
<1> QED
  BY <1>1, <1>2, IdentityBegins, IssueKeeps, DeliverKeeps, SignInKeeps
     DEF IdentityNext, identityVars

(* Every reachable state of a user's row is well typed.                    *)
THEOREM IdentityTyped == IdentitySpec => []IdentityTypeOK
<1>1. IdentityInv => IdentityTypeOK
  BY DEF IdentityInv
<1> QED  BY <1>1, IdentityInvariant, PTL DEF IdentitySpec

(* However long a user's history at the identity provider is, and in       *)
(* whatever order, how often and with what gaps its events arrive, the row *)
(* is what the applied events make of it in the order they happened        *)
(* (zitadel.webhook.ts: processEvent and its guard on last_event_at).      *)
THEOREM AppliedInOrder == IdentitySpec => []ReplayOfApplied
<1>1. IdentityInv => ReplayOfApplied
  BY DEF IdentityInv
<1> QED  BY <1>1, IdentityInvariant, PTL DEF IdentitySpec

(* When every event has been processed, none before an earlier one, no two *)
(* bear the same time and nobody signed in before the first, the row is    *)
(* the user as the identity provider has it (zitadel.webhook.ts: the       *)
(* registration of an event in the transaction that applies it).           *)
THEOREM InOrderIsExact == IdentitySpec => []InOrderExact
<1>1. IdentityInv => InOrderExact
  <2> SUFFICES ASSUME IdentityInv, ahead = {}, processed = DOMAIN log,
                      base = Missing,
                      \A i, j \in DOMAIN log : log[i].at = log[j].at => i = j
               PROVE  user = Truth
    BY DEF InOrderExact
  <2>1. applied = DOMAIN log /\ DOMAIN log = 1..Len(log)
    BY DEF IdentityInv, InOrder, DistinctTimes, IdentityTypeOK
  <2> QED  BY <2>1 DEF IdentityInv, ReplayOfApplied, Truth
<1> QED  BY <1>1, IdentityInvariant, PTL DEF IdentitySpec

(* An event that left no trace was overtaken by one that is in the row, or *)
(* had overtaken an earlier one and makes no row (zitadel.webhook.ts: the  *)
(* guard on last_event_at, which a row made by a sign-in passes with NULL).*)
THEOREM DroppedWereOvertaken == IdentitySpec => []DroppedForNewer
<1>1. IdentityInv => DroppedForNewer
  BY DEF IdentityInv
<1> QED  BY <1>1, IdentityInvariant, PTL DEF IdentitySpec

LEMMA RemovedStays ==
  ASSUME IdentityInv, [IdentityNext]_identityVars, user.email = Anonymized
  PROVE  user' = user
<1>1. /\ user.known /\ lastAt = log[Len(log)].at
      /\ log \in Logs /\ Len(log) \in Nat /\ DOMAIN log = 1..Len(log)
  BY DEF IdentityInv, Erased, IdentityTypeOK, Logs, Event
<1>2. ASSUME NEW i \in DOMAIN log, Deliver(i) PROVE user' = user
  <2>1. log[i].at <= log[Len(log)].at
    BY <1>1 DEF IdentityInv, LogOrdered
  <2>2. log[i].at \in Nat /\ log[Len(log)].at \in Nat
    BY <1>1, LogEvents
  <2>3. ~ Affects(i)
    BY <1>1, <2>1, <2>2 DEF Affects, Fresh
  <2> QED  BY <1>2, <2>3 DEF Deliver
<1>3. \A i \in DOMAIN log : ~ SignIn(i)
  BY <1>1 DEF SignIn
<1> QED  BY <1>2, <1>3 DEF IdentityNext, identityVars, Issue, DeliveryFails

(* The row of a removed user never changes again: no late event, repeated  *)
(* delivery or old token gives it an address or opens the account          *)
(* (zitadel.webhook.ts: user.removed).                                     *)
THEOREM RemovedForGood == IdentitySpec => RemovalSticks
<1>1. IdentityInv /\ [IdentityNext]_identityVars =>
        [user.email = Anonymized => user' = user]_user
  BY RemovedStays
<1> QED  BY <1>1, IdentityInvariant, PTL DEF IdentitySpec, RemovalSticks
=============================================================================
