--------------------------- MODULE WebhookDelivery ---------------------------
(***************************************************************************)
(* Outgoing webhooks: the Inngest function that makes deliveries of an     *)
(* event (inngest/functions/webhook-delivery.ts), the BullMQ worker that   *)
(* sends them (queues/webhook.queue.ts, workers/webhook.worker.ts), and    *)
(* what an admin does meanwhile (services/webhook.service.ts with          *)
(* trpc/routers/webhooks.ts): edit, disable or delete an endpoint, send a  *)
(* test, retry a delivery.                                                 *)
(*                                                                         *)
(* Rows live in PostgreSQL and jobs in Redis.  A request's transaction     *)
(* commits when the response is sent, after it has enqueued: until then    *)
(* an inserted row is invisible and an updated one is locked.  BullMQ      *)
(* hands a job to another slot when its worker has let the lock expire --  *)
(* because it died, or was only slow and goes on.  onFailed runs beside    *)
(* the slots, which nothing makes wait for it.                             *)
(***************************************************************************)
EXTENDS Integers, FiniteSets, Sequences

CONSTANTS
  Endpoints,   \* endpoints of one organization
  Deliveries,  \* ids of delivery rows
  Slots,       \* what processes a job at a time (10 per worker in the code)
  Attempts,    \* attempts of a job (8)
  Threshold,   \* failures that disable an endpoint (AUTO_DISABLE_THRESHOLD, 5)
  FanRetries,  \* retries of the Inngest function (3)
  MaxStalls,   \* times BullMQ takes a stalled job up again (1, its default)
  MaxRequests, \* bound: requests of the admin
  MaxFaults,   \* bound: errors, deaths and expired locks
  MaxTogether  \* bound: requests and faults together

ASSUME WebhookAssumption ==
  /\ IsFiniteSet(Endpoints) /\ IsFiniteSet(Deliveries) /\ IsFiniteSet(Slots)
  /\ Attempts \in Nat \ {0}
  /\ Threshold \in Nat \ {0}
  /\ FanRetries \in Nat /\ MaxStalls \in Nat
  /\ MaxRequests \in Nat /\ MaxFaults \in Nat /\ MaxTogether \in Nat

NoEndpoint == "no endpoint"
NoDelivery == "no delivery"
NoSlot == "no slot"

DeliveryStatuses == {"QUEUED", "DELIVERING", "DELIVERED", "FAILED", "CANCELLED"}
Outcomes == {"DELIVERED", "FAILED", "CANCELLED"}

RowStates == DeliveryStatuses \cup {"none", "open", "gone"}

Fans ==
  [pc : {"list", "create", "enqueue", "done", "failed"}, order : Seq(Endpoints),
   next : Nat \ {0}, new : Deliveries \cup {NoDelivery}, fails : 0..FanRetries + 1]

Jobs == [state : {"none", "waiting", "active", "completed", "failed"},
         by : Slots \cup {NoSlot}, made : 0..Attempts, stalls : 0..MaxStalls]

Steps == {"idle", "check", "cancel", "mark", "post", "ok", "error", "done",
          "throw"}

Runs == [pc : Steps, of : Deliveries \cup {NoDelivery}]

VARIABLES
  endpoint,   \* "ACTIVE", "DISABLED" or "deleted", per endpoint
  subscribed, \* endpoints whose event_types contain the event
  fan,        \* the fan-out of the event: what it does next, the endpoints of
              \* the memoized step, the next of them, the delivery created for
              \* it but not enqueued, failed runs of the second step
  row,        \* status per delivery; "none" before the insert, "open" while
              \* the transaction that inserted it is open, "gone" when deleted
  to,         \* per delivery: its endpoint
  tests,      \* deliveries of 'webhook.test'
  retrying,   \* deliveries locked by an open retry request
  job,        \* per delivery: the job of this id, the slot that holds its
              \* lock, attempts made and stalls
  run,        \* per slot: what the attempt it runs does next, of which delivery
  failing,    \* per delivery: onFailed callbacks that are due
  counted,    \* per delivery: what the open transaction of onFailed decided
  requests,
  faults,
  \* history, read by no action
  accepted,   \* deliveries the endpoint has answered with 2xx
  everFailed, \* deliveries that were FAILED at some time
  auto,       \* endpoints disabled by the worker and by nobody since
  late,       \* per endpoint: requests sent to it since it was disabled
  rerun,      \* deliveries retried, or cut short by a fault
  stranded    \* deliveries whose job was lost: see the actions that add to it

rows == <<row, to, tests>>
ghosts == <<accepted, everFailed, auto, late, rerun, stranded>>
vars == <<endpoint, subscribed, fan, rows, retrying, job, run, failing, counted,
          requests, faults, ghosts>>

Job(state, by, made, stalls) ==
  [state |-> state, by |-> by, made |-> made, stalls |-> stalls]
NoJob == Job("none", NoSlot, 0, 0)
NewJob == Job("waiting", NoSlot, 0, 0)
NoRun == [pc |-> "idle", of |-> NoDelivery]

Init ==
  /\ endpoint = [e \in Endpoints |-> "ACTIVE"]
  /\ subscribed = Endpoints
  /\ fan = [pc |-> "list", order |-> << >>, next |-> 1, new |-> NoDelivery, fails |-> 0]
  /\ row = [d \in Deliveries |-> "none"]
  /\ to = [d \in Deliveries |-> NoEndpoint]
  /\ tests = {} /\ retrying = {}
  /\ job = [d \in Deliveries |-> NoJob]
  /\ run = [w \in Slots |-> NoRun]
  /\ failing = [d \in Deliveries |-> 0]
  /\ counted = [d \in Deliveries |-> "no"]
  /\ requests = 0 /\ faults = 0
  /\ accepted = {} /\ everFailed = {} /\ auto = {} /\ rerun = {} /\ stranded = {}
  /\ late = [e \in Endpoints |-> 0]

Fault ==
  /\ faults < MaxFaults /\ requests + faults < MaxTogether
  /\ faults' = faults + 1
NoFault == UNCHANGED faults

Request ==
  /\ requests < MaxRequests /\ requests + faults < MaxTogether
  /\ requests' = requests + 1

Exists(d) == row[d] \in DeliveryStatuses
Of(e) == {d \in Deliveries : to[d] = e}

(* Ids are interchangeable: an insert takes any unused one.                *)
Unused == {d \in Deliveries : row[d] = "none"}
Fresh == CHOOSE d \in Unused : TRUE

(* A row updated by a transaction that is still open cannot be written.    *)
Unlocked(d) == d \notin retrying /\ counted[d] = "no"

(* updateDeliveryStatus: by id, whatever the row says.                     *)
SetStatus(d, status) ==
  /\ Unlocked(d)
  /\ row' = IF Exists(d) THEN [row EXCEPT ![d] = status] ELSE row
  /\ UNCHANGED <<to, tests>>

Goto(w, next) == run' = [run EXCEPT ![w].pc = next]
Leaves(w) == run' = [run EXCEPT ![w] = NoRun]

(* Slots are interchangeable too: a job goes to any idle one.              *)
Idle == {w \in Slots : run[w] = NoRun}
FreeSlot == CHOOSE w \in Idle : TRUE

(* Is the lock of the slot's job still its own; is the lock's holder still *)
(* at work on it.                                                          *)
Holds(w) == LET j == job[run[w].of] IN j.state = "active" /\ j.by = w
Attended(d) == run[job[d].by].of = d

(* enqueueWebhook: an id that is still retained is not added again.        *)
Add(d) == job' = IF job[d] = NoJob THEN [job EXCEPT ![d] = NewJob] ELSE job

Orders(S) == {f \in [1..Cardinality(S) -> S] : \A i, j \in DOMAIN f : f[i] = f[j] => i = j}

-----------------------------------------------------------------------------
(* The fan-out function.                                                   *)

(* Step get-endpoints; its result is kept for the runs of the next step.   *)
FanLists ==
  /\ fan.pc = "list"
  /\ LET found == {e \in Endpoints : endpoint[e] = "ACTIVE" /\ e \in subscribed}
     IN  \E order \in Orders(found) :
           fan' = [fan EXCEPT !.order = order,
                              !.pc = IF found = {} THEN "done" ELSE "create"]
  /\ UNCHANGED <<endpoint, subscribed, rows, retrying, job, run, failing, counted,
                 requests, faults, ghosts>>

(* createDelivery in a transaction of its own; the reference to a deleted  *)
(* endpoint is refused (FanFails).                                         *)
FanCreates ==
  /\ fan.pc = "create" /\ Unused # {}
  /\ LET e == fan.order[fan.next] IN
       /\ endpoint[e] # "deleted"
       /\ row' = [row EXCEPT ![Fresh] = "QUEUED"]
       /\ to' = [to EXCEPT ![Fresh] = e]
  /\ fan' = [fan EXCEPT !.pc = "enqueue", !.new = Fresh]
  /\ UNCHANGED <<endpoint, subscribed, tests, retrying, job, run, failing, counted,
                 requests, faults, ghosts>>

FanEnqueues ==
  /\ fan.pc = "enqueue"
  /\ Add(fan.new)
  /\ fan' = [fan EXCEPT !.next = fan.next + 1, !.new = NoDelivery,
                        !.pc = IF fan.next = Len(fan.order) THEN "done" ELSE "create"]
  /\ UNCHANGED <<endpoint, subscribed, rows, retrying, run, failing, counted,
                 requests, faults, ghosts>>

(* The step throws, its process stops or its result is lost (until Inngest *)
(* has it, which nothing here waits for): Inngest runs it again from its   *)
(* first endpoint, as often as it retries.  A delivery that was created    *)
(* and not enqueued is left behind.                                        *)
FanFails ==
  /\ fan.pc \in {"create", "enqueue", "done"} /\ fan.order # << >>
  /\ \/ fan.pc = "create" /\ endpoint[fan.order[fan.next]] = "deleted" /\ NoFault
     \/ Fault
  /\ fan' = [fan EXCEPT !.next = 1, !.new = NoDelivery, !.fails = fan.fails + 1,
                        !.pc = IF fan.fails = FanRetries THEN "failed" ELSE "create"]
  /\ stranded' = stranded \cup ({fan.new} \cap Deliveries)
  /\ UNCHANGED <<endpoint, subscribed, rows, retrying, job, run, failing, counted,
                 requests, accepted, everFailed, auto, late, rerun>>

-----------------------------------------------------------------------------
(* The admin's requests.                                                   *)

(* What turning an endpoint's status does to the histories.                *)
Turn(e, status) ==
  /\ endpoint' = [endpoint EXCEPT ![e] = status]
  /\ late' = IF status = endpoint[e] THEN late ELSE [late EXCEPT ![e] = 0]

(* updateEndpoint: status and subscriptions, either or both.  (One that    *)
(* changes nothing is not counted.)                                        *)
UpdateEndpoint(e) ==
  /\ endpoint[e] # "deleted" /\ Request
  /\ \E status \in {"ACTIVE", "DISABLED"} :
       /\ Turn(e, status)
       /\ auto' = IF status = endpoint[e] THEN auto ELSE auto \ {e}
  /\ subscribed' \in {subscribed \cup {e}, subscribed \ {e}}
  /\ endpoint' # endpoint \/ subscribed' # subscribed
  /\ UNCHANGED <<fan, rows, retrying, job, run, failing, counted, faults,
                 accepted, everFailed, rerun, stranded>>

(* deleteEndpoint: its deliveries go by ON DELETE CASCADE.  Open           *)
(* transactions on them, or that refer to it, are waited for.              *)
DeleteEndpoint(e) ==
  /\ endpoint[e] # "deleted" /\ Request
  /\ \A d \in Of(e) : row[d] # "open" /\ Unlocked(d)
  /\ endpoint' = [endpoint EXCEPT ![e] = "deleted"]
  /\ row' = [d \in Deliveries |-> IF to[d] = e THEN "gone" ELSE row[d]]
  /\ auto' = auto \ {e} /\ late' = [late EXCEPT ![e] = 0]
  /\ UNCHANGED <<subscribed, fan, to, tests, retrying, job, run, failing, counted,
                 faults, accepted, everFailed, rerun, stranded>>

(* test: insert and enqueue.  An error of the enqueue becomes an answer    *)
(* like any other, and the row is committed without a job.                 *)
SendTest(e) ==
  /\ endpoint[e] = "ACTIVE" /\ Unused # {} /\ Request
  /\ row' = [row EXCEPT ![Fresh] = "open"]
  /\ to' = [to EXCEPT ![Fresh] = e]
  /\ tests' = tests \cup {Fresh}
  /\ \/ Add(Fresh) /\ NoFault /\ UNCHANGED stranded
     \/ Fault /\ stranded' = stranded \cup {Fresh} /\ UNCHANGED job
  /\ UNCHANGED <<endpoint, subscribed, fan, retrying, run, failing, counted,
                 accepted, everFailed, auto, late, rerun>>

TestCommits(d) ==
  /\ row[d] = "open"
  /\ row' = [row EXCEPT ![d] = "QUEUED"]
  /\ UNCHANGED <<endpoint, subscribed, fan, to, tests, retrying, job, run, failing,
                 counted, requests, faults, ghosts>>

(* retryDelivery: the row is set to QUEUED whatever its status, which the  *)
(* commit shows; then the retained job is removed and a new one added.  An *)
(* active job can be neither removed nor doubled.  When Redis fails, the   *)
(* row is committed all the same.                                          *)
Retry(d) ==
  /\ Request
  /\ Exists(d) /\ Unlocked(d)
  /\ retrying' = retrying \cup {d}
  /\ rerun' = rerun \cup {d}
  /\ \/ /\ job[d].state # "active" /\ NoFault
        /\ job' = [job EXCEPT ![d] = NewJob]
        /\ UNCHANGED stranded
     \/ /\ job[d].state = "active" /\ NoFault
        /\ stranded' = stranded \cup {d}
        /\ UNCHANGED job
     \/ /\ job[d].state # "active" /\ Fault
        /\ job' \in {job, [job EXCEPT ![d] = NoJob]}
        /\ stranded' = stranded \cup {d}
  /\ UNCHANGED <<endpoint, subscribed, fan, rows, run, failing, counted,
                 accepted, everFailed, auto, late>>

RetryCommits(d) ==
  /\ d \in retrying
  /\ retrying' = retrying \ {d}
  /\ row' = [row EXCEPT ![d] = "QUEUED"]
  /\ UNCHANGED <<endpoint, subscribed, fan, to, tests, job, run, failing, counted,
                 requests, faults, ghosts>>

(* The connection of the request breaks: it is rolled back.                *)
RequestBreaks(d) ==
  /\ Fault
  /\ \/ row[d] = "open" /\ row' = [row EXCEPT ![d] = "gone"] /\ UNCHANGED retrying
     \/ d \in retrying /\ retrying' = retrying \ {d} /\ UNCHANGED row
  /\ UNCHANGED <<endpoint, subscribed, fan, to, tests, job, run, failing, counted,
                 requests, ghosts>>

-----------------------------------------------------------------------------
(* The queue.                                                              *)

Take(d) ==
  /\ job[d].state = "waiting" /\ Idle # {}
  /\ job' = [job EXCEPT ![d].state = "active", ![d].by = FreeSlot]
  /\ run' = [run EXCEPT ![FreeSlot] = [pc |-> "check", of |-> d]]
  /\ UNCHANGED <<endpoint, subscribed, fan, rows, retrying, failing, counted,
                 requests, faults, ghosts>>

(* BullMQ moves the job on for the slot that holds its lock; the end of    *)
(* another run of it changes nothing.                                      *)
Complete(w) ==
  /\ run[w].pc = "done"
  /\ job' = IF Holds(w) THEN [job EXCEPT ![run[w].of].state = "completed",
                                        ![run[w].of].by = NoSlot]
                       ELSE job
  /\ Leaves(w)
  /\ UNCHANGED <<endpoint, subscribed, fan, rows, retrying, failing, counted,
                 requests, faults, ghosts>>

(* The attempt threw: the job waits out its backoff, or has failed and     *)
(* onFailed is called.                                                     *)
Throw(w) ==
  /\ run[w].pc = "throw"
  /\ LET d == run[w].of made == job[d].made + 1 last == made >= Attempts IN
       IF Holds(w)
       THEN /\ job' = [job EXCEPT ![d] =
                         Job(IF last THEN "failed" ELSE "waiting", NoSlot, made, @.stalls)]
            /\ failing' = [failing EXCEPT ![d] = @ + IF last THEN 1 ELSE 0]
       ELSE UNCHANGED <<job, failing>>
  /\ Leaves(w)
  /\ UNCHANGED <<endpoint, subscribed, fan, rows, retrying, counted, requests,
                 faults, ghosts>>

(* The process of the attempt stops.                                       *)
Die(w) ==
  /\ run[w] # NoRun /\ Fault
  /\ Leaves(w)
  /\ rerun' = rerun \cup {run[w].of}
  /\ UNCHANGED <<endpoint, subscribed, fan, rows, retrying, job, failing, counted,
                 requests, accepted, everFailed, auto, late, stranded>>

(* BullMQ finds that the lock of the job has expired.  Its run, if the     *)
(* worker is alive, goes on.  Given up, the job has not used its attempts, *)
(* and onFailed does nothing.                                              *)
Stall(d) ==
  /\ job[d].state = "active"
  /\ IF Attended(d) THEN Fault ELSE NoFault
  /\ rerun' = rerun \cup {d}
  /\ IF job[d].stalls < MaxStalls
     THEN /\ job' = [job EXCEPT ![d] = Job("waiting", NoSlot, @.made, @.stalls + 1)]
          /\ UNCHANGED stranded
     ELSE /\ job' = [job EXCEPT ![d].state = "failed", ![d].by = NoSlot]
          /\ stranded' = stranded \cup {d}
  /\ UNCHANGED <<endpoint, subscribed, fan, rows, retrying, run, failing, counted,
                 requests, accepted, everFailed, auto, late>>

-----------------------------------------------------------------------------
(* The worker's attempt.                                                   *)

(* Mutant: the status of the endpoint is not looked at again. *)
CheckSubscriptionOnly(w) ==
  /\ run[w].pc = "check"
  /\ LET d == run[w].of IN
       /\ Goto(w, IF ~ Exists(d) THEN "done"
                  ELSE IF d \in tests \/ to[d] \in subscribed THEN "mark"
                  ELSE "cancel")
       /\ stranded' = stranded \cup {x \in {d} : row[x] = "open"}
  /\ UNCHANGED <<endpoint, subscribed, fan, rows, retrying, job, failing, counted,
                 requests, faults, accepted, everFailed, auto, late, rerun>>

(* Phase 1: the endpoint as it is now.  A row that is gone, or not yet     *)
(* committed, is taken for deleted and the job discarded.                  *)
Check(w) ==
  /\ run[w].pc = "check"
  /\ LET d == run[w].of IN
       /\ Goto(w, IF ~ Exists(d) THEN "done"
                  ELSE IF endpoint[to[d]] = "ACTIVE" /\ (d \in tests \/ to[d] \in subscribed)
                  THEN "mark"
                  ELSE "cancel")
       /\ stranded' = stranded \cup {x \in {d} : row[x] = "open"}
  /\ UNCHANGED <<endpoint, subscribed, fan, rows, retrying, job, failing, counted,
                 requests, faults, accepted, everFailed, auto, late, rerun>>

Cancel(w) ==
  /\ run[w].pc = "cancel"
  /\ SetStatus(run[w].of, "CANCELLED")
  /\ Goto(w, "done")
  /\ UNCHANGED <<endpoint, subscribed, fan, retrying, job, failing, counted,
                 requests, faults, ghosts>>

(* A run that has lost its lock may write DELIVERING over the outcome of   *)
(* the run that took over: no job is left for the row.                     *)
SetDelivering(w) ==
  /\ SetStatus(run[w].of, "DELIVERING")
  /\ stranded' = stranded \cup {d \in {run[w].of} : ~ Holds(w) /\ row[d] \in Outcomes}

(* Phase 2.                                                                *)
Mark(w) ==
  /\ run[w].pc = "mark"
  /\ SetDelivering(w)
  /\ Goto(w, "post")
  /\ UNCHANGED <<endpoint, subscribed, fan, retrying, job, failing, counted,
                 requests, faults, accepted, everFailed, auto, late, rerun>>

(* Phase 3: the URL is not allowed.                                        *)
Refuse(w) ==
  /\ run[w].pc = "post"
  /\ SetStatus(run[w].of, "FAILED")
  /\ everFailed' = everFailed \cup {d \in {run[w].of} : Exists(d)}
  /\ Goto(w, "done")
  /\ UNCHANGED <<endpoint, subscribed, fan, retrying, job, failing, counted,
                 requests, faults, accepted, auto, late, rerun, stranded>>

(* Phase 5: the request.  No answer and a refusal are alike.               *)
Post(w) ==
  /\ run[w].pc = "post"
  /\ \/ Goto(w, "ok") /\ accepted' = accepted \cup {run[w].of}
     \/ Goto(w, "error") /\ UNCHANGED accepted
  /\ LET e == to[run[w].of] IN
       late' = IF endpoint[e] = "DISABLED" THEN [late EXCEPT ![e] = @ + 1] ELSE late
  /\ UNCHANGED <<endpoint, subscribed, fan, rows, retrying, job, failing, counted,
                 requests, faults, everFailed, auto, rerun, stranded>>

(* Mutant: any answer is a success. *)
AnyAnswer(w) ==
  /\ run[w].pc \in {"ok", "error"}
  /\ SetStatus(run[w].of, "DELIVERED")
  /\ Goto(w, "done")
  /\ UNCHANGED <<endpoint, subscribed, fan, retrying, job, failing, counted,
                 requests, faults, ghosts>>

(* Phase 6: 2xx is DELIVERED; anything else stays DELIVERING and throws.   *)
Answer(w) ==
  /\ \/ /\ run[w].pc = "ok" /\ Goto(w, "done")
        /\ SetStatus(run[w].of, "DELIVERED") /\ UNCHANGED stranded
     \/ /\ run[w].pc = "error" /\ Goto(w, "throw")
        /\ SetDelivering(w)
  /\ UNCHANGED <<endpoint, subscribed, fan, retrying, job, failing, counted,
                 requests, faults, accepted, everFailed, auto, late, rerun>>

(* A transaction of the attempt fails.                                     *)
AttemptFails(w) ==
  /\ run[w].pc \in {"check", "cancel", "mark", "post", "ok", "error"} /\ Fault
  /\ Goto(w, "throw")
  /\ rerun' = rerun \cup {run[w].of}
  /\ UNCHANGED <<endpoint, subscribed, fan, rows, retrying, job, failing, counted,
                 requests, accepted, everFailed, auto, late, stranded>>

-----------------------------------------------------------------------------
(* onFailed, after the last attempt.                                       *)

Failures(d) ==
  Cardinality({x \in Of(to[d]) : row[x] = "FAILED"} \cup {d})

(* Mutant: one failure too few disables. *)
FailureCountsEarly(d) ==
  /\ failing[d] > 0 /\ Unlocked(d) /\ Exists(d)
  /\ counted' = [counted EXCEPT ![d] = IF Failures(d) + 1 >= Threshold THEN "disable" ELSE "keep"]
  /\ UNCHANGED <<endpoint, subscribed, fan, rows, retrying, job, run, failing,
                 requests, faults, ghosts>>

(* FAILED is written, and countRecentFailures counts it with the failures  *)
(* that have been committed.                                               *)
FailureCounts(d) ==
  /\ failing[d] > 0 /\ Unlocked(d) /\ Exists(d)
  /\ counted' = [counted EXCEPT ![d] = IF Failures(d) >= Threshold THEN "disable" ELSE "keep"]
  /\ UNCHANGED <<endpoint, subscribed, fan, rows, retrying, job, run, failing,
                 requests, faults, ghosts>>

(* Mutant: the failure is counted and not recorded. *)
FailureForgotten(d) ==
  /\ counted[d] # "no"
  /\ UNCHANGED row
  /\ everFailed' = everFailed \cup {d}
  /\ failing' = [failing EXCEPT ![d] = @ - 1]
  /\ counted' = [counted EXCEPT ![d] = "no"]
  /\ IF counted[d] = "disable" THEN Turn(to[d], "DISABLED") /\ auto' = auto \cup {to[d]}
                               ELSE UNCHANGED <<endpoint, late, auto>>
  /\ UNCHANGED <<subscribed, fan, to, tests, retrying, job, run, requests, faults,
                 accepted, rerun, stranded>>

(* The transaction commits, with the disabling if the count called for it. *)
FailureCommits(d) ==
  /\ counted[d] # "no"
  /\ row' = [row EXCEPT ![d] = "FAILED"]
  /\ everFailed' = everFailed \cup {d}
  /\ failing' = [failing EXCEPT ![d] = @ - 1]
  /\ counted' = [counted EXCEPT ![d] = "no"]
  /\ IF counted[d] = "disable" THEN Turn(to[d], "DISABLED") /\ auto' = auto \cup {to[d]}
                               ELSE UNCHANGED <<endpoint, late, auto>>
  /\ UNCHANGED <<subscribed, fan, to, tests, retrying, job, run, requests, faults,
                 accepted, rerun, stranded>>

(* The endpoint, and the row with it, has been deleted, or is not yet      *)
(* committed.                                                              *)
FailureFindsNothing(d) ==
  /\ failing[d] > 0 /\ ~ Exists(d)
  /\ failing' = [failing EXCEPT ![d] = @ - 1]
  /\ stranded' = stranded \cup {x \in {d} : row[x] = "open"}
  /\ UNCHANGED <<endpoint, subscribed, fan, rows, retrying, job, run, counted,
                 requests, faults, accepted, everFailed, auto, late, rerun>>

(* The callback throws, which is logged, or its process stops.             *)
FailureLost(d) ==
  /\ failing[d] > 0 /\ Fault
  /\ failing' = [failing EXCEPT ![d] = @ - 1]
  /\ counted' = [counted EXCEPT ![d] = "no"]
  /\ stranded' = stranded \cup {d}
  /\ UNCHANGED <<endpoint, subscribed, fan, rows, retrying, job, run, requests,
                 accepted, everFailed, auto, late, rerun>>

-----------------------------------------------------------------------------
FanStep == FanLists \/ FanCreates \/ FanEnqueues \/ FanFails

AdminStep ==
  \/ \E e \in Endpoints : UpdateEndpoint(e) \/ DeleteEndpoint(e) \/ SendTest(e)
  \/ \E d \in Deliveries : Retry(d)

RequestEnds(d) == TestCommits(d) \/ RetryCommits(d)

AttemptStep(w) ==
  \/ Check(w) \/ Cancel(w) \/ Mark(w) \/ Refuse(w) \/ Post(w) \/ Answer(w)
  \/ Complete(w) \/ Throw(w)

FailureStep(d) == FailureCounts(d) \/ FailureCommits(d) \/ FailureFindsNothing(d)

FaultStep ==
  \/ \E d \in Deliveries : RequestBreaks(d) \/ FailureLost(d)
  \/ \E w \in Slots : Die(w) \/ AttemptFails(w)

Next ==
  \/ FanStep \/ AdminStep \/ FaultStep
  \/ \E d \in Deliveries : RequestEnds(d) \/ Take(d) \/ Stall(d) \/ FailureStep(d)
  \/ \E w \in Slots : AttemptStep(w)

Spec == Init /\ [][Next]_vars

(* Requests end, enqueued jobs are taken and run, BullMQ finds the jobs of *)
(* dead workers, callbacks run, and the fan-out enqueues what it has       *)
(* created.                                                                *)
Fairness ==
  /\ WF_vars(FanEnqueues)
  /\ \A w \in Slots : WF_vars(AttemptStep(w))
  /\ \A d \in Deliveries :
       /\ WF_vars(RequestEnds(d)) /\ WF_vars(Take(d)) /\ WF_vars(FailureStep(d))
       /\ WF_vars(job[d].state = "active" /\ ~ Attended(d) /\ Stall(d))

FairSpec == Spec /\ Fairness

-----------------------------------------------------------------------------
(* Properties                                                              *)

TypeOK ==
  /\ endpoint \in [Endpoints -> {"ACTIVE", "DISABLED", "deleted"}]
  /\ subscribed \subseteq Endpoints /\ auto \subseteq Endpoints
  /\ fan \in Fans
  /\ row \in [Deliveries -> RowStates]
  /\ to \in [Deliveries -> Endpoints \cup {NoEndpoint}]
  /\ job \in [Deliveries -> Jobs]
  /\ run \in [Slots -> Runs]
  /\ failing \in [Deliveries -> Nat]
  /\ counted \in [Deliveries -> {"no", "keep", "disable"}]
  /\ late \in [Endpoints -> Nat]
  /\ tests \subseteq Deliveries /\ retrying \subseteq Deliveries
  /\ accepted \subseteq Deliveries /\ everFailed \subseteq Deliveries
  /\ rerun \subseteq Deliveries /\ stranded \subseteq Deliveries
  /\ requests \in 0..MaxRequests /\ faults \in 0..MaxFaults

(* Once an endpoint is disabled, by hand or by the worker, at most the     *)
(* attempts that had passed their check are still sent to it: no backlog,  *)
(* retry, test or stalled job gets through, however long it has waited.    *)
LateBounded == \A e \in Endpoints : endpoint[e] = "DISABLED" => late[e] <= Cardinality(Slots)

(* The worker disables an endpoint only when as many of its deliveries as  *)
(* the threshold says have failed, though it counts in transactions that   *)
(* do not see each other and rows are retried meanwhile.                   *)
DisableJustified ==
  \A e \in auto : Cardinality({d \in everFailed : to[d] = e}) >= Threshold

(* The status tells what the endpoint answered: DELIVERED was accepted,    *)
(* and what was FAILED or CANCELLED was not, unless a retry or a fault has *)
(* made the worker send it again.                                          *)
OutcomeHonest ==
  \A d \in Deliveries :
    /\ row[d] = "DELIVERED" => d \in accepted
    /\ row[d] \in {"FAILED", "CANCELLED"} /\ d \notin rerun => d \notin accepted

(* Every delivery comes to an outcome whatever dies or is retried, edited  *)
(* or deleted meanwhile, except in the ways named where stranded grows: a  *)
(* fan-out cut between row and job, a test looked up before its commit,    *)
(* an error of Redis, a retry of a running job, two stalls, a lost         *)
(* onFailed, and a run without its lock that writes DELIVERING over the    *)
(* outcome of the run that took over.                                      *)
DeliverySettles ==
  \A d \in Deliveries :
    row[d] \in {"QUEUED", "DELIVERING"}
      ~> (row[d] \in {"DELIVERED", "FAILED", "CANCELLED", "gone"} \/ d \in stranded)
=============================================================================
