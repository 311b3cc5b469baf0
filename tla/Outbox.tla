------------------------------- MODULE Outbox -------------------------------
(***************************************************************************)
(* The transactional outbox and the poller jobs that drain it into Inngest *)
(* (apps/api/src/services/outbox.ts, workers/outbox-poller.worker.ts and   *)
(* queues/outbox-poller.queue.ts).                                         *)
(*                                                                         *)
(* A request inserts an event in the transaction of the mutation that      *)
(* causes it; the row is visible once that transaction commits.  Each API  *)
(* instance runs one poller, whose job recovers stale claims, fetches a    *)
(* batch of unclaimed rows and, row by row, claims, sends and marks.       *)
(* Every database statement of the job commits by itself, so the jobs of   *)
(* two instances interleave between any two statements.                    *)
(*                                                                         *)
(* Events are numbered in the order of created_at.                         *)
(***************************************************************************)
EXTENDS Integers, FiniteSets

CONSTANTS
  Pollers,     \* API instances, each with one poller (concurrency: 1)
  NumEvents,   \* bound: events the requests may insert
  BatchSize,   \* rows one job fetches (50 in the code)
  Poison,      \* events Inngest refuses on every attempt
  MaxCrashes,  \* bound: jobs that stop between two statements
  MaxFailures  \* bound: failing sends or marks of the other events

Events == 1..NumEvents

ASSUME OutboxAssumption ==
  /\ NumEvents \in Nat
  /\ BatchSize \in Nat \ {0}
  /\ Poison \subseteq Events
  /\ MaxCrashes \in Nat
  /\ MaxFailures \in Nat

VARIABLES
  row,       \* row[e]: "absent" until the commit, then what processed_at says:
             \* "null", "claimed" (the epoch sentinel) or "done" (a timestamp)
  horizon,   \* events 1..horizon were created more than five minutes ago
  pc,        \* pc[p]: the statement the poller's job executes next
  batch,     \* batch[p]: fetched rows that the job's loop has not reached
  cur,       \* cur[p]: the row the loop is working on (0: none)
  sends,     \* sends[e]: copies of e that Inngest accepted
  failures,  \* failures[e]: attempts on e that ended in the catch block
  crashes    \* jobs stopped so far

vars == <<row, horizon, pc, batch, cur, sends, failures, crashes>>

(* The rows a fetch may return: processed_at IS NULL.                      *)
Unclaimed == {e \in Events : row[e] = "null"}

(* ORDER BY created_at LIMIT BatchSize.                                    *)
OldestFirst == {e \in Unclaimed :
                  Cardinality({f \in Unclaimed : f <= e}) <= BatchSize}

IsNext(p, e) == e \in batch[p] /\ \A f \in batch[p] : e <= f

(* Where the loop goes once a row is dealt with.                           *)
Resume(rest) == IF rest = {} THEN "idle" ELSE "claim"

Holds(p, e) == cur[p] = e

Init ==
  /\ row = [e \in Events |-> "absent"]
  /\ horizon = 0
  /\ pc = [p \in Pollers |-> "idle"]
  /\ batch = [p \in Pollers |-> {}]
  /\ cur = [p \in Pollers |-> 0]
  /\ sends = [e \in Events |-> 0]
  /\ failures = [e \in Events |-> 0]
  /\ crashes = 0

(* A request's transaction that inserted e commits.  created_at is the     *)
(* start of the transaction, so commits need not follow the order of the   *)
(* numbers.                                                                *)
EnqueueOutboxEvent(e) ==
  /\ row[e] = "absent"
  /\ row' = [row EXCEPT ![e] = "null"]
  /\ UNCHANGED <<horizon, pc, batch, cur, sends, failures, crashes>>

(* Time passes: the oldest young event crosses the staleness threshold.    *)
Age ==
  /\ horizon < NumEvents
  /\ horizon' = horizon + 1
  /\ UNCHANGED <<row, pc, batch, cur, sends, failures, crashes>>

(* Mutant: the recovery forgets the age of the claim.                      *)
RecoverAnyClaim(p) ==
  /\ pc[p] = "idle"
  /\ row' = [e \in Events |-> IF row[e] = "claimed" THEN "null" ELSE row[e]]
  /\ pc' = [pc EXCEPT ![p] = "fetch"]
  /\ UNCHANGED <<horizon, batch, cur, sends, failures, crashes>>

(* Mutant: a job without the recovery statement.                           *)
RecoverNothing(p) ==
  /\ pc[p] = "idle"
  /\ pc' = [pc EXCEPT ![p] = "fetch"]
  /\ UNCHANGED <<row, horizon, batch, cur, sends, failures, crashes>>

(* First statement of a job: claims on rows CREATED before the threshold   *)
(* are taken for those of a crashed worker.                                *)
RecoverStaleClaims(p) ==
  /\ pc[p] = "idle"
  /\ row' = [e \in Events |->
               IF row[e] = "claimed" /\ e <= horizon THEN "null" ELSE row[e]]
  /\ pc' = [pc EXCEPT ![p] = "fetch"]
  /\ UNCHANGED <<horizon, batch, cur, sends, failures, crashes>>

FetchBatch(p) ==
  /\ pc[p] = "fetch"
  /\ batch' = [batch EXCEPT ![p] = OldestFirst]
  /\ pc' = [pc EXCEPT ![p] = Resume(OldestFirst)]
  /\ UNCHANGED <<row, horizon, cur, sends, failures, crashes>>

(* Mutants: the claim's WHERE compares the id alone, or accepts any row    *)
(* that is not claimed at the moment.                                      *)
ClaimWhere(p, e, ok) ==
  /\ pc[p] = "claim" /\ IsNext(p, e)
  /\ ok
  /\ row' = [row EXCEPT ![e] = "claimed"]
  /\ cur' = [cur EXCEPT ![p] = e]
  /\ batch' = [batch EXCEPT ![p] = @ \ {e}]
  /\ pc' = [pc EXCEPT ![p] = "send"]
  /\ UNCHANGED <<horizon, sends, failures, crashes>>
ClaimById(p, e) == ClaimWhere(p, e, TRUE)
ClaimUnlessClaimed(p, e) == ClaimWhere(p, e, row[e] # "claimed")

(* UPDATE .. WHERE id = e AND processed_at IS NULL returned the row.       *)
Claim(p, e) ==
  /\ pc[p] = "claim" /\ IsNext(p, e)
  /\ row[e] = "null"
  /\ row' = [row EXCEPT ![e] = "claimed"]
  /\ cur' = [cur EXCEPT ![p] = e]
  /\ batch' = [batch EXCEPT ![p] = @ \ {e}]
  /\ pc' = [pc EXCEPT ![p] = "send"]
  /\ UNCHANGED <<horizon, sends, failures, crashes>>

(* The update matched nothing: another instance has the row; continue.     *)
SkipClaimed(p, e) ==
  /\ pc[p] = "claim" /\ IsNext(p, e)
  /\ row[e] # "null"
  /\ batch' = [batch EXCEPT ![p] = @ \ {e}]
  /\ pc' = [pc EXCEPT ![p] = Resume(batch[p] \ {e})]
  /\ UNCHANGED <<row, horizon, cur, sends, failures, crashes>>

SendOk(p, e) ==
  /\ pc[p] = "send" /\ Holds(p, e)
  /\ e \notin Poison
  /\ sends' = [sends EXCEPT ![e] = @ + 1]
  /\ pc' = [pc EXCEPT ![p] = "mark"]
  /\ UNCHANGED <<row, horizon, batch, cur, failures, crashes>>

(* Mutant: the error of a send is swallowed before the mark.               *)
SendFailsSilently(p, e) ==
  /\ pc[p] = "send" /\ Holds(p, e)
  /\ failures[e] < MaxFailures
  /\ failures' = [failures EXCEPT ![e] = @ + 1]
  /\ pc' = [pc EXCEPT ![p] = "mark"]
  /\ UNCHANGED <<row, horizon, batch, cur, sends, crashes>>

(* inngest.send throws.  The event may have arrived all the same (the      *)
(* reply was lost); a poison event never does.                             *)
SendFails(p, e) ==
  /\ pc[p] = "send" /\ Holds(p, e)
  /\ \/ e \in Poison /\ UNCHANGED <<sends, failures>>
     \/ /\ e \notin Poison /\ failures[e] < MaxFailures
        /\ failures' = [failures EXCEPT ![e] = @ + 1]
        /\ \/ UNCHANGED sends
           \/ sends' = [sends EXCEPT ![e] = @ + 1]
  /\ pc' = [pc EXCEPT ![p] = "unclaim"]
  /\ UNCHANGED <<row, horizon, batch, cur, crashes>>

(* UPDATE .. WHERE id = e: whatever the row says by now, it becomes done.  *)
MarkProcessed(p, e) ==
  /\ pc[p] = "mark" /\ Holds(p, e)
  /\ row' = [row EXCEPT ![e] = "done"]
  /\ cur' = [cur EXCEPT ![p] = 0]
  /\ pc' = [pc EXCEPT ![p] = Resume(batch[p])]
  /\ UNCHANGED <<horizon, batch, sends, failures, crashes>>

(* The marking update throws: the catch block runs although e was sent.    *)
MarkFails(p, e) ==
  /\ pc[p] = "mark" /\ Holds(p, e)
  /\ failures[e] < MaxFailures
  /\ failures' = [failures EXCEPT ![e] = @ + 1]
  /\ pc' = [pc EXCEPT ![p] = "unclaim"]
  /\ UNCHANGED <<row, horizon, batch, cur, sends, crashes>>

(* The catch block: UPDATE .. WHERE id = e, with no look at the row.       *)
Unclaim(p, e) ==
  /\ pc[p] = "unclaim" /\ Holds(p, e)
  /\ row' = [row EXCEPT ![e] = "null"]
  /\ cur' = [cur EXCEPT ![p] = 0]
  /\ pc' = [pc EXCEPT ![p] = Resume(batch[p])]
  /\ UNCHANGED <<horizon, batch, sends, failures, crashes>>

(* The process dies, or a statement outside the try block throws: the job  *)
(* ends where it is.  BullMQ's retry, or the next scheduled job, starts    *)
(* over with RecoverStaleClaims.                                           *)
Crash(p) ==
  /\ pc[p] # "idle"
  /\ crashes < MaxCrashes
  /\ crashes' = crashes + 1
  /\ pc' = [pc EXCEPT ![p] = "idle"]
  /\ batch' = [batch EXCEPT ![p] = {}]
  /\ cur' = [cur EXCEPT ![p] = 0]
  /\ UNCHANGED <<row, horizon, sends, failures>>

(* The statements of one job.                                              *)
Job(p) ==
  \/ RecoverStaleClaims(p)
  \/ FetchBatch(p)
  \/ \E e \in Events : \/ Claim(p, e) \/ SkipClaimed(p, e)
                       \/ SendOk(p, e) \/ SendFails(p, e)
                       \/ MarkProcessed(p, e) \/ MarkFails(p, e)
                       \/ Unclaim(p, e)

Next ==
  \/ \E e \in Events : EnqueueOutboxEvent(e)
  \/ Age
  \/ \E p \in Pollers : Job(p) \/ Crash(p)

Spec == Init /\ [][Next]_vars

(* The scheduler starts a job every five seconds on an idle worker, every  *)
(* statement of a running job returns or throws, and time passes.  Crashes *)
(* and failures are bounded and need not happen; commits need not either.  *)
Fairness == WF_vars(Age) /\ \A p \in Pollers : WF_vars(Job(p))

FairSpec == Spec /\ Fairness

-----------------------------------------------------------------------------
TypeOK ==
  /\ row \in [Events -> {"absent", "null", "claimed", "done"}]
  /\ horizon \in 0..NumEvents
  /\ pc \in [Pollers -> {"idle", "fetch", "claim", "send", "mark", "unclaim"}]
  /\ batch \in [Pollers -> SUBSET Events]
  /\ cur \in [Pollers -> Events \cup {0}]
  /\ sends \in [Events -> Nat]
  /\ failures \in [Events -> Nat]
  /\ crashes \in 0..MaxCrashes

Young(e) == e > horizon

(* The claim works while the row is younger than the threshold: two        *)
(* instances never work on the same young event at once.                   *)
YoungExclusive ==
  \A e \in Events : Young(e) =>
    \A p, q \in Pollers : Holds(p, e) /\ Holds(q, e) => p = q

(* Crashes and overlapping pollers do not duplicate a young event: Inngest *)
(* gets at most one copy more than the attempts that reported an error.    *)
YoungSentOnce ==
  \A e \in Events : Young(e) => sends[e] <= failures[e] + 1

(* processed_at is a timestamp only if Inngest has the event: no order of  *)
(* recoveries, crashes and late marks loses it.                            *)
DoneWasSent == \A e \in Events : row[e] = "done" => sends[e] > 0

(* A young event that is done stays done: no recovery and no catch block   *)
(* of another instance reopens it.                                         *)
YoungDoneStays ==
  [][\A e \in Events : Young(e) /\ row[e] = "done" => row'[e] = "done"]_vars

(* At-least-once delivery: a committed event is eventually marked done for *)
(* good, whatever crashes, as long as fewer events than a batch are poison *)
(* (the fetch is oldest first, and a poison row comes back every time).    *)
EventuallyProcessed ==
  \A e \in Events \ Poison : row[e] # "absent" ~> [](row[e] = "done")

=============================================================================
