----------------------------- MODULE Submission -----------------------------
(***************************************************************************)
(* Submissions under concurrent requests                                   *)
(* (apps/api/src/services/submission.service.ts, embed-submission.service  *)
(* and the file scanner whose verdicts they read).                         *)
(*                                                                         *)
(* A request runs in one READ COMMITTED transaction.  updateStatus locks   *)
(* the submission row (FOR UPDATE) before it looks at the status, so a     *)
(* request that reads nothing else before its commit is one step here: the *)
(* step is its commit.  A request that has read something it did not lock  *)
(* -- file scan statuses, or the status itself before a resubmission --    *)
(* takes a step per read, and the others run in between.  The withdrawal   *)
(* cascade runs outside any transaction: each of its statements commits by *)
(* itself.                                                                 *)
(*                                                                         *)
(* All versions belong to one manuscript of one writer, so that all        *)
(* submissions are siblings of each other.                                 *)
(***************************************************************************)
EXTENDS SubmissionStatus

CONSTANTS
  Submissions,     \* rows that may be created
  Versions,        \* manuscript versions of the writer, each with one file at most
  NoVersion,       \* a submission without manuscript
  FileVersions,    \* the versions a file is uploaded to
  Requests,        \* requests the API serves at the same time
  ResubmitVias,    \* subset of {"api", "embed"}: ways to resubmit
  Cascades,        \* the requests that may withdraw siblings
  Batches,         \* id lists that batchUpdateStatusAsEditor is called with
  CrashAllowed,    \* may an API process stop in the middle of a request
  MaxHistory       \* bound: history rows of a submission

None == "none"

ASSUME SubmissionAssumption ==
  /\ NoVersion \notin Versions
  /\ FileVersions \subseteq Versions
  /\ ResubmitVias \subseteq {"api", "embed"}
  /\ Cascades \subseteq Requests
  /\ Batches \subseteq Seq(Submissions)
  /\ CrashAllowed \in BOOLEAN
  /\ MaxHistory \in Nat

VARIABLES
  status,   \* "none" before the row exists, "deleted" after a DRAFT is deleted
  version,  \* submissions.manuscript_version_id
  history,  \* the rows of submission_history, in the order of changed_at
  events,   \* outbox events enqueued, by the status they report
  scan,     \* scan_status of the version's file; "none": no file
  req       \* per request: what it is about to do and what it remembers

vars == <<status, version, history, events, scan, req>>

ScanStatuses == {"PENDING", "SCANNING", "CLEAN", "INFECTED", "FAILED"}

(* The requests' program counters: what the next step of the request does. *)
Points == {"idle", "submit", "embed", "check", "swap",
           "withdraw", "log", "announce"}

NothingSeen == [t \in Submissions |-> None]

(* A request record.  seen[t] is the status findSiblingSubmissions         *)
(* returned for sibling t, "none" when t is not (or no longer) on its list.*)
Req(pc, s, v, via, seen) ==
  [pc |-> pc, sub |-> s, ver |-> v, via |-> via, seen |-> seen]

Idle == Req("idle", None, NoVersion, None, NothingSeen)

Goto(r, pc) == req' = [req EXCEPT ![r].pc = pc]
Finish(r) == req' = [req EXCEPT ![r] = Idle]

(* The row is locked by a request that will commit a step later (or, for   *)
(* "embed", is being inserted by one).                                     *)
Free(s) == \A r \in Requests :
             req[r].pc \in {"submit", "embed"} => req[r].sub # s

Room(s) == Len(history[s]) < MaxHistory

(* Mutant: only a scan that is not over is refused. *)
FilesScanned(v) == v \in Versions => scan[v] \notin {"PENDING", "SCANNING"}

(* The verdict every submit path draws from the files of version v.  A     *)
(* FAILED scan passes.                                                     *)
FilesPass(v) ==
  v \in Versions => scan[v] \notin {"PENDING", "SCANNING", "INFECTED"}

(* updateStatus, once it has locked the row and found the change valid.    *)
Move(s, to) ==
  /\ status' = [status EXCEPT ![s] = to]
  /\ history' = [history EXCEPT ![s] = Append(@, Entry(status[s], to))]
  /\ events' = [events EXCEPT ![s] = Announce(@, to, 1)]

Init ==
  /\ status = [s \in Submissions |-> None]
  /\ version = [s \in Submissions |-> NoVersion]
  /\ history = [s \in Submissions |-> <<>>]
  /\ events = [s \in Submissions |-> NoEvents]
  /\ scan = [v \in Versions |-> None]
  /\ req = [r \in Requests |-> Idle]

-----------------------------------------------------------------------------
(* Requests that are one step.                                             *)

(* create: a DRAFT and its first history row.                              *)
Create(s, v) ==
  /\ status[s] = None /\ Free(s)
  /\ status' = [status EXCEPT ![s] = "DRAFT"]
  /\ version' = [version EXCEPT ![s] = v]
  /\ history' = [history EXCEPT ![s] = <<Entry(None, "DRAFT")>>]
  /\ UNCHANGED <<events, scan, req>>

(* A migration or a transfer from another instance inserts the row with    *)
(* the status it had there (active ones become DRAFT) and no history.      *)
Import(s, st) ==
  /\ status[s] = None /\ Free(s)
  /\ status' = [status EXCEPT ![s] = st]
  /\ UNCHANGED <<version, history, events, scan, req>>

(* deleteAsOwner; the history rows go with the row (ON DELETE CASCADE).    *)
Delete(s) ==
  /\ status[s] = "DRAFT" /\ Free(s)
  /\ status' = [status EXCEPT ![s] = "deleted"]
  /\ history' = [history EXCEPT ![s] = <<>>]
  /\ UNCHANGED <<version, events, scan, req>>

(* Mutant: the endpoint enqueues no event. *)
WithdrawSilently(s) ==
  /\ "WITHDRAWN" \in ValidFrom(status[s]) /\ Free(s) /\ Room(s)
  /\ status' = [status EXCEPT ![s] = "WITHDRAWN"]
  /\ history' = [history EXCEPT ![s] = Append(@, Entry(status[s], "WITHDRAWN"))]
  /\ UNCHANGED <<version, events, scan, req>>

(* withdrawAsOwner.                                                        *)
Withdraw(s) ==
  /\ "WITHDRAWN" \in ValidFrom(status[s]) /\ Free(s) /\ Room(s)
  /\ Move(s, "WITHDRAWN")
  /\ UNCHANGED <<version, scan, req>>

(* updateStatusAsEditor.                                                   *)
EditorMove(s, to) ==
  /\ to \in EditorFrom(status[s]) /\ Free(s) /\ Room(s)
  /\ Move(s, to)
  /\ UNCHANGED <<version, scan, req>>

(* batchUpdateStatusAsEditor(ids, to).  All rows are locked and read first;*)
(* an id is processed each time it occurs, against the status that first   *)
(* read returned.                                                          *)
Batch(ids, to) ==
  LET Times(s) == Cardinality({i \in DOMAIN ids : ids[i] = s})
      done == {s \in Submissions : Times(s) > 0 /\ to \in EditorFrom(status[s])}
  IN  /\ done # {}
      /\ \A i \in DOMAIN ids : Free(ids[i])
      /\ \A s \in done : Len(history[s]) + Times(s) <= MaxHistory
      /\ status' = [s \in Submissions |-> IF s \in done THEN to ELSE status[s]]
      /\ history' = [s \in Submissions |->
                       IF s \in done
                       THEN history[s] \o Copies(Entry(status[s], to), Times(s))
                       ELSE history[s]]
      /\ events' = [s \in Submissions |->
                      IF s \in done THEN Announce(events[s], to, Times(s))
                                    ELSE events[s]]
      /\ UNCHANGED <<version, scan, req>>

-----------------------------------------------------------------------------
(* submitAsOwner: with the row locked, the files are read; they are not    *)
(* locked, and may have changed when the request commits.  The table also  *)
(* lets a submission in REVISE_AND_RESUBMIT through, without a file check. *)
SubmitChecks(r, s) ==
  /\ req[r] = Idle
  /\ "SUBMITTED" \in ValidFrom(status[s]) /\ Free(s) /\ Room(s)
  /\ status[s] = "DRAFT" => FilesPass(version[s])
  /\ req' = [req EXCEPT ![r] = Req("submit", s, NoVersion, None, NothingSeen)]
  /\ UNCHANGED <<status, version, history, events, scan>>

SubmitCommits(r) ==
  /\ req[r].pc = "submit"
  /\ Move(req[r].sub, "SUBMITTED")
  /\ Finish(r)
  /\ UNCHANGED <<version, scan>>

(* submitFromEmbed: create and updateStatus in one transaction, which      *)
(* nobody sees before it commits.                                          *)
EmbedChecks(r, s, v) ==
  /\ req[r] = Idle
  /\ status[s] = None /\ Free(s)
  /\ FilesPass(v)
  /\ req' = [req EXCEPT ![r] = Req("embed", s, v, None, NothingSeen)]
  /\ UNCHANGED <<status, version, history, events, scan>>

EmbedCommits(r) ==
  LET s == req[r].sub
  IN  /\ req[r].pc = "embed"
      /\ status' = [status EXCEPT ![s] = "SUBMITTED"]
      /\ version' = [version EXCEPT ![s] = req[r].ver]
      /\ history' = [history EXCEPT ![s] = <<Entry(None, "DRAFT"),
                                             Entry("DRAFT", "SUBMITTED")>>]
      /\ events' = [events EXCEPT ![s] = Announce(@, "SUBMITTED", 1)]
      /\ Finish(r)
      /\ UNCHANGED scan

-----------------------------------------------------------------------------
(* resubmitAsOwner ("api") and submitResubmission ("embed") read the       *)
(* status without a lock ...                                               *)
ResubmitReads(r, s, v, via) ==
  /\ req[r] = Idle
  /\ status[s] = "REVISE_AND_RESUBMIT"
  /\ req' = [req EXCEPT ![r] = Req("check", s, v, via, NothingSeen)]
  /\ UNCHANGED <<status, version, history, events, scan>>

(* ... then the files of the new version; embed insists on a file ...      *)
ResubmitChecks(r) ==
  /\ req[r].pc = "check"
  /\ IF FilesPass(req[r].ver) /\ (req[r].via = "embed" => scan[req[r].ver] # None)
     THEN Goto(r, "swap")
     ELSE Finish(r)
  /\ UNCHANGED <<status, version, history, events, scan>>

(* Mutant: the change is checked and logged by the status read first. *)
ResubmitTrustsFirstRead(r) ==
  LET s == req[r].sub
  IN  /\ req[r].pc = "swap" /\ Free(s)
      /\ Room(s)
      /\ status' = [status EXCEPT ![s] = "SUBMITTED"]
      /\ history' = [history EXCEPT ![s] =
                       Append(@, Entry("REVISE_AND_RESUBMIT", "SUBMITTED"))]
      /\ events' = [events EXCEPT ![s] = Announce(@, "SUBMITTED", 1)]
      /\ version' = [version EXCEPT ![s] = req[r].ver]
      /\ Finish(r)
      /\ UNCHANGED scan

(* ... and then set the version, which locks the row, and call             *)
(* updateStatus.  If that throws, submitResubmission's withRls rolls back; *)
(* the API request still commits when its error response is sent           *)
(* (hooks/db-context.ts), and the new version stays.                       *)
ResubmitCommits(r) ==
  LET s == req[r].sub
  IN  /\ req[r].pc = "swap" /\ Free(s)
      /\ IF "SUBMITTED" \in ValidFrom(status[s])
         THEN /\ Room(s)
              /\ Move(s, "SUBMITTED")
              /\ version' = [version EXCEPT ![s] = req[r].ver]
         ELSE /\ version' = IF req[r].via = "api"
                            THEN [version EXCEPT ![s] = req[r].ver]
                            ELSE version
              /\ UNCHANGED <<status, history, events>>
      /\ Finish(r)
      /\ UNCHANGED scan

-----------------------------------------------------------------------------
(* withdrawCascadeAsOwner(s), on the superuser connection.                 *)

(* findSiblingSubmissions.                                                 *)
CascadeFinds(r, s) ==
  LET siblings == {t \in Submissions \ {s} :
                     status[t] \in Active /\ version[t] # NoVersion}
  IN  /\ r \in Cascades /\ req[r] = Idle
      /\ status[s] \in Statuses /\ version[s] # NoVersion
      /\ siblings # {}
      /\ req' = [req EXCEPT ![r] =
                   Req("withdraw", None, NoVersion, None,
                       [t \in Submissions |->
                          IF t \in siblings THEN status[t] ELSE None])]
      /\ UNCHANGED <<status, version, history, events, scan>>

(* The loop is done with sibling t.                                        *)
Forget(r, t) ==
  LET seen == [req[r].seen EXCEPT ![t] = None]
  IN  req' = [req EXCEPT ![r] = IF seen = NothingSeen THEN Idle
                                ELSE Req("withdraw", None, NoVersion, None, seen)]

(* Mutant: the update is not guarded by the status. *)
CascadeWithdrawsById(r, t) ==
  /\ req[r].pc = "withdraw" /\ req[r].seen[t] # None /\ Free(t)
  /\ status' = [status EXCEPT ![t] = "WITHDRAWN"]
  /\ req' = [req EXCEPT ![r].pc = "log", ![r].sub = t]
  /\ UNCHANGED <<version, history, events, scan>>

(* Mutant: no history row is written. *)
CascadeSkipsLog(r, t) ==
  /\ req[r].pc = "withdraw" /\ req[r].seen[t] # None /\ Free(t)
  /\ IF status[t] \in Active
     THEN /\ status' = [status EXCEPT ![t] = "WITHDRAWN"]
          /\ req' = [req EXCEPT ![r].pc = "announce", ![r].sub = t]
     ELSE /\ Forget(r, t)
          /\ UNCHANGED status
  /\ UNCHANGED <<version, history, events, scan>>

(* UPDATE ... WHERE id = t AND status is active; skips t if no row.        *)
CascadeWithdraws(r, t) ==
  /\ req[r].pc = "withdraw" /\ req[r].seen[t] # None /\ Free(t)
  /\ IF status[t] \in Active
     THEN /\ status' = [status EXCEPT ![t] = "WITHDRAWN"]
          /\ req' = [req EXCEPT ![r].pc = "log", ![r].sub = t]
     ELSE /\ Forget(r, t)
          /\ UNCHANGED status
  /\ UNCHANGED <<version, history, events, scan>>

(* The history row takes from_status from the lookup.                      *)
CascadeLogs(r) ==
  LET t == req[r].sub
  IN  /\ req[r].pc = "log"
      /\ history' = [history EXCEPT ![t] =
                       Append(@, Entry(req[r].seen[t], "WITHDRAWN"))]
      /\ Goto(r, "announce")
      /\ UNCHANGED <<status, version, events, scan>>

(* Mutant: the loop moves on without the event. *)
CascadeForgetsEvent(r) ==
  /\ req[r].pc = "announce"
  /\ Forget(r, req[r].sub)
  /\ UNCHANGED <<status, version, history, events, scan>>

CascadeAnnounces(r) ==
  LET t == req[r].sub
  IN  /\ req[r].pc = "announce"
      /\ events' = [events EXCEPT ![t] = Announce(@, "WITHDRAWN", 1)]
      /\ Forget(r, t)
      /\ UNCHANGED <<status, version, history, scan>>

-----------------------------------------------------------------------------
(* The process that serves r stops: an open transaction is rolled back, a  *)
(* cascade leaves what it has written.                                     *)
Crash(r) ==
  /\ CrashAllowed /\ req[r] # Idle
  /\ Finish(r)
  /\ UNCHANGED <<status, version, history, events, scan>>

(* tusd's post-finish hook records a file, whatever the status of the      *)
(* submissions that use the version.                                       *)
Upload(v) ==
  /\ v \in FileVersions /\ scan[v] = None
  /\ scan' = [scan EXCEPT ![v] = "PENDING"]
  /\ UNCHANGED <<status, version, history, events, req>>

(* deleteAsOwner of file.service: the same.                                *)
RemoveFile(v) ==
  /\ scan[v] # None
  /\ scan' = [scan EXCEPT ![v] = None]
  /\ UNCHANGED <<status, version, history, events, req>>

(* file-scan.worker.ts writes by the id of the file and never looks at     *)
(* what is there: runs of a stalled job overlap, and repeat a scan that    *)
(* has come to a verdict (module FileScan).                                *)
ScanStarts(v) ==
  /\ scan[v] # None
  /\ scan' = [scan EXCEPT ![v] = "SCANNING"]
  /\ UNCHANGED <<status, version, history, events, req>>

ScanEnds(v, verdict) ==
  /\ scan[v] # None /\ verdict \in {"CLEAN", "INFECTED", "FAILED"}
  /\ scan' = [scan EXCEPT ![v] = verdict]
  /\ UNCHANGED <<status, version, history, events, req>>

-----------------------------------------------------------------------------
Imported == {"DRAFT"} \cup Terminal

RowStep ==
  \E s \in Submissions :
    \/ \E v \in Versions \cup {NoVersion} : Create(s, v)
    \/ \E st \in Imported : Import(s, st)
    \/ Delete(s)
    \/ Withdraw(s)
    \/ \E to \in Statuses : EditorMove(s, to)

BatchStep == \E ids \in Batches, to \in Statuses : Batch(ids, to)

RequestStep(r) ==
  \/ \E s \in Submissions : SubmitChecks(r, s)
  \/ SubmitCommits(r)
  \/ \E s \in Submissions, v \in Versions \cup {NoVersion} : EmbedChecks(r, s, v)
  \/ EmbedCommits(r)
  \/ \E s \in Submissions, v \in Versions, via \in ResubmitVias :
       ResubmitReads(r, s, v, via)
  \/ ResubmitChecks(r)
  \/ ResubmitCommits(r)
  \/ Crash(r)

CascadeStep(r) ==
  \/ \E t \in Submissions : CascadeWithdraws(r, t)
  \/ CascadeLogs(r)
  \/ CascadeAnnounces(r)

FileStep ==
  \E v \in Versions :
    \/ Upload(v)
    \/ RemoveFile(v)
    \/ ScanStarts(v)
    \/ \E verdict \in ScanStatuses : ScanEnds(v, verdict)

Next ==
  \/ RowStep
  \/ BatchStep
  \/ \E r \in Requests : RequestStep(r) \/ CascadeStep(r)
  \/ \E r \in Requests, s \in Submissions : CascadeFinds(r, s)
  \/ FileStep

Spec == Init /\ [][Next]_vars

(* A request that has started runs on: Node schedules its continuation     *)
(* once the statement it awaits returns, and row locks are released by     *)
(* commits that are themselves continuations.                              *)
Fairness ==
  /\ \A r \in Requests : WF_vars(SubmitCommits(r) \/ EmbedCommits(r))
  /\ \A r \in Requests : WF_vars(CascadeStep(r))

FairSpec == Spec /\ Fairness

-----------------------------------------------------------------------------
(* Properties                                                              *)

RequestRecords ==
  [pc : Points, sub : Submissions \cup {None}, ver : Versions \cup {NoVersion},
   via : {None, "api", "embed"}, seen : [Submissions -> Statuses \cup {None}]]

(* Every variable has its type, and a request past its first step knows    *)
(* the submission it works on.                                             *)
TypeOK ==
  /\ status \in [Submissions -> Statuses \cup {None, "deleted"}]
  /\ version \in [Submissions -> Versions \cup {NoVersion}]
  /\ history \in [Submissions -> Seq(Entries)]
  /\ events \in [Submissions -> [Announced -> Nat]]
  /\ scan \in [Versions -> ScanStatuses \cup {None}]
  /\ req \in [Requests -> RequestRecords]
  /\ \A r \in Requests :
       req[r].pc \in Points \ {"idle", "withdraw"} => req[r].sub \in Submissions
  /\ \A r \in Requests : req[r].pc = "check" => req[r].ver \in Versions
  /\ \A r \in Requests :
       req[r].pc \in {"log", "announce"} => req[r].seen[req[r].sub] \in Statuses

(* Row i + 1 of history h starts where row i ended.  The code has two      *)
(* exceptions: a batch writes the row again for every repetition of an id, *)
(* and the row of a cascade, always the last, starts at the active status  *)
(* the cascade had looked up.                                              *)
Repeating ==
  \E ids \in Batches : \E i, j \in DOMAIN ids : i # j /\ ids[i] = ids[j]

Follows(h, i) ==
  \/ h[i + 1].from = h[i].to
  \/ Repeating /\ h[i + 1] = h[i]
  \/ /\ Cascades # {} /\ i + 1 = Len(h)
     /\ h[i + 1].from \in Active /\ h[i + 1].to = "WITHDRAWN"

(* A cascade is about to write the row of its withdrawal, or stopped       *)
(* before it could.                                                        *)
Owed(s) ==
  /\ Cascades # {} /\ status[s] = "WITHDRAWN"
  /\ CrashAllowed \/ \E r \in Requests : req[r].pc = "log" /\ req[r].sub = s

(* Read in order, the history of a submission is the path its status took, *)
(* up to the status it has now, unless a cascade owes the last row.        *)
HistoryLinks ==
  \A s \in Submissions :
    LET h == history[s]
    IN  /\ \A i \in 1..(Len(h) - 1) : Follows(h, i)
        /\ h = <<>> \/ h[Len(h)].to = status[s] \/ Owed(s)

(* A submission is decided once: however editors, writers, batches and     *)
(* cascades race, its history holds one acceptance, rejection or           *)
(* withdrawal at most.                                                     *)
OneDecision ==
  \A s \in Submissions :
    Cardinality({i \in DOMAIN history[s] : history[s][i].to \in Terminal}) <= 1

(* No event reports a change the history does not have, not even one of a  *)
(* cascade that stopped between two of its statements.                     *)
NothingAnnouncedUnrecorded ==
  \A s \in Submissions, k \in Announced :
    events[s][k] <= TimesReached(history[s], k)

(* ACCEPTED, REJECTED and WITHDRAWN are never left, although resubmissions *)
(* and cascades act on a status they read some time ago.                   *)
TerminalFinal ==
  [][\A s \in Submissions :
       status[s] \in Terminal => status'[s] = status[s]]_vars

(* An editor has asked for a revision of s.                                *)
Asked(s) ==
  \E i \in DOMAIN history[s] : history[s][i].to = "REVISE_AND_RESUBMIT"

(* The manuscript version an editor looks at is replaced by a resubmission *)
(* that takes it from REVISE_AND_RESUBMIT back to SUBMITTED.  The API's    *)
(* also replaces it when it is refused, because its request commits with   *)
(* the error; that happens only to a submission whose revision was asked   *)
(* for, and whatever its status is then.                                   *)
VersionFrozen ==
  [][\A s \in Submissions :
       version'[s] # version[s] =>
         \/ status[s] = None
         \/ status[s] = "REVISE_AND_RESUBMIT" /\ status'[s] = "SUBMITTED"
         \/ "api" \in ResubmitVias /\ Asked(s) /\ status'[s] = status[s]]_vars

(* A draft whose file is known to be infected, and that no request is      *)
(* submitting at that moment, ends up deleted or withdrawn: no request     *)
(* submits it unless the file is removed or scanned again.                 *)
Tainted(s) ==
  /\ status[s] = "DRAFT" /\ Free(s)
  /\ version[s] \in Versions /\ scan[version[s]] = "INFECTED"

InfectedDraftBlocked ==
  [][\A s \in Submissions :
       Tainted(s) => \/ Tainted(s)'
                     \/ status'[s] \in {"deleted", "WITHDRAWN"}
                     \/ scan'[version[s]] # "INFECTED"]_vars

(* While no process stops, the organization of every withdrawn submission  *)
(* is eventually told.                                                     *)
WithdrawalAnnounced ==
  \A s \in Submissions :
    (status[s] = "WITHDRAWN" /\ history[s] # <<>>) ~> (events[s]["WITHDRAWN"] = 1)

(* The requests implement the ledger: whatever they read and when, each    *)
(* takes at most one legal step that is recorded and announced with it.    *)
Ledger == INSTANCE SubmissionLedger
            WITH Submissions <- Submissions, status <- status, history <- history,
                 events <- events
ImplementsLedger == Ledger!Spec
=============================================================================
