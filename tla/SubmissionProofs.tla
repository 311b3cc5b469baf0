-------------------------- MODULE SubmissionProofs --------------------------
(***************************************************************************)
(* Proofs about Submission for any number of submissions, versions and     *)
(* requests, any batches and any interleaving: type correctness; that a    *)
(* decided submission stays decided; that histories link; that no event is *)
(* enqueued without its history row; that an infected draft is not         *)
(* submitted and a version in an editor's hand not exchanged, but by a     *)
(* resubmission.  Where no batch repeats an id: that a submission is       *)
(* decided once; and if no cascade runs, either, that the requests         *)
(* implement the ledger.                                                   *)
(***************************************************************************)
EXTENDS Submission, FiniteSetTheorems, SequenceTheorems, TLAPS

-----------------------------------------------------------------------------
(* What the two transition tables of packages/types allow.                 *)

(* No transition leaves a terminal status, and SUBMITTED is reached from   *)
(* DRAFT and REVISE_AND_RESUBMIT only.                                     *)
LEMMA ValidFacts ==
  ASSUME NEW from, NEW to \in ValidFrom(from)
  PROVE  /\ from \in Statuses \ Terminal
         /\ to \in Statuses
         /\ to = "SUBMITTED" => from \in {"DRAFT", "REVISE_AND_RESUBMIT"}
  BY DEF ValidFrom, Statuses, Terminal

(* Editors decide about submissions that are active, and never submit.     *)
LEMMA EditorFacts ==
  ASSUME NEW from, NEW to \in EditorFrom(from)
  PROVE  from \in Active /\ to \in Statuses
  BY DEF EditorFrom, Active, Statuses

(* Whatever an editor may do is a legal change.                            *)
LEMMA EditorsAreLegal ==
  ASSUME NEW from
  PROVE  EditorFrom(from) \subseteq ValidFrom(from)
  BY DEF EditorFrom, ValidFrom

(* No transition leads back to a draft.                                    *)
LEMMA NeverBackToDraft ==
  ASSUME NEW from
  PROVE  ValidFrom(from) \cap {None, "DRAFT", "deleted"} = {}
  BY DEF ValidFrom, None

(* The statuses named in the actions.                                      *)
LEMMA StatusFacts ==
  /\ {"DRAFT", "SUBMITTED", "WITHDRAWN", "REVISE_AND_RESUBMIT"} \subseteq Statuses
  /\ Terminal \subseteq Statuses
  /\ Active \subseteq Statuses \ Terminal
  /\ "DRAFT" \notin Terminal /\ "REVISE_AND_RESUBMIT" \notin Terminal
  /\ None \notin Statuses /\ "deleted" \notin Statuses
  BY DEF Statuses, Terminal, Active, None

(* Announcing a change keeps the counters natural numbers.                 *)
LEMMA AnnounceType ==
  ASSUME NEW counts \in [Announced -> Nat], NEW to, NEW n \in Nat
  PROVE  Announce(counts, to, n) \in [Announced -> Nat]
  BY DEF Announce

(* A history row of a change between two statuses.                         *)
LEMMA EntryType ==
  ASSUME NEW from \in Statuses \cup {None}, NEW to \in Statuses
  PROVE  Entry(from, to) \in Entries
  BY DEF Entry, Entries, None

-----------------------------------------------------------------------------
(* Type correctness                                                        *)

RowTypes ==
  /\ status \in [Submissions -> Statuses \cup {None, "deleted"}]
  /\ version \in [Submissions -> Versions \cup {NoVersion}]
  /\ history \in [Submissions -> Seq(Entries)]
  /\ events \in [Submissions -> [Announced -> Nat]]
  /\ scan \in [Versions -> ScanStatuses \cup {None}]

RequestTypes ==
  /\ req \in [Requests -> RequestRecords]
  /\ \A r \in Requests :
       req[r].pc \in Points \ {"idle", "withdraw"} => req[r].sub \in Submissions
  /\ \A r \in Requests : req[r].pc = "check" => req[r].ver \in Versions
  /\ \A r \in Requests :
       req[r].pc \in {"log", "announce"} => req[r].seen[req[r].sub] \in Statuses

LEMMA TypeParts ==
  /\ TypeOK <=> RowTypes /\ RequestTypes
  /\ TypeOK' <=> RowTypes' /\ RequestTypes'
  BY DEF TypeOK, RowTypes, RequestTypes

(* A single status change keeps the types of the rows.                     *)
LEMMA MoveTypes ==
  ASSUME RowTypes, NEW s \in Submissions, NEW to \in Statuses,
         status[s] \in Statuses, Move(s, to)
  PROVE  /\ status' \in [Submissions -> Statuses \cup {None, "deleted"}]
         /\ history' \in [Submissions -> Seq(Entries)]
         /\ events' \in [Submissions -> [Announced -> Nat]]
<1>1. Entry(status[s], to) \in Entries
  BY EntryType
<1>2. Append(history[s], Entry(status[s], to)) \in Seq(Entries)
  BY <1>1 DEF RowTypes
<1>3. Announce(events[s], to, 1) \in [Announced -> Nat]
  BY AnnounceType DEF RowTypes
<1> QED  BY <1>2, <1>3 DEF Move, RowTypes

LEMMA IdleType == Idle \in RequestRecords
  BY DEF Idle, Req, RequestRecords, Points, NothingSeen

LEMMA ReqType ==
  ASSUME NEW pc \in Points, NEW s \in Submissions \cup {None},
         NEW v \in Versions \cup {NoVersion}, NEW via \in {None, "api", "embed"},
         NEW seen \in [Submissions -> Statuses \cup {None}]
  PROVE  Req(pc, s, v, via, seen) \in RequestRecords
  BY DEF Req, RequestRecords

(* Replacing one request by a well-typed one.                              *)
LEMMA OneRequest ==
  ASSUME RequestTypes, NEW r \in Requests, NEW x \in RequestRecords,
         req' = [req EXCEPT ![r] = x],
         x.pc \in Points \ {"idle", "withdraw"} => x.sub \in Submissions,
         x.pc = "check" => x.ver \in Versions,
         x.pc \in {"log", "announce"} => x.seen[x.sub] \in Statuses
  PROVE  RequestTypes'
<1>1. \A q \in Requests : req'[q] = IF q = r THEN x ELSE req[q]
  BY DEF RequestTypes
<1>2. req' \in [Requests -> RequestRecords]
  BY DEF RequestTypes
<1> QED  BY <1>1, <1>2 DEF RequestTypes

LEMMA FinishTypes ==
  ASSUME RequestTypes, NEW r \in Requests, Finish(r)
  PROVE  RequestTypes'
<1>1. Idle.pc = "idle"
  BY DEF Idle, Req
<1> QED  BY <1>1, IdleType, OneRequest DEF Finish

(* A batch: every id's history grows by the copies of one row.             *)
LEMMA BatchTypes ==
  ASSUME SubmissionAssumption, TypeOK,
         NEW ids \in Batches, NEW to \in Statuses, Batch(ids, to)
  PROVE  TypeOK'
<1> DEFINE Times(s) == Cardinality({i \in DOMAIN ids : ids[i] = s})
           done == {s \in Submissions : Times(s) > 0 /\ to \in EditorFrom(status[s])}
<1>1. \A s : Times(s) \in Nat
  <2> SUFFICES ASSUME NEW s PROVE Times(s) \in Nat
    OBVIOUS
  <2>1. ids \in Seq(Submissions)
    BY DEF SubmissionAssumption
  <2>2. DOMAIN ids = 1..Len(ids) /\ Len(ids) \in Nat
    BY <2>1
  <2>3. IsFiniteSet(1..Len(ids))
    BY <2>2, FS_Interval
  <2>4. IsFiniteSet({i \in DOMAIN ids : ids[i] = s})
    BY <2>2, <2>3, FS_Subset
  <2> QED  BY <2>4, FS_CardinalityType
<1> HIDE DEF Times
<1>2. /\ status' = [s \in Submissions |-> IF s \in done THEN to ELSE status[s]]
      /\ history' = [s \in Submissions |->
                       IF s \in done
                       THEN history[s] \o Copies(Entry(status[s], to), Times(s))
                       ELSE history[s]]
      /\ events' = [s \in Submissions |->
                      IF s \in done THEN Announce(events[s], to, Times(s))
                                    ELSE events[s]]
      /\ UNCHANGED <<version, scan, req>>
  BY DEF Batch, Times
<1>3. \A s \in done : status[s] \in Statuses
  BY EditorFacts, StatusFacts
<1> HIDE DEF done
<1>4. status' \in [Submissions -> Statuses \cup {None, "deleted"}]
  BY <1>2 DEF TypeOK
<1>5. history' \in [Submissions -> Seq(Entries)]
  <2> SUFFICES ASSUME NEW s \in Submissions PROVE history'[s] \in Seq(Entries)
    BY <1>2
  <2>1. history[s] \in Seq(Entries)
    BY DEF TypeOK
  <2>2. CASE s \in done
    <3>1. Entry(status[s], to) \in Entries
      BY <1>3, <2>2, EntryType
    <3>2. Copies(Entry(status[s], to), Times(s)) \in Seq(Entries)
      BY <3>1, <1>1 DEF Copies
    <3> QED  BY <1>2, <2>1, <2>2, <3>2
  <2> QED  BY <1>2, <2>1, <2>2
<1>6. events' \in [Submissions -> [Announced -> Nat]]
  BY <1>1, <1>2, AnnounceType DEF TypeOK
<1> QED  BY <1>2, <1>4, <1>5, <1>6 DEF TypeOK

(* Requests of one step.                                                   *)
LEMMA RowTypesKept ==
  ASSUME TypeOK, NEW s \in Submissions,
         \/ \E v \in Versions \cup {NoVersion} : Create(s, v)
         \/ \E st \in Imported : Import(s, st)
         \/ Delete(s)
         \/ Withdraw(s)
         \/ \E to \in Statuses : EditorMove(s, to)
  PROVE  TypeOK'
<1>1. ASSUME NEW v \in Versions \cup {NoVersion}, Create(s, v) PROVE TypeOK'
  <2>1. <<Entry(None, "DRAFT")>> \in Seq(Entries)
    BY EntryType, StatusFacts
  <2> QED  BY <1>1, <2>1, StatusFacts DEF Create, TypeOK
<1>2. ASSUME NEW st \in Imported, Import(s, st) PROVE TypeOK'
  BY <1>2, StatusFacts DEF Import, Imported, TypeOK
<1>3. CASE Delete(s)
  BY <1>3 DEF Delete, TypeOK
<1>4. CASE Withdraw(s)
  <2>1. status[s] \in Statuses /\ "WITHDRAWN" \in Statuses
    BY <1>4, ValidFacts DEF Withdraw
  <2> QED  BY <1>4, <2>1, MoveTypes, TypeParts DEF Withdraw, TypeOK
<1>5. ASSUME NEW to \in Statuses, EditorMove(s, to) PROVE TypeOK'
  <2>1. status[s] \in Statuses
    BY <1>5, EditorFacts, StatusFacts DEF EditorMove
  <2> QED  BY <1>5, <2>1, MoveTypes, TypeParts DEF EditorMove, TypeOK
<1> QED  BY <1>1, <1>2, <1>3, <1>4, <1>5

(* A request that holds a row until it commits has a row to commit to.     *)
Holding(r) == req[r].pc \in {"submit", "embed"}

(* What each lock holder knows of its row, and that no two hold the same.  *)
Locks ==
  /\ \A r \in Requests :
       /\ req[r].pc = "submit" =>
            status[req[r].sub] \in {"DRAFT", "REVISE_AND_RESUBMIT"}
       /\ req[r].pc = "embed" => status[req[r].sub] = None
  /\ \A q, r \in Requests :
       q # r /\ Holding(q) /\ Holding(r) => req[q].sub # req[r].sub

IInv == TypeOK /\ Locks

(* Submitting, from the API and from an embedding site.                    *)
LEMMA SubmitTypesKept ==
  ASSUME IInv, NEW r \in Requests,
         \/ \E s \in Submissions : SubmitChecks(r, s)
         \/ SubmitCommits(r)
         \/ \E s \in Submissions, v \in Versions \cup {NoVersion} :
              EmbedChecks(r, s, v)
         \/ EmbedCommits(r)
  PROVE  TypeOK'
<1> USE TypeParts DEF IInv
<1>1. NothingSeen \in [Submissions -> Statuses \cup {None}]
  BY DEF NothingSeen
<1>2. ASSUME NEW s \in Submissions, SubmitChecks(r, s) PROVE TypeOK'
  <2> DEFINE x == Req("submit", s, NoVersion, None, NothingSeen)
  <2>1. x \in RequestRecords /\ x.pc = "submit" /\ x.sub = s
    BY <1>1, ReqType DEF Points, Req
  <2>2. req' = [req EXCEPT ![r] = x]
    BY <1>2 DEF SubmitChecks
  <2> HIDE DEF x
  <2>3. RequestTypes'
    BY <2>1, <2>2, OneRequest
  <2> QED  BY <1>2, <2>3 DEF SubmitChecks, RowTypes
<1>3. CASE SubmitCommits(r)
  <2> DEFINE s == req[r].sub
  <2>1. s \in Submissions /\ status[s] \in Statuses
    BY <1>3, StatusFacts DEF SubmitCommits, RequestTypes, Points, Locks
  <2>2. Move(s, "SUBMITTED") /\ Finish(r) /\ UNCHANGED <<version, scan>>
    BY <1>3 DEF SubmitCommits
  <2> HIDE DEF s
  <2>3. RowTypes'
    BY <2>1, <2>2, MoveTypes, StatusFacts DEF RowTypes
  <2> QED  BY <2>2, <2>3, FinishTypes
<1>4. ASSUME NEW s \in Submissions, NEW v \in Versions \cup {NoVersion},
             EmbedChecks(r, s, v)
      PROVE  TypeOK'
  <2> DEFINE x == Req("embed", s, v, None, NothingSeen)
  <2>1. x \in RequestRecords /\ x.pc = "embed" /\ x.sub = s
    BY <1>1, ReqType DEF Points, Req
  <2>2. req' = [req EXCEPT ![r] = x]
    BY <1>4 DEF EmbedChecks
  <2> HIDE DEF x
  <2>3. RequestTypes'
    BY <2>1, <2>2, OneRequest
  <2> QED  BY <1>4, <2>3 DEF EmbedChecks, RowTypes
<1>5. CASE EmbedCommits(r)
  <2> DEFINE s == req[r].sub
             trail == <<Entry(None, "DRAFT"), Entry("DRAFT", "SUBMITTED")>>
  <2>1. s \in Submissions /\ req[r].ver \in Versions \cup {NoVersion}
    BY <1>5 DEF EmbedCommits, RequestTypes, Points, RequestRecords
  <2>2. trail \in Seq(Entries)
    BY EntryType, StatusFacts
  <2>3. Announce(events[s], "SUBMITTED", 1) \in [Announced -> Nat]
    BY <2>1, AnnounceType DEF RowTypes
  <2>4. /\ status' = [status EXCEPT ![s] = "SUBMITTED"]
        /\ version' = [version EXCEPT ![s] = req[r].ver]
        /\ history' = [history EXCEPT ![s] = trail]
        /\ events' = [events EXCEPT ![s] = Announce(@, "SUBMITTED", 1)]
        /\ Finish(r) /\ scan' = scan
    BY <1>5 DEF EmbedCommits
  <2> HIDE DEF s, trail
  <2>5. RowTypes'
    BY <2>1, <2>2, <2>3, <2>4, StatusFacts DEF RowTypes
  <2> QED  BY <2>4, <2>5, FinishTypes
<1> QED  BY <1>2, <1>3, <1>4, <1>5

(* Resubmitting, and stopping.                                             *)
LEMMA ResubmitTypesKept ==
  ASSUME SubmissionAssumption, TypeOK, NEW r \in Requests,
         \/ \E s \in Submissions, v \in Versions, via \in ResubmitVias :
              ResubmitReads(r, s, v, via)
         \/ ResubmitChecks(r)
         \/ ResubmitCommits(r)
         \/ Crash(r)
  PROVE  TypeOK'
<1> USE TypeParts
<1>1. NothingSeen \in [Submissions -> Statuses \cup {None}]
  BY DEF NothingSeen
<1>2. ASSUME NEW s \in Submissions, NEW v \in Versions, NEW via \in ResubmitVias,
             ResubmitReads(r, s, v, via)
      PROVE  TypeOK'
  <2> DEFINE x == Req("check", s, v, via, NothingSeen)
  <2>1. via \in {None, "api", "embed"}
    BY DEF SubmissionAssumption
  <2>2. x \in RequestRecords /\ x.pc = "check" /\ x.sub = s /\ x.ver = v
    BY <1>1, <2>1, ReqType DEF Points, Req
  <2>3. req' = [req EXCEPT ![r] = x]
    BY <1>2 DEF ResubmitReads
  <2> HIDE DEF x
  <2>4. RequestTypes'
    BY <2>2, <2>3, OneRequest
  <2> QED  BY <1>2, <2>4 DEF ResubmitReads, RowTypes
<1>3. CASE ResubmitChecks(r)
  <2>1. RowTypes'
    BY <1>3 DEF ResubmitChecks, RowTypes
  <2>2. CASE Finish(r)
    BY <2>1, <2>2, FinishTypes
  <2>3. CASE Goto(r, "swap")
    <3> DEFINE x == [req[r] EXCEPT !.pc = "swap"]
    <3>1. x \in RequestRecords /\ x.pc = "swap" /\ x.sub \in Submissions
      BY <1>3 DEF ResubmitChecks, RequestTypes, RequestRecords, Points
    <3>2. req' = [req EXCEPT ![r] = x]
      BY <2>3 DEF Goto, RequestTypes
    <3> HIDE DEF x
    <3> QED  BY <2>1, <3>1, <3>2, OneRequest
  <2> QED  BY <1>3, <2>2, <2>3 DEF ResubmitChecks
<1>4. CASE ResubmitCommits(r)
  <2> DEFINE s == req[r].sub
  <2>1. s \in Submissions /\ req[r].ver \in Versions \cup {NoVersion}
    BY <1>4 DEF ResubmitCommits, RequestTypes, Points, RequestRecords
  <2>2. /\ Finish(r) /\ scan' = scan
        /\ version' \in {version, [version EXCEPT ![s] = req[r].ver]}
        /\ \/ "SUBMITTED" \in ValidFrom(status[s]) /\ Move(s, "SUBMITTED")
           \/ UNCHANGED <<status, history, events>>
    BY <1>4 DEF ResubmitCommits
  <2> HIDE DEF s
  <2>3. version' \in [Submissions -> Versions \cup {NoVersion}]
    BY <2>1, <2>2 DEF RowTypes
  <2>4. CASE "SUBMITTED" \in ValidFrom(status[s]) /\ Move(s, "SUBMITTED")
    <3>1. status[s] \in Statuses /\ "SUBMITTED" \in Statuses
      BY <2>4, ValidFacts
    <3> QED  BY <2>1, <2>2, <2>3, <2>4, <3>1, MoveTypes, FinishTypes DEF RowTypes
  <2>5. CASE UNCHANGED <<status, history, events>>
    BY <2>2, <2>3, <2>5, FinishTypes DEF RowTypes
  <2> QED  BY <2>2, <2>4, <2>5
<1>5. CASE Crash(r)
  BY <1>5, FinishTypes DEF Crash, RowTypes
<1> QED  BY <1>2, <1>3, <1>4, <1>5

LEMMA ForgetTypes ==
  ASSUME RequestTypes, NEW r \in Requests, NEW t \in Submissions, Forget(r, t)
  PROVE  RequestTypes'
<1> DEFINE seen == [req[r].seen EXCEPT ![t] = None]
           again == Req("withdraw", None, NoVersion, None, seen)
           x == IF seen = NothingSeen THEN Idle ELSE again
<1>1. seen \in [Submissions -> Statuses \cup {None}]
  BY DEF RequestTypes, RequestRecords
<1>2. again \in RequestRecords /\ again.pc = "withdraw"
  BY <1>1, ReqType DEF Points, Req
<1>3. Idle \in RequestRecords /\ Idle.pc = "idle"
  BY IdleType DEF Idle, Req
<1>4. req' = [req EXCEPT ![r] = x]
  BY DEF Forget
<1> HIDE DEF again
<1>5. x \in RequestRecords /\ x.pc \in {"withdraw", "idle"}
  BY <1>2, <1>3
<1> HIDE DEF x
<1> QED  BY <1>4, <1>5, OneRequest

(* The cascade.                                                            *)
LEMMA CascadeTypesKept ==
  ASSUME TypeOK, NEW r \in Requests,
         \/ \E s \in Submissions : CascadeFinds(r, s)
         \/ CascadeStep(r)
  PROVE  TypeOK'
<1> USE TypeParts
<1>1. ASSUME NEW s \in Submissions, CascadeFinds(r, s) PROVE TypeOK'
  <2> DEFINE siblings == {t \in Submissions \ {s} :
                            status[t] \in Active /\ version[t] # NoVersion}
             found == [t \in Submissions |->
                         IF t \in siblings THEN status[t] ELSE None]
             x == Req("withdraw", None, NoVersion, None, found)
  <2>1. found \in [Submissions -> Statuses \cup {None}]
    BY StatusFacts DEF RowTypes
  <2>2. req' = [req EXCEPT ![r] = x]
    BY <1>1 DEF CascadeFinds
  <2> HIDE DEF found
  <2>3. x \in RequestRecords /\ x.pc = "withdraw"
    BY <2>1, ReqType DEF Points, Req
  <2> HIDE DEF x
  <2>4. RequestTypes'
    BY <2>2, <2>3, OneRequest
  <2> QED  BY <1>1, <2>4 DEF CascadeFinds, RowTypes
<1>2. ASSUME NEW t \in Submissions, CascadeWithdraws(r, t) PROVE TypeOK'
  <2>1. RowTypes'
    BY <1>2, StatusFacts DEF CascadeWithdraws, RowTypes
  <2>2. CASE Forget(r, t)
    BY <2>1, <2>2, ForgetTypes
  <2>3. CASE req' = [req EXCEPT ![r].pc = "log", ![r].sub = t]
    <3> DEFINE x == [req[r] EXCEPT !.pc = "log", !.sub = t]
    <3>1. req[r] \in RequestRecords /\ req[r].seen[t] # None
      BY <1>2 DEF CascadeWithdraws, RequestTypes
    <3>2. x \in RequestRecords /\ x.pc = "log" /\ x.sub = t
          /\ x.seen[x.sub] \in Statuses
      BY <3>1 DEF RequestRecords, Points
    <3>3. req' = [req EXCEPT ![r] = x]
      BY <2>3 DEF RequestTypes, RequestRecords
    <3> HIDE DEF x
    <3> QED  BY <2>1, <3>2, <3>3, OneRequest
  <2> QED  BY <1>2, <2>2, <2>3 DEF CascadeWithdraws
<1>3. CASE CascadeLogs(r)
  <2> DEFINE t == req[r].sub
             x == [req[r] EXCEPT !.pc = "announce"]
  <2>1. t \in Submissions /\ req[r].seen[t] \in Statuses /\ req[r] \in RequestRecords
    BY <1>3 DEF CascadeLogs, RequestTypes, Points
  <2>2. Append(history[t], Entry(req[r].seen[t], "WITHDRAWN")) \in Seq(Entries)
    BY <2>1, EntryType, StatusFacts DEF RowTypes
  <2>3. RowTypes'
    BY <1>3, <2>1, <2>2 DEF CascadeLogs, RowTypes
  <2>4. x \in RequestRecords /\ x.pc = "announce" /\ x.sub = t /\ x.seen = req[r].seen
    BY <2>1 DEF RequestRecords, Points
  <2>5. req' = [req EXCEPT ![r] = x]
    BY <1>3 DEF CascadeLogs, Goto, RequestTypes
  <2> HIDE DEF x
  <2> QED  BY <2>1, <2>3, <2>4, <2>5, OneRequest
<1>4. CASE CascadeAnnounces(r)
  <2> DEFINE t == req[r].sub
  <2>1. t \in Submissions
    BY <1>4 DEF CascadeAnnounces, RequestTypes, Points
  <2>2. Announce(events[t], "WITHDRAWN", 1) \in [Announced -> Nat]
    BY <2>1, AnnounceType DEF RowTypes
  <2>3. RowTypes'
    BY <1>4, <2>1, <2>2 DEF CascadeAnnounces, RowTypes
  <2>4. RequestTypes'
    BY <1>4, <2>1, ForgetTypes DEF CascadeAnnounces
  <2> QED  BY <2>3, <2>4
<1> QED  BY <1>1, <1>2, <1>3, <1>4 DEF CascadeStep

(* Uploads and scans.                                                      *)
LEMMA FileTypesKept ==
  ASSUME TypeOK, FileStep
  PROVE  TypeOK'
  BY DEF FileStep, Upload, RemoveFile, ScanStarts, ScanEnds, TypeOK, ScanStatuses

-----------------------------------------------------------------------------
(* Row locks                                                               *)

(* Request r holds no row afterwards, and no row another request holds     *)
(* changed its status.                                                     *)
LEMMA LocksKept ==
  ASSUME Locks, NEW r \in Requests, ~ Holding(r)',
         \A q \in Requests \ {r} : req'[q] = req[q],
         \A q \in Requests \ {r} :
           Holding(q) => status'[req[q].sub] = status[req[q].sub]
  PROVE  Locks'
<1>1. \A q \in Requests : Holding(q)' => q # r /\ Holding(q) /\ req'[q] = req[q]
  BY DEF Holding
<1> QED  BY <1>1 DEF Locks, Holding

(* No request moved, and no row that is held changed its status.           *)
LEMMA LocksUntouched ==
  ASSUME Locks, req' = req,
         \A q \in Requests : Holding(q) => status'[req[q].sub] = status[req[q].sub]
  PROVE  Locks'
  BY DEF Locks, Holding

(* Request r takes a free row whose status it has checked.                 *)
LEMMA LocksTaken ==
  ASSUME Locks, NEW r \in Requests, NEW s, Free(s), status' = status,
         \A q \in Requests \ {r} : req'[q] = req[q],
         req'[r].sub = s,
         \/ /\ req'[r].pc = "submit"
            /\ status[s] \in {"DRAFT", "REVISE_AND_RESUBMIT"}
         \/ req'[r].pc = "embed" /\ status[s] = None
  PROVE  Locks'
<1>1. \A q \in Requests \ {r} : Holding(q)' => Holding(q) /\ req[q].sub # s
  BY DEF Holding, Free
<1>2. \A q \in Requests : 
        /\ req'[q].pc = "submit" =>
             status'[req'[q].sub] \in {"DRAFT", "REVISE_AND_RESUBMIT"}
        /\ req'[q].pc = "embed" => status'[req'[q].sub] = None
  BY DEF Locks
<1>3. \A p, q \in Requests :
        p # q /\ Holding(p)' /\ Holding(q)' => req'[p].sub # req'[q].sub
  BY <1>1 DEF Locks
<1> QED  BY <1>2, <1>3 DEF Locks, Holding

(* Requests of one step change rows nobody holds.                          *)
LEMMA RowLocksKept ==
  ASSUME IInv, RowStep \/ BatchStep
  PROVE  Locks'
<1>1. ASSUME NEW s \in Submissions, Free(s), req' = req,
             \E x : status' = [status EXCEPT ![s] = x]
      PROVE  Locks'
  <2>1. \A q \in Requests : Holding(q) => req[q].sub # s
    BY <1>1 DEF Free, Holding
  <2> QED  BY <1>1, <2>1, LocksUntouched DEF IInv, TypeOK, Holding, Points
<1>2. CASE RowStep
  BY <1>1, <1>2 DEF RowStep, Create, Import, Delete, Withdraw, EditorMove, Move
<1>3. ASSUME NEW ids \in Batches, NEW to \in Statuses, Batch(ids, to) PROVE Locks'
  <2> DEFINE Times(s) == Cardinality({i \in DOMAIN ids : ids[i] = s})
  <2>1. req' = req /\ \A i \in DOMAIN ids : Free(ids[i])
    BY <1>3 DEF Batch
  <2>2. \A s \in Submissions : status'[s] # status[s] => Times(s) > 0
    BY <1>3 DEF Batch
  <2>3. \A s : (\A i \in DOMAIN ids : ids[i] # s) => Times(s) = 0
    <3> SUFFICES ASSUME NEW s, \A i \in DOMAIN ids : ids[i] # s
                 PROVE  Times(s) = 0
      OBVIOUS
    <3>1. {i \in DOMAIN ids : ids[i] = s} = {}
      OBVIOUS
    <3> QED  BY <3>1, FS_EmptySet
  <2> HIDE DEF Times
  <2>4. \A s \in Submissions : status'[s] # status[s] => Free(s)
    BY <2>1, <2>2, <2>3
  <2>5. \A q \in Requests : Holding(q) => status'[req[q].sub] = status[req[q].sub]
    BY <2>4 DEF Free, Holding, IInv, TypeOK, Points
  <2> QED  BY <2>1, <2>5, LocksUntouched DEF IInv
<1> QED  BY <1>2, <1>3 DEF BatchStep

(* A request that stops, finishes or is past its lock leaves the others'.  *)
LEMMA RequestLocksKept ==
  ASSUME IInv, NEW r \in Requests, RequestStep(r)
  PROVE  Locks'
<1> USE DEF IInv
<1>1. req \in [Requests -> RequestRecords]
  BY DEF TypeOK
<1>2. ASSUME Finish(r),
             \A q \in Requests \ {r} :
               Holding(q) => status'[req[q].sub] = status[req[q].sub]
      PROVE  Locks'
  <2>1. ~ Holding(r)'
    BY <1>1, <1>2 DEF Finish, Holding, Idle, Req
  <2>2. \A q \in Requests \ {r} : req'[q] = req[q]
    BY <1>1, <1>2 DEF Finish
  <2> QED  BY <1>2, <2>1, <2>2, LocksKept
<1>3. ASSUME NEW s, Req("submit", s, NoVersion, None, NothingSeen) = req'[r],
             status[s] \in {"DRAFT", "REVISE_AND_RESUBMIT"}, Free(s),
             status' = status, \A q \in Requests \ {r} : req'[q] = req[q]
      PROVE  Locks'
  <2>1. req'[r].pc = "submit" /\ req'[r].sub = s
    BY <1>3 DEF Req
  <2> QED  BY <1>3, <2>1, LocksTaken
<1>4. ASSUME NEW s \in Submissions, SubmitChecks(r, s) PROVE Locks'
  <2>1. status[s] \in {"DRAFT", "REVISE_AND_RESUBMIT"}
    BY <1>4, ValidFacts DEF SubmitChecks
  <2>2. /\ req'[r] = Req("submit", s, NoVersion, None, NothingSeen)
        /\ \A q \in Requests \ {r} : req'[q] = req[q]
        /\ Free(s) /\ status' = status
    BY <1>1, <1>4 DEF SubmitChecks
  <2> QED  BY <1>3, <2>1, <2>2
<1>5. CASE SubmitCommits(r)
  <2>1. Holding(r) /\ status' = [status EXCEPT ![req[r].sub] = "SUBMITTED"] /\ Finish(r)
    BY <1>5 DEF SubmitCommits, Holding, Move
  <2>2. \A q \in Requests \ {r} : Holding(q) =>
          req[q].sub \in Submissions /\ req[q].sub # req[r].sub
    BY <2>1 DEF Locks, TypeOK, Holding, Points
  <2>3. status \in [Submissions -> Statuses \cup {None, "deleted"}]
    BY DEF TypeOK
  <2> QED  BY <1>2, <2>1, <2>2, <2>3
<1>6. ASSUME NEW s \in Submissions, NEW v \in Versions \cup {NoVersion},
             EmbedChecks(r, s, v)
      PROVE  Locks'
  <2>1. /\ req'[r] = Req("embed", s, v, None, NothingSeen)
        /\ \A q \in Requests \ {r} : req'[q] = req[q]
        /\ Free(s) /\ status' = status /\ status[s] = None
    BY <1>1, <1>6 DEF EmbedChecks
  <2>2. req'[r].pc = "embed" /\ req'[r].sub = s
    BY <2>1 DEF Req
  <2> QED  BY <2>1, <2>2, LocksTaken
<1>7. CASE EmbedCommits(r)
  <2>1. Holding(r) /\ status' = [status EXCEPT ![req[r].sub] = "SUBMITTED"] /\ Finish(r)
    BY <1>7 DEF EmbedCommits, Holding
  <2>2. \A q \in Requests \ {r} : Holding(q) =>
          req[q].sub \in Submissions /\ req[q].sub # req[r].sub
    BY <2>1 DEF Locks, TypeOK, Holding, Points
  <2>3. status \in [Submissions -> Statuses \cup {None, "deleted"}]
    BY DEF TypeOK
  <2> QED  BY <1>2, <2>1, <2>2, <2>3
<1>8. ASSUME NEW s \in Submissions, NEW v \in Versions, NEW via \in ResubmitVias,
             ResubmitReads(r, s, v, via)
      PROVE  Locks'
  <2>1. req'[r] = Req("check", s, v, via, NothingSeen) /\ status' = status
    BY <1>1, <1>8 DEF ResubmitReads
  <2>2. ~ Holding(r)'
    BY <2>1 DEF Holding, Req
  <2>3. \A q \in Requests \ {r} : req'[q] = req[q]
    BY <1>1, <1>8 DEF ResubmitReads
  <2> QED  BY <2>1, <2>2, <2>3, LocksKept
<1>9. CASE ResubmitChecks(r)
  <2>1. status' = status
    BY <1>9 DEF ResubmitChecks
  <2>2. CASE Finish(r)
    BY <1>2, <2>1, <2>2
  <2>3. CASE Goto(r, "swap")
    <3>1. ~ Holding(r)'
      BY <1>1, <2>3 DEF Goto, Holding, RequestRecords
    <3>2. \A q \in Requests \ {r} : req'[q] = req[q]
      BY <1>1, <2>3 DEF Goto
    <3> QED  BY <2>1, <3>1, <3>2, LocksKept
  <2> QED  BY <1>9, <2>2, <2>3 DEF ResubmitChecks
<1>10. CASE ResubmitCommits(r)
  <2> DEFINE s == req[r].sub
  <2>1. Free(s) /\ Finish(r)
        /\ (status' = status \/ status' = [status EXCEPT ![s] = "SUBMITTED"])
    BY <1>10 DEF ResubmitCommits, Move
  <2>2. \A q \in Requests : Holding(q) => req[q].sub # s /\ req[q].sub \in Submissions
    BY <2>1 DEF Free, Holding, TypeOK, Points
  <2>3. status \in [Submissions -> Statuses \cup {None, "deleted"}]
    BY DEF TypeOK
  <2> QED  BY <1>2, <2>1, <2>2, <2>3
<1>11. CASE Crash(r)
  BY <1>2, <1>11 DEF Crash
<1> QED
  BY <1>4, <1>5, <1>6, <1>7, <1>8, <1>9, <1>10, <1>11 DEF RequestStep

LEMMA CascadeLocksKept ==
  ASSUME IInv, NEW r \in Requests,
         (\E s \in Submissions : CascadeFinds(r, s)) \/ CascadeStep(r)
  PROVE  Locks'
<1> USE DEF IInv
<1>1. req \in [Requests -> RequestRecords]
  BY DEF TypeOK
<1>2. ~ Idle.pc \in {"submit", "embed"}
      /\ \A seen : ~ Req("withdraw", None, NoVersion, None, seen).pc
                       \in {"submit", "embed"}
  BY DEF Idle, Req
<1>3. \A t : Forget(r, t) =>
        ~ Holding(r)' /\ \A q \in Requests \ {r} : req'[q] = req[q]
  BY <1>1, <1>2 DEF Forget, Holding
<1>4. ASSUME NEW s \in Submissions, CascadeFinds(r, s) PROVE Locks'
  <2>1. ~ Holding(r)'
    BY <1>1, <1>2, <1>4 DEF CascadeFinds, Holding
  <2>2. \A q \in Requests \ {r} : req'[q] = req[q]
    BY <1>1, <1>4 DEF CascadeFinds
  <2> QED  BY <1>4, <2>1, <2>2, LocksKept DEF CascadeFinds
<1>5. ASSUME NEW t \in Submissions, CascadeWithdraws(r, t) PROVE Locks'
  <2>1. ~ Holding(r)' /\ \A q \in Requests \ {r} : req'[q] = req[q]
    BY <1>1, <1>3, <1>5 DEF CascadeWithdraws, Holding, RequestRecords
  <2>2. \A q \in Requests : Holding(q) => req[q].sub # t /\ req[q].sub \in Submissions
    BY <1>5 DEF CascadeWithdraws, Free, Holding, TypeOK, Points
  <2>3. status' = status \/ status' = [status EXCEPT ![t] = "WITHDRAWN"]
    BY <1>5 DEF CascadeWithdraws
  <2>4. status \in [Submissions -> Statuses \cup {None, "deleted"}]
    BY DEF TypeOK
  <2>5. \A q \in Requests \ {r} :
          Holding(q) => status'[req[q].sub] = status[req[q].sub]
    BY <2>2, <2>3, <2>4
  <2> QED  BY <2>1, <2>5, LocksKept
<1>6. CASE CascadeLogs(r)
  <2>1. ~ Holding(r)' /\ \A q \in Requests \ {r} : req'[q] = req[q]
    BY <1>1, <1>6 DEF CascadeLogs, Goto, Holding, RequestRecords
  <2> QED  BY <1>6, <2>1, LocksKept DEF CascadeLogs
<1>7. CASE CascadeAnnounces(r)
  BY <1>3, <1>7, LocksKept DEF CascadeAnnounces
<1> QED  BY <1>4, <1>5, <1>6, <1>7 DEF CascadeStep

-----------------------------------------------------------------------------
(* Invariance                                                              *)

LEMMA InitInv == Init => IInv
<1> SUFFICES ASSUME Init PROVE IInv
  OBVIOUS
<1>1. NoEvents \in [Announced -> Nat]
  BY DEF NoEvents
<1>2. RowTypes
  BY <1>1 DEF Init, RowTypes
<1>3. \A r \in Requests : req[r].pc = "idle"
  BY DEF Init, Idle, Req
<1>4. RequestTypes
  BY <1>3, IdleType DEF Init, RequestTypes
<1>5. Locks
  BY <1>3 DEF Locks, Holding
<1> QED  BY <1>2, <1>4, <1>5, TypeParts DEF IInv

LEMMA StepInv == IInv /\ [Next]_vars => IInv'
<1> SUFFICES ASSUME IInv, [Next]_vars PROVE IInv'
  OBVIOUS
<1> USE SubmissionAssumption
<1>1. CASE RowStep
  BY <1>1, RowTypesKept, RowLocksKept DEF RowStep, IInv
<1>2. CASE BatchStep
  BY <1>2, BatchTypes, RowLocksKept DEF BatchStep, IInv
<1>3. ASSUME NEW r \in Requests, RequestStep(r) PROVE IInv'
  <2>1. TypeOK'
    BY <1>3, SubmitTypesKept, ResubmitTypesKept DEF RequestStep, IInv
  <2> QED  BY <1>3, <2>1, RequestLocksKept DEF IInv
<1>4. ASSUME NEW r \in Requests,
             (\E s \in Submissions : CascadeFinds(r, s)) \/ CascadeStep(r)
      PROVE  IInv'
  BY <1>4, CascadeTypesKept, CascadeLocksKept DEF IInv
<1>5. CASE FileStep
  <2>1. status' = status /\ req' = req
    BY <1>5 DEF FileStep, Upload, RemoveFile, ScanStarts, ScanEnds
  <2> QED  BY <1>5, <2>1, FileTypesKept, LocksUntouched DEF IInv
<1>6. CASE UNCHANGED vars
  <2>1. TypeOK'
    BY <1>6 DEF vars, TypeOK, IInv
  <2> QED  BY <1>6, <2>1, LocksUntouched DEF vars, IInv
<1> QED  BY <1>1, <1>2, <1>3, <1>4, <1>5, <1>6 DEF Next

(* Every reachable state is well typed: in particular a request never      *)
(* loses the submission it works on, and a cascade knows the status it     *)
(* will log.                                                               *)
THEOREM TypeCorrect == Spec => []TypeOK
<1>1. IInv => TypeOK
  BY DEF IInv
<1> QED  BY <1>1, InitInv, StepInv, PTL DEF Spec

-----------------------------------------------------------------------------
(* What one step does to one submission                                    *)

(* Nothing.                                                                *)
RowStays(s) ==
  status'[s] = status[s] /\ history'[s] = history[s] /\ events'[s] = events[s]

(* It begins: as a draft, imported, or submitted from an embedding site.   *)
RowBegins(s) ==
  /\ status[s] = None
  /\ \/ /\ status'[s] = "DRAFT" /\ history'[s] = <<Entry(None, "DRAFT")>>
        /\ events'[s] = events[s]
     \/ /\ status'[s] \in Imported /\ history'[s] = history[s]
        /\ events'[s] = events[s]
     \/ /\ status'[s] = "SUBMITTED"
        /\ history'[s] = <<Entry(None, "DRAFT"), Entry("DRAFT", "SUBMITTED")>>
        /\ events'[s] = Announce(events[s], "SUBMITTED", 1)

(* The draft is deleted.                                                   *)
RowGoes(s) ==
  /\ status[s] = "DRAFT" /\ status'[s] = "deleted"
  /\ history'[s] = <<>> /\ events'[s] = events[s]

(* updateStatus changes it to "to", n times if a batch says so.            *)
RowMoves(s, to, n) ==
  /\ to \in ValidFrom(status[s]) /\ status'[s] = to /\ n # 0
  /\ history'[s] = history[s] \o Copies(Entry(status[s], to), n)
  /\ events'[s] = Announce(events[s], to, n)

(* A cascade's three statements.                                           *)
RowWithdrawn(s) ==
  /\ status[s] \in Active /\ status'[s] = "WITHDRAWN"
  /\ history'[s] = history[s] /\ events'[s] = events[s]
  /\ \E r \in Requests : req'[r].pc = "log" /\ req'[r].sub = s

RowLogged(s, r) ==
  /\ req[r].pc = "log" /\ req[r].sub = s
  /\ req'[r].pc = "announce" /\ req'[r].sub = s
  /\ status'[s] = status[s] /\ events'[s] = events[s]
  /\ \E from \in Statuses :
       /\ from = req[r].seen[s]
       /\ history'[s] = history[s] \o Copies(Entry(from, "WITHDRAWN"), 1)

RowTold(s, r) ==
  /\ req[r].pc = "announce" /\ req[r].sub = s
  /\ req'[r].pc \notin {"log", "announce"}
  /\ status'[s] = status[s] /\ history'[s] = history[s]
  /\ events'[s] = Announce(events[s], "WITHDRAWN", 1)

BatchTimes(ids, s) == Cardinality({i \in DOMAIN ids : ids[i] = s})

(* How often a step changes a submission: once, or as often as a batch     *)
(* names it.                                                               *)
Multiplicities == {1} \cup {BatchTimes(ids, s) : ids \in Batches, s \in Submissions}

RowSteps(s) ==
  \/ RowStays(s) \/ RowBegins(s) \/ RowGoes(s) \/ RowWithdrawn(s)
  \/ \E to \in Statuses, n \in Multiplicities : RowMoves(s, to, n)
  \/ \E r \in Requests : RowLogged(s, r) \/ RowTold(s, r)

LEMMA OneCopy ==
  ASSUME NEW h \in Seq(Entries), NEW e \in Entries
  PROVE  Append(h, e) = h \o Copies(e, 1)
<1>1. Copies(e, 1) = <<e>>
  BY DEF Copies
<1> QED  BY <1>1, AppendIsConcat

(* A single change moves its submission once and leaves the others.        *)
LEMMA MoveShape ==
  ASSUME TypeOK, NEW t \in Submissions, NEW to \in ValidFrom(status[t]), Move(t, to)
  PROVE  \A s \in Submissions : RowStays(s) \/ RowMoves(s, to, 1)
<1>1. /\ status \in [Submissions -> Statuses \cup {None, "deleted"}]
      /\ history \in [Submissions -> Seq(Entries)]
      /\ events \in [Submissions -> [Announced -> Nat]]
  BY DEF TypeOK
<1>2. Entry(status[t], to) \in Entries
  BY ValidFacts, EntryType
<1>3. history'[t] = history[t] \o Copies(Entry(status[t], to), 1)
  BY <1>1, <1>2, OneCopy DEF Move
<1>4. RowMoves(t, to, 1)
  BY <1>1, <1>3 DEF Move, RowMoves
<1>5. \A s \in Submissions \ {t} : RowStays(s)
  BY <1>1 DEF Move, RowStays
<1> QED  BY <1>4, <1>5

LEMMA RowStepShape ==
  ASSUME IInv, RowStep, NEW s \in Submissions
  PROVE  RowSteps(s)
<1> USE DEF IInv
<1>1. /\ status \in [Submissions -> Statuses \cup {None, "deleted"}]
      /\ history \in [Submissions -> Seq(Entries)]
      /\ events \in [Submissions -> [Announced -> Nat]]
  BY DEF TypeOK
<1>2. 1 \in Multiplicities
  BY DEF Multiplicities
<1>3. ASSUME NEW t \in Submissions, NEW v \in Versions \cup {NoVersion}, Create(t, v)
      PROVE  RowStays(s) \/ RowBegins(s)
  BY <1>1, <1>3 DEF Create, RowStays, RowBegins
<1>4. ASSUME NEW t \in Submissions, NEW st \in Imported, Import(t, st)
      PROVE  RowStays(s) \/ RowBegins(s)
  BY <1>1, <1>4 DEF Import, RowStays, RowBegins
<1>5. ASSUME NEW t \in Submissions, Delete(t) PROVE RowStays(s) \/ RowGoes(s)
  BY <1>1, <1>5 DEF Delete, RowStays, RowGoes
<1>6. ASSUME NEW t \in Submissions, Withdraw(t)
      PROVE  RowStays(s) \/ RowMoves(s, "WITHDRAWN", 1)
  BY <1>6, MoveShape DEF Withdraw
<1>7. ASSUME NEW t \in Submissions, NEW to \in Statuses, EditorMove(t, to)
      PROVE  RowStays(s) \/ RowMoves(s, to, 1)
  BY <1>7, MoveShape, EditorsAreLegal DEF EditorMove
<1> QED  BY <1>2, <1>3, <1>4, <1>5, <1>6, <1>7, StatusFacts DEF RowStep, RowSteps

LEMMA BatchShape ==
  ASSUME IInv, BatchStep, NEW s \in Submissions
  PROVE  RowSteps(s)
<1>1. PICK ids \in Batches, to \in Statuses : Batch(ids, to)
  BY DEF BatchStep
<1>2. BatchTimes(ids, s) \in Multiplicities
  BY DEF Multiplicities
<1>3. RowStays(s) \/ RowMoves(s, to, BatchTimes(ids, s))
  <2>1. CASE BatchTimes(ids, s) > 0 /\ to \in EditorFrom(status[s])
    <3>1. to \in ValidFrom(status[s]) /\ BatchTimes(ids, s) # 0
      BY <2>1, EditorsAreLegal
    <3>2. /\ status'[s] = to
          /\ history'[s] = history[s] \o Copies(Entry(status[s], to), BatchTimes(ids, s))
          /\ events'[s] = Announce(events[s], to, BatchTimes(ids, s))
      BY <1>1, <2>1 DEF Batch, BatchTimes
    <3> QED  BY <3>1, <3>2 DEF RowMoves
  <2>2. CASE ~ (BatchTimes(ids, s) > 0 /\ to \in EditorFrom(status[s]))
    BY <1>1, <2>2 DEF Batch, BatchTimes, RowStays
  <2> QED  BY <2>1, <2>2
<1> QED  BY <1>2, <1>3 DEF RowSteps

LEMMA RequestShape ==
  ASSUME IInv, NEW r \in Requests, RequestStep(r), NEW s \in Submissions
  PROVE  RowSteps(s)
<1> USE DEF IInv
<1> DEFINE t == req[r].sub
<1>1. /\ status \in [Submissions -> Statuses \cup {None, "deleted"}]
      /\ history \in [Submissions -> Seq(Entries)]
      /\ events \in [Submissions -> [Announced -> Nat]]
  BY DEF TypeOK
<1>2. 1 \in Multiplicities /\ "SUBMITTED" \in Statuses
  BY StatusFacts DEF Multiplicities
<1>3. CASE SubmitCommits(r)
  <2>1. t \in Submissions /\ "SUBMITTED" \in ValidFrom(status[t])
    BY <1>3 DEF SubmitCommits, Locks, TypeOK, Points, ValidFrom
  <2>2. Move(t, "SUBMITTED")
    BY <1>3 DEF SubmitCommits
  <2> QED  BY <1>2, <2>1, <2>2, MoveShape DEF RowSteps
<1>4. CASE EmbedCommits(r)
  <2>1. t \in Submissions /\ status[t] = None
    BY <1>4 DEF EmbedCommits, Locks, TypeOK, Points
  <2>2. RowStays(s) \/ RowBegins(s)
    BY <1>1, <1>4, <2>1 DEF EmbedCommits, RowStays, RowBegins
  <2> QED  BY <2>2 DEF RowSteps
<1>5. CASE ResubmitCommits(r)
  <2>1. t \in Submissions
    BY <1>5 DEF ResubmitCommits, TypeOK, Points
  <2>2. \/ "SUBMITTED" \in ValidFrom(status[t]) /\ Move(t, "SUBMITTED")
        \/ UNCHANGED <<status, history, events>>
    BY <1>5 DEF ResubmitCommits
  <2> QED  BY <1>2, <2>1, <2>2, MoveShape DEF RowSteps, RowStays
<1>6. CASE UNCHANGED <<status, history, events>>
  BY <1>6 DEF RowSteps, RowStays
<1> QED
  BY <1>3, <1>4, <1>5, <1>6 DEF RequestStep, SubmitChecks, EmbedChecks, ResubmitReads,
     ResubmitChecks, Crash

LEMMA CascadeShape ==
  ASSUME IInv, NEW r \in Requests, CascadeStep(r), NEW s \in Submissions
  PROVE  RowSteps(s)
<1> USE DEF IInv
<1> DEFINE t == req[r].sub
<1>1. /\ status \in [Submissions -> Statuses \cup {None, "deleted"}]
      /\ history \in [Submissions -> Seq(Entries)]
      /\ events \in [Submissions -> [Announced -> Nat]]
      /\ req \in [Requests -> RequestRecords]
  BY DEF TypeOK
<1>2. ASSUME NEW x \in Submissions, CascadeWithdraws(r, x)
      PROVE  RowStays(s) \/ RowWithdrawn(s)
  <2>1. CASE status' = status \/ s # x
    BY <1>1, <1>2, <2>1 DEF CascadeWithdraws, RowStays
  <2>2. CASE /\ status[s] \in Active /\ s = x
             /\ req' = [req EXCEPT ![r].pc = "log", ![r].sub = s]
    <3>1. req'[r].pc = "log" /\ req'[r].sub = s
      BY <1>1, <2>2 DEF RequestRecords
    <3> QED  BY <1>1, <1>2, <2>2, <3>1 DEF CascadeWithdraws, RowWithdrawn
  <2> QED  BY <1>2, <2>1, <2>2 DEF CascadeWithdraws
<1>3. CASE CascadeLogs(r)
  <2>1. t \in Submissions /\ req[r].seen[t] \in Statuses
    BY <1>3 DEF CascadeLogs, TypeOK, Points
  <2>2. Entry(req[r].seen[t], "WITHDRAWN") \in Entries
    BY <2>1, EntryType, StatusFacts
  <2>3. history'[t] = history[t] \o Copies(Entry(req[r].seen[t], "WITHDRAWN"), 1)
    BY <1>1, <1>3, <2>1, <2>2, OneCopy DEF CascadeLogs
  <2>4. req'[r].pc = "announce" /\ req'[r].sub = t
    BY <1>1, <1>3 DEF CascadeLogs, Goto, RequestRecords
  <2>5. RowLogged(t, r)
    BY <1>3, <2>1, <2>3, <2>4 DEF CascadeLogs, RowLogged
  <2>6. s # t => RowStays(s)
    BY <1>1, <1>3 DEF CascadeLogs, RowStays
  <2> QED  BY <2>5, <2>6 DEF RowSteps
<1>4. CASE CascadeAnnounces(r)
  <2>1. t \in Submissions
    BY <1>4 DEF CascadeAnnounces, TypeOK, Points
  <2>2. req'[r].pc \notin {"log", "announce"}
    BY <1>1, <1>4 DEF CascadeAnnounces, Forget, Idle, Req
  <2>3. RowTold(t, r)
    BY <1>1, <1>4, <2>1, <2>2 DEF CascadeAnnounces, RowTold
  <2>4. s # t => RowStays(s)
    BY <1>1, <1>4 DEF CascadeAnnounces, RowStays
  <2> QED  BY <2>3, <2>4 DEF RowSteps
<1> QED  BY <1>2, <1>3, <1>4 DEF CascadeStep, RowSteps

(* Every step leaves a submission, begins or deletes it, moves it along a  *)
(* legal transition that is recorded and announced, or is one of the       *)
(* statements of a cascade.                                                *)
LEMMA Shape ==
  ASSUME IInv, [Next]_vars, NEW s \in Submissions
  PROVE  RowSteps(s)
<1>1. ASSUME UNCHANGED <<status, history, events>> PROVE RowSteps(s)
  BY <1>1 DEF RowSteps, RowStays
<1>2. CASE FileStep \/ UNCHANGED vars
  BY <1>1, <1>2 DEF FileStep, Upload, RemoveFile, ScanStarts, ScanEnds, vars
<1>3. ASSUME NEW r \in Requests, NEW t \in Submissions, CascadeFinds(r, t)
      PROVE  RowSteps(s)
  BY <1>1, <1>3 DEF CascadeFinds
<1> QED
  BY <1>2, <1>3, RowStepShape, BatchShape, RequestShape, CascadeShape DEF Next

-----------------------------------------------------------------------------
(* Decisions are final                                                     *)

LEMMA FinalStep ==
  ASSUME IInv, [Next]_vars, NEW s \in Submissions, status[s] \in Terminal
  PROVE  status'[s] = status[s]
<1>1. status[s] \in Statuses \ {"DRAFT"} /\ status[s] \notin Active
  BY StatusFacts
<1>2. \A to, n : ~ RowMoves(s, to, n)
  BY ValidFacts DEF RowMoves
<1>3. RowSteps(s)
  BY Shape
<1> QED
  BY <1>1, <1>2, <1>3, StatusFacts
     DEF RowSteps, RowStays, RowBegins, RowGoes, RowWithdrawn, RowLogged, RowTold

(* Whatever requests, batches, resubmissions and cascades do, and whenever *)
(* they read what they act on, a submission that was accepted, rejected or *)
(* withdrawn keeps that status for ever.                                   *)
THEOREM DecisionIsFinal == Spec => TerminalFinal
<1>1. IInv /\ [Next]_vars =>
        [\A s \in Submissions : status[s] \in Terminal => status'[s] = status[s]]_vars
  BY FinalStep
<1> QED  BY <1>1, InitInv, StepInv, PTL DEF Spec, TerminalFinal

-----------------------------------------------------------------------------
(* The cascades' requests                                                  *)

(* A cascade that has withdrawn a submission and not yet told of it.       *)
Withdrawing(r) == req[r].pc \in {"log", "announce"}

(* Such a cascade has this submission to itself.                           *)
OneWithdraws ==
  /\ \A r \in Requests : Withdrawing(r) => status[req[r].sub] = "WITHDRAWN"
  /\ \A q, r \in Requests :
       q # r /\ Withdrawing(q) /\ Withdrawing(r) => req[q].sub # req[r].sub

(* The steps with which r comes to withdraw t, and to have logged it.      *)
Takes(r, t) ==
  /\ req'[r].pc = "log" /\ req'[r].sub = t /\ t \in Submissions
  /\ RowWithdrawn(t)
  /\ \A q \in Requests \ {r} : req'[q] = req[q]

Logs(r) ==
  /\ RowLogged(req[r].sub, r)
  /\ \A q \in Requests \ {r} : req'[q] = req[q]

LEMMA RequestsOf ==
  ASSUME IInv, [Next]_vars, NEW r \in Requests, Withdrawing(r)'
  PROVE  req'[r] = req[r] \/ (\E t \in Submissions : Takes(r, t)) \/ Logs(r)
<1> USE DEF IInv
<1>1. /\ status \in [Submissions -> Statuses \cup {None, "deleted"}]
      /\ history \in [Submissions -> Seq(Entries)]
      /\ req \in [Requests -> RequestRecords]
  BY DEF TypeOK
<1>2. \A pc, s, v, via, seen : Req(pc, s, v, via, seen).pc = pc
  BY DEF Req
<1>3. Idle.pc = "idle"
  BY <1>2 DEF Idle
<1>4. CASE req' = req
  BY <1>4
<1>5. ASSUME NEW q \in Requests, NEW x, req' = [req EXCEPT ![q] = x],
             x.pc \notin {"log", "announce"}
      PROVE  req'[r] = req[r]
  BY <1>1, <1>5 DEF Withdrawing
<1>6. ASSUME NEW q \in Requests, Finish(q) PROVE req'[r] = req[r]
  BY <1>3, <1>5, <1>6 DEF Finish
<1>7. ASSUME NEW q \in Requests, NEW t, Forget(q, t) PROVE req'[r] = req[r]
  BY <1>2, <1>3, <1>5, <1>7 DEF Forget
<1>8. ASSUME NEW q \in Requests, RequestStep(q) PROVE req'[r] = req[r]
  <2>1. CASE Goto(q, "swap")
    <3>1. req' = [req EXCEPT ![q] = [req[q] EXCEPT !.pc = "swap"]]
      BY <1>1, <2>1 DEF Goto
    <3>2. [req[q] EXCEPT !.pc = "swap"].pc = "swap"
      BY <1>1 DEF RequestRecords
    <3> QED  BY <1>5, <3>1, <3>2
  <2>2. CASE \E pc \in {"submit", "embed", "check"} : \E s, v, via, seen :
               req' = [req EXCEPT ![q] = Req(pc, s, v, via, seen)]
    <3>0. PICK pc \in {"submit", "embed", "check"} : \E s, v, via, seen :
                 req' = [req EXCEPT ![q] = Req(pc, s, v, via, seen)]
      BY <2>2
    <3>1. PICK s, v, via, seen :
                 req' = [req EXCEPT ![q] = Req(pc, s, v, via, seen)]
      BY <3>0
    <3>2. Req(pc, s, v, via, seen).pc \notin {"log", "announce"}
      BY <1>2
    <3> HIDE DEF Req
    <3> QED  BY <1>5, <3>1, <3>2
  <2> QED
    BY <1>6, <1>8, <2>1, <2>2
       DEF RequestStep, SubmitChecks, SubmitCommits, EmbedChecks, EmbedCommits,
           ResubmitReads, ResubmitChecks, ResubmitCommits, Crash
<1>9. ASSUME NEW q \in Requests, NEW s \in Submissions, CascadeFinds(q, s)
      PROVE  req'[r] = req[r]
  BY <1>2, <1>5, <1>9 DEF CascadeFinds
<1>10. ASSUME NEW q \in Requests, NEW t \in Submissions, CascadeWithdraws(q, t)
       PROVE  req'[r] = req[r] \/ Takes(r, t)
  <2>1. CASE Forget(q, t)
    BY <1>7, <2>1
  <2>2. CASE /\ status[t] \in Active
             /\ req' = [req EXCEPT ![q].pc = "log", ![q].sub = t]
    <3>1. req'[q].pc = "log" /\ req'[q].sub = t
      BY <1>1, <2>2 DEF RequestRecords
    <3>2. RowWithdrawn(t)
      BY <1>1, <1>10, <2>2, <3>1 DEF CascadeWithdraws, RowWithdrawn
    <3>3. \A p \in Requests \ {q} : req'[p] = req[p]
      BY <1>1, <2>2
    <3> QED  BY <3>1, <3>2, <3>3 DEF Takes
  <2> QED  BY <1>10, <2>1, <2>2 DEF CascadeWithdraws
<1>11. ASSUME NEW q \in Requests, CascadeLogs(q) PROVE req'[r] = req[r] \/ Logs(r)
  <2> DEFINE t == req[q].sub
  <2>1. t \in Submissions /\ req[q].seen[t] \in Statuses
    BY <1>11 DEF CascadeLogs, TypeOK, Points
  <2>2. Entry(req[q].seen[t], "WITHDRAWN") \in Entries
    BY <2>1, EntryType, StatusFacts
  <2>3. history'[t] = history[t] \o Copies(Entry(req[q].seen[t], "WITHDRAWN"), 1)
    BY <1>1, <1>11, <2>1, <2>2, OneCopy DEF CascadeLogs
  <2>4. req'[q].pc = "announce" /\ req'[q].sub = t
    BY <1>1, <1>11 DEF CascadeLogs, Goto, RequestRecords
  <2>5. RowLogged(t, q)
    BY <1>11, <2>1, <2>3, <2>4 DEF CascadeLogs, RowLogged
  <2>6. \A p \in Requests \ {q} : req'[p] = req[p]
    BY <1>1, <1>11 DEF CascadeLogs, Goto
  <2> QED  BY <2>5, <2>6 DEF Logs
<1>12. ASSUME NEW q \in Requests, CascadeAnnounces(q) PROVE req'[r] = req[r]
  BY <1>7, <1>12 DEF CascadeAnnounces
<1>13. ASSUME RowStep \/ BatchStep \/ FileStep \/ UNCHANGED vars PROVE req' = req
  BY <1>13 DEF RowStep, Create, Import, Delete, Withdraw, EditorMove, BatchStep, Batch,
     FileStep, Upload, RemoveFile, ScanStarts, ScanEnds, vars
<1> QED
  BY <1>4, <1>8, <1>9, <1>10, <1>11, <1>12, <1>13 DEF Next, CascadeStep

LEMMA OneWithdrawsStep ==
  ASSUME IInv, OneWithdraws, [Next]_vars
  PROVE  OneWithdraws'
<1>1. \A r \in Requests : Withdrawing(r) => req[r].sub \in Submissions
  BY DEF IInv, TypeOK, Withdrawing, Points
<1>2. \A r \in Requests : Withdrawing(r) => status'[req[r].sub] = "WITHDRAWN"
  BY <1>1, FinalStep DEF OneWithdraws, Terminal
<1>3. \A r \in Requests : Withdrawing(r)' =>
        \/ req'[r] = req[r] /\ Withdrawing(r)
        \/ \E t \in Submissions : Takes(r, t)
        \/ Logs(r) /\ Withdrawing(r) /\ req'[r].sub = req[r].sub
  BY RequestsOf DEF Withdrawing, Logs, RowLogged
<1>4. \A r \in Requests : Withdrawing(r)' => status'[req'[r].sub] = "WITHDRAWN"
  BY <1>2, <1>3 DEF Takes, RowWithdrawn
<1>5. ASSUME NEW q \in Requests, NEW r \in Requests, q # r,
             Withdrawing(q)', Withdrawing(r)', req'[q].sub = req'[r].sub
      PROVE  FALSE
  <2>1. ASSUME NEW p \in Requests, NEW o \in Requests, p # o, NEW t \in Submissions,
               Takes(p, t), Withdrawing(o)', req'[o].sub = t
        PROVE  FALSE
    <3>1. req'[o] = req[o] /\ status[t] \in Active
      BY <2>1 DEF Takes, RowWithdrawn
    <3>2. status[t] = "WITHDRAWN"
      BY <2>1, <3>1 DEF OneWithdraws, Withdrawing
    <3> QED  BY <3>1, <3>2 DEF Active
  <2>2. Withdrawing(q) /\ req'[q].sub = req[q].sub
    BY <1>3, <1>5, <2>1 DEF Takes
  <2>3. Withdrawing(r) /\ req'[r].sub = req[r].sub
    BY <1>3, <1>5, <2>1 DEF Takes
  <2> QED  BY <1>5, <2>2, <2>3 DEF OneWithdraws
<1> QED  BY <1>4, <1>5 DEF OneWithdraws

-----------------------------------------------------------------------------
(* No event without its row                                                *)

LEMMA MultiplicityType ==
  ASSUME SubmissionAssumption
  PROVE  Multiplicities \subseteq Nat
<1> SUFFICES ASSUME NEW ids \in Batches, NEW s \in Submissions
             PROVE  BatchTimes(ids, s) \in Nat
  BY DEF Multiplicities
<1>1. ids \in Seq(Submissions)
  BY DEF SubmissionAssumption
<1>2. DOMAIN ids = 1..Len(ids) /\ Len(ids) \in Nat
  BY <1>1
<1>3. IsFiniteSet(1..Len(ids))
  BY <1>2, FS_Interval
<1>4. IsFiniteSet({i \in DOMAIN ids : ids[i] = s})
  BY <1>2, <1>3, FS_Subset
<1> QED  BY <1>4, FS_CardinalityType DEF BatchTimes

(* n copies of a row raise the count of its status by n and no other.      *)
LEMMA ReachedAgain ==
  ASSUME NEW h \in Seq(Entries), NEW e \in Entries, NEW n \in Nat, NEW k
  PROVE  /\ TimesReached(h, k) \in Nat
         /\ TimesReached(h \o Copies(e, n), k)
              = TimesReached(h, k) + (IF e.to = k THEN n ELSE 0)
<1> DEFINE g == h \o Copies(e, n)
           old == {i \in DOMAIN h : h[i].to = k}
           new == {i \in DOMAIN g : g[i].to = k}
           more == (Len(h) + 1)..(Len(h) + n)
<1>1. /\ Copies(e, n) \in Seq(Entries) /\ Len(Copies(e, n)) = n
      /\ \A i \in 1..n : Copies(e, n)[i] = e
  BY DEF Copies
<1>2. Len(h) \in Nat /\ DOMAIN h = 1..Len(h)
  OBVIOUS
<1> HIDE DEF Copies
<1>3. /\ g \in Seq(Entries) /\ Len(g) = Len(h) + n
      /\ \A i \in 1..Len(h) : g[i] = h[i]
      /\ \A i \in more : g[i] = e
  <2>1. \A i \in more : i - Len(h) \in 1..n /\ g[i] = Copies(e, n)[i - Len(h)]
    BY <1>1, <1>2, ConcatProperties
  <2> QED  BY <1>1, <1>2, <2>1, ConcatProperties
<1>4. DOMAIN g = (1..Len(h)) \cup more
  BY <1>2, <1>3
<1>5. IsFiniteSet(1..Len(h)) /\ IsFiniteSet(more) /\ Cardinality(more) = n
  <2>1. IsFiniteSet(1..Len(h)) /\ IsFiniteSet(more)
    BY <1>2, FS_Interval
  <2>2. \A a, b \in Int :
          Cardinality(a..b) = IF a > b THEN 0 ELSE b - a + 1
    BY FS_Interval
  <2>3. Len(h) + 1 \in Int /\ Len(h) + n \in Int
    BY <1>2
  <2> QED  BY <1>2, <2>1, <2>2, <2>3
<1>6. IsFiniteSet(old) /\ Cardinality(old) \in Nat
  BY <1>2, <1>5, FS_Subset, FS_CardinalityType
<1> HIDE DEF g
<1>7. CASE e.to = k
  <2>1. new = old \cup more
    BY <1>2, <1>3, <1>4, <1>7
  <2>2. old \cap more = {}
    BY <1>2
  <2>3. Cardinality(new) = Cardinality(old) + n
    <3>1. Cardinality(old \cup more)
            = Cardinality(old) + Cardinality(more) - Cardinality(old \cap more)
      BY <1>5, <1>6, FS_Union
    <3>2. Cardinality(old \cap more) = 0
      BY <2>2, FS_EmptySet
    <3> HIDE DEF old, more, new
    <3> QED  BY <1>5, <1>6, <2>1, <3>1, <3>2
  <2>4. TimesReached(h, k) = Cardinality(old)
        /\ TimesReached(h \o Copies(e, n), k) = Cardinality(new)
    BY DEF TimesReached, g
  <2> HIDE DEF old, new
  <2> QED  BY <1>6, <1>7, <2>3, <2>4
<1>8. CASE e.to # k
  <2>1. new = old
    BY <1>2, <1>3, <1>4, <1>8
  <2>2. TimesReached(h, k) = Cardinality(old)
        /\ TimesReached(h \o Copies(e, n), k) = Cardinality(new)
    BY DEF TimesReached, g
  <2> HIDE DEF old, new
  <2> QED  BY <1>6, <1>8, <2>1, <2>2
<1> QED  BY <1>7, <1>8

LEMMA ReachedInNone ==
  ASSUME NEW k
  PROVE  TimesReached(<<>>, k) = 0
<1>1. {i \in DOMAIN <<>> : <<>>[i].to = k} = {}
  OBVIOUS
<1> QED  BY <1>1, FS_EmptySet DEF TimesReached

(* A row that nobody has submitted yet has no event, and before it exists  *)
(* no history.                                                             *)
Unborn == \A s \in Submissions : status[s] = None => history[s] = <<>>

Untold == \A s \in Submissions : status[s] \in {None, "DRAFT"} => events[s] = NoEvents

(* A cascade that has written the row has yet to enqueue its event.        *)
Owing ==
  \A r \in Requests : req[r].pc = "announce" =>
    events[req[r].sub]["WITHDRAWN"] < TimesReached(history[req[r].sub], "WITHDRAWN")

ToldInv ==
  /\ IInv /\ OneWithdraws /\ Unborn /\ Untold /\ Owing
  /\ NothingAnnouncedUnrecorded

LEMMA UntoldStep ==
  ASSUME IInv, OneWithdraws, Unborn, Untold, [Next]_vars
  PROVE  Unborn' /\ Untold'
<1> SUFFICES ASSUME NEW s \in Submissions
             PROVE  /\ status'[s] = None => history'[s] = <<>>
                    /\ status'[s] \in {None, "DRAFT"} => events'[s] = NoEvents
  BY DEF Unborn, Untold
<1>1. CASE RowStays(s)
  BY <1>1 DEF RowStays, Unborn, Untold
<1>2. CASE RowBegins(s)
  BY <1>2, StatusFacts DEF RowBegins, Unborn, Untold, Imported, None
<1>3. CASE RowGoes(s)
  BY <1>3 DEF RowGoes, None
<1>4. ASSUME NEW to, NEW n, RowMoves(s, to, n)
      PROVE  status'[s] \notin {None, "DRAFT"}
  BY <1>4, NeverBackToDraft DEF RowMoves
<1>5. CASE RowWithdrawn(s)
  BY <1>5 DEF RowWithdrawn, None
<1>6. ASSUME NEW r \in Requests, RowLogged(s, r) \/ RowTold(s, r)
      PROVE  status'[s] = "WITHDRAWN"
  BY <1>6 DEF RowLogged, RowTold, OneWithdraws, Withdrawing
<1>7. RowSteps(s)
  BY Shape
<1>8. CASE \E to \in Statuses, n \in Multiplicities : RowMoves(s, to, n)
  BY <1>4, <1>8
<1>9. CASE \E r \in Requests : RowLogged(s, r) \/ RowTold(s, r)
  BY <1>6, <1>9 DEF None
<1> QED  BY <1>1, <1>2, <1>3, <1>5, <1>7, <1>8, <1>9 DEF RowSteps

(* The two rows of a submission from an embedding site report it once.     *)
LEMMA ReachedFromEmbed ==
  ASSUME NEW k \in Announced
  PROVE  TimesReached(<<Entry(None, "DRAFT"), Entry("DRAFT", "SUBMITTED")>>, k)
           = IF k = "SUBMITTED" THEN 1 ELSE 0
<1> DEFINE h == <<Entry(None, "DRAFT"), Entry("DRAFT", "SUBMITTED")>>
           S == {i \in DOMAIN h : h[i].to = k}
<1>1. DOMAIN h = {1, 2} /\ h[1].to = "DRAFT" /\ h[2].to = "SUBMITTED"
  BY DEF Entry
<1> HIDE DEF h
<1>2. CASE k = "SUBMITTED"
  <2>1. S = {2}
    BY <1>1, <1>2
  <2>2. Cardinality(S) = 1
    BY <2>1, FS_Singleton
  <2> QED  BY <1>2, <2>2 DEF TimesReached, h
<1>3. CASE k # "SUBMITTED"
  <2>1. k # "DRAFT"
    BY DEF Announced
  <2>2. S = {}
    BY <1>1, <1>3, <2>1
  <2>3. Cardinality(S) = 0
    BY <2>2, FS_EmptySet
  <2> QED  BY <1>3, <2>3 DEF TimesReached, h
<1> QED  BY <1>2, <1>3

(* Counting rows that are appended.                                        *)
LEMMA ReachedByMove ==
  ASSUME NEW h \in Seq(Entries), NEW from \in Statuses, NEW to \in Statuses,
         NEW n \in Nat, NEW k
  PROVE  /\ TimesReached(h, k) \in Nat
         /\ TimesReached(h \o Copies(Entry(from, to), n), k)
              = TimesReached(h, k) + (IF to = k THEN n ELSE 0)
<1>1. Entry(from, to) \in Entries /\ Entry(from, to).to = to
  BY EntryType DEF Entry
<1> HIDE DEF Entry
<1> QED  BY <1>1, ReachedAgain

LEMMA RecordedStep ==
  ASSUME ToldInv, [Next]_vars
  PROVE  NothingAnnouncedUnrecorded'
<1> USE SubmissionAssumption DEF ToldInv
<1> SUFFICES ASSUME NEW s \in Submissions, NEW k \in Announced
             PROVE  events'[s][k] <= TimesReached(history'[s], k)
  BY DEF NothingAnnouncedUnrecorded
<1>1. /\ history[s] \in Seq(Entries) /\ history'[s] \in Seq(Entries)
      /\ events[s] \in [Announced -> Nat]
  BY StepInv DEF IInv, TypeOK
<1>2. TimesReached(history[s], k) \in Nat /\ TimesReached(history'[s], k) \in Nat
  <2>1. Entry("DRAFT", "DRAFT") \in Entries
    BY EntryType, StatusFacts
  <2> QED  BY <1>1, <2>1, ReachedAgain
<1>3. events[s][k] <= TimesReached(history[s], k) /\ events[s][k] \in Nat
  BY <1>1 DEF NothingAnnouncedUnrecorded
<1>4. CASE RowStays(s) \/ RowWithdrawn(s)
  BY <1>3, <1>4 DEF RowStays, RowWithdrawn
<1>5. CASE RowBegins(s)
  <2>1. events[s] = NoEvents
    BY <1>5 DEF RowBegins, Untold
  <2>2. CASE events'[s] = events[s]
    BY <1>2, <2>1, <2>2 DEF NoEvents
  <2>3. CASE /\ history'[s] = <<Entry(None, "DRAFT"), Entry("DRAFT", "SUBMITTED")>>
             /\ events'[s] = Announce(events[s], "SUBMITTED", 1)
    <3>1. events'[s][k] = IF k = "SUBMITTED" THEN 1 ELSE 0
      BY <2>1, <2>3 DEF Announce, NoEvents
    <3> QED  BY <2>3, <3>1, ReachedFromEmbed
  <2> QED  BY <1>5, <2>2, <2>3 DEF RowBegins
<1>6. CASE RowGoes(s)
  <2>1. events'[s][k] = 0
    BY <1>6 DEF RowGoes, Untold, NoEvents
  <2> QED  BY <1>2, <2>1
<1>7. ASSUME NEW to \in Statuses, NEW n \in Multiplicities, RowMoves(s, to, n)
      PROVE  events'[s][k] <= TimesReached(history'[s], k)
  <2>1. n \in Nat
    BY MultiplicityType
  <2>2. status[s] \in Statuses
    BY <1>7, ValidFacts DEF RowMoves
  <2>3. events'[s][k] = events[s][k] + (IF to = k THEN n ELSE 0)
    BY <1>1, <1>7, <2>1 DEF RowMoves, Announce
  <2>4. TimesReached(history'[s], k)
          = TimesReached(history[s], k) + (IF to = k THEN n ELSE 0)
    <3>1. history'[s] = history[s] \o Copies(Entry(status[s], to), n)
      BY <1>7 DEF RowMoves
    <3>2. TimesReached(history[s] \o Copies(Entry(status[s], to), n), k)
            = TimesReached(history[s], k) + (IF to = k THEN n ELSE 0)
      <4> HIDE DEF ToldInv
      <4> QED  BY <1>1, <2>1, <2>2, ReachedByMove
    <3> QED  BY <3>1, <3>2
  <2> QED  BY <1>2, <1>3, <2>1, <2>3, <2>4
<1>8. ASSUME NEW r \in Requests, RowLogged(s, r)
      PROVE  events'[s][k] <= TimesReached(history'[s], k)
  <2>1. PICK from \in Statuses :
          history'[s] = history[s] \o Copies(Entry(from, "WITHDRAWN"), 1)
    BY <1>8 DEF RowLogged
  <2>2. TimesReached(history'[s], k)
          = TimesReached(history[s], k) + (IF "WITHDRAWN" = k THEN 1 ELSE 0)
    <3>1. "WITHDRAWN" \in Statuses /\ 1 \in Nat
      BY StatusFacts
    <3>2. TimesReached(history[s] \o Copies(Entry(from, "WITHDRAWN"), 1), k)
            = TimesReached(history[s], k) + (IF "WITHDRAWN" = k THEN 1 ELSE 0)
      <4> HIDE DEF ToldInv
      <4> QED  BY <1>1, <3>1, ReachedByMove
    <3> QED  BY <2>1, <3>2
  <2>3. events'[s] = events[s]
    BY <1>8 DEF RowLogged
  <2> QED  BY <1>2, <1>3, <2>2, <2>3
<1>9. ASSUME NEW r \in Requests, RowTold(s, r)
      PROVE  events'[s][k] <= TimesReached(history'[s], k)
  <2>1. events[s]["WITHDRAWN"] < TimesReached(history[s], "WITHDRAWN")
    BY <1>9 DEF RowTold, Owing
  <2>2. events'[s][k] = events[s][k] + (IF "WITHDRAWN" = k THEN 1 ELSE 0)
        /\ history'[s] = history[s]
    BY <1>1, <1>9 DEF RowTold, Announce
  <2> QED  BY <1>2, <1>3, <2>1, <2>2
<1>10. RowSteps(s)
  BY Shape
<1> QED  BY <1>4, <1>5, <1>6, <1>7, <1>8, <1>9, <1>10 DEF RowSteps

(* A cascade that owes an event has the row to itself until it pays.       *)
LEMMA OwingStep ==
  ASSUME ToldInv, [Next]_vars
  PROVE  Owing'
<1> USE SubmissionAssumption DEF ToldInv
<1> SUFFICES ASSUME NEW r \in Requests, req'[r].pc = "announce"
             PROVE  events'[req'[r].sub]["WITHDRAWN"]
                      < TimesReached(history'[req'[r].sub], "WITHDRAWN")
  BY DEF Owing
<1>1. CASE req'[r] = req[r]
  <2> DEFINE t == req[r].sub
  <2>1. t \in Submissions /\ status[t] = "WITHDRAWN" /\ req[r].pc = "announce"
    BY <1>1 DEF OneWithdraws, Withdrawing, IInv, TypeOK, Points
  <2>2. ~ RowBegins(t) /\ ~ RowGoes(t) /\ ~ RowWithdrawn(t)
    BY <2>1 DEF RowBegins, RowGoes, RowWithdrawn, Active, None
  <2>3. \A to, n : ~ RowMoves(t, to, n)
    BY <2>1 DEF RowMoves, ValidFrom
  <2>4. ASSUME NEW q \in Requests, RowLogged(t, q) \/ RowTold(t, q) PROVE FALSE
    <3>1. q = r
      BY <2>1, <2>4 DEF RowLogged, RowTold, OneWithdraws, Withdrawing
    <3> QED  BY <1>1, <2>1, <2>4, <3>1 DEF RowLogged, RowTold
  <2>5. RowStays(t)
    BY <2>1, <2>2, <2>3, <2>4, Shape DEF RowSteps
  <2> QED  BY <1>1, <2>1, <2>5 DEF RowStays, Owing
<1>2. ASSUME NEW t \in Submissions, Takes(r, t) PROVE FALSE
  BY <1>2 DEF Takes
<1>3. CASE Logs(r)
  <2> DEFINE t == req[r].sub
  <2>1. t \in Submissions /\ req'[r].sub = t /\ events'[t] = events[t]
    BY <1>3 DEF Logs, RowLogged, IInv, TypeOK, Points
  <2>2. PICK from \in Statuses :
          history'[t] = history[t] \o Copies(Entry(from, "WITHDRAWN"), 1)
    BY <1>3 DEF Logs, RowLogged
  <2> HIDE DEF t
  <2>3. /\ TimesReached(history[t], "WITHDRAWN") \in Nat
        /\ TimesReached(history'[t], "WITHDRAWN")
             = TimesReached(history[t], "WITHDRAWN") + 1
    <3>1. "WITHDRAWN" \in Statuses /\ 1 \in Nat
      BY StatusFacts
    <3>2. history[t] \in Seq(Entries)
      BY <2>1 DEF IInv, TypeOK
    <3>3. TimesReached(history[t] \o Copies(Entry(from, "WITHDRAWN"), 1), "WITHDRAWN")
            = TimesReached(history[t], "WITHDRAWN") + 1
          /\ TimesReached(history[t], "WITHDRAWN") \in Nat
      <4> HIDE DEF ToldInv
      <4> QED  BY <3>1, <3>2, ReachedByMove
    <3> QED  BY <2>2, <3>3
  <2>4. "WITHDRAWN" \in Announced
    BY DEF Announced
  <2>5. events[t]["WITHDRAWN"] <= TimesReached(history[t], "WITHDRAWN")
        /\ events[t]["WITHDRAWN"] \in Nat
    BY <2>1, <2>4 DEF NothingAnnouncedUnrecorded, IInv, TypeOK
  <2> QED  BY <2>1, <2>3, <2>5
<1> QED  BY <1>1, <1>2, <1>3, RequestsOf DEF Withdrawing

LEMMA ToldInit == Init => ToldInv
<1> SUFFICES ASSUME Init PROVE ToldInv
  OBVIOUS
<1>1. IInv
  BY InitInv
<1>2. \A r \in Requests : req[r].pc = "idle"
  BY DEF Init, Idle, Req
<1>3. OneWithdraws /\ Owing
  BY <1>2 DEF OneWithdraws, Withdrawing, Owing
<1>4. Unborn /\ Untold
  BY DEF Init, Unborn, Untold
<1>5. NothingAnnouncedUnrecorded
  BY ReachedInNone DEF Init, NothingAnnouncedUnrecorded, NoEvents
<1> QED  BY <1>1, <1>3, <1>4, <1>5 DEF ToldInv

LEMMA ToldStep == ToldInv /\ [Next]_vars => ToldInv'
<1> SUFFICES ASSUME ToldInv, [Next]_vars PROVE ToldInv'
  OBVIOUS
<1>1. IInv' /\ OneWithdraws'
  BY StepInv, OneWithdrawsStep DEF ToldInv
<1>2. Unborn' /\ Untold'
  BY UntoldStep DEF ToldInv
<1> QED  BY <1>1, <1>2, OwingStep, RecordedStep DEF ToldInv

(* No event about a submission leaves the outbox without the history row   *)
(* it reports, though a cascade writes the two in statements of their own  *)
(* and may stop in between, and others may be withdrawing the same rows    *)
(* (submission.service.ts: withdrawCascadeAsOwner).                        *)
THEOREM NothingToldUnrecorded == Spec => []NothingAnnouncedUnrecorded
<1>1. ToldInv => NothingAnnouncedUnrecorded
  BY DEF ToldInv
<1> QED  BY <1>1, ToldInit, ToldStep, PTL DEF Spec

-----------------------------------------------------------------------------
(* One decision                                                            *)

Undecided(h) == \A i \in DOMAIN h : h[i].to \notin Terminal

DecidedOnce(h) ==
  \A i, j \in DOMAIN h : h[i].to \in Terminal /\ h[j].to \in Terminal => i = j

(* The history of a submission holds no decision before its status does,   *)
(* nor before the cascade that withdrew it writes the row.                 *)
Decided ==
  \A s \in Submissions :
    /\ DecidedOnce(history[s])
    /\ status[s] \notin Terminal => Undecided(history[s])
    /\ \A r \in Requests :
         req[r].pc = "log" /\ req[r].sub = s => Undecided(history[s])

DecidedInv == IInv /\ OneWithdraws /\ Unborn /\ Untold /\ Decided

NoRepeats == \A ids \in Batches : \A i, j \in DOMAIN ids : ids[i] = ids[j] => i = j

LEMMA OnceOrNever ==
  ASSUME NoRepeats
  PROVE  Multiplicities \subseteq {0, 1}
<1> SUFFICES ASSUME NEW ids \in Batches, NEW s \in Submissions
             PROVE  BatchTimes(ids, s) \in {0, 1}
  BY DEF Multiplicities
<1> DEFINE S == {i \in DOMAIN ids : ids[i] = s}
<1>1. CASE S = {}
  BY <1>1, FS_EmptySet DEF BatchTimes
<1>2. CASE S # {}
  <2>1. PICK i \in S : TRUE
    BY <1>2
  <2>2. S = {i}
    BY <2>1 DEF NoRepeats
  <2>3. Cardinality(S) = 1
    BY <2>2, FS_Singleton
  <2> QED  BY <2>3 DEF BatchTimes
<1> QED  BY <1>1, <1>2

LEMMA DecideByMove ==
  ASSUME NEW h \in Seq(Entries), NEW from \in Statuses, NEW to \in Statuses,
         NEW n \in {0, 1}, Undecided(h)
  PROVE  /\ DecidedOnce(h \o Copies(Entry(from, to), n))
         /\ to \notin Terminal => Undecided(h \o Copies(Entry(from, to), n))
<1> DEFINE e == Entry(from, to)
           g == h \o Copies(e, n)
<1>1. e \in Entries /\ e.to = to
  BY EntryType DEF Entry
<1> HIDE DEF e
<1>2. /\ Copies(e, n) \in Seq(Entries) /\ Len(Copies(e, n)) = n
      /\ \A i \in 1..n : Copies(e, n)[i] = e
  BY <1>1 DEF Copies
<1>3. /\ g \in Seq(Entries) /\ Len(g) = Len(h) + n
      /\ \A i \in 1..Len(h) : g[i] = h[i]
      /\ \A i \in (Len(h) + 1)..(Len(h) + n) : g[i] = e
  <2>1. Len(h) \in Nat
    OBVIOUS
  <2>2. \A i \in (Len(h) + 1)..(Len(h) + n) :
          i - Len(h) \in 1..n /\ g[i] = Copies(e, n)[i - Len(h)]
    BY <1>2, <2>1, ConcatProperties
  <2> HIDE DEF Copies
  <2> QED  BY <1>2, <2>1, <2>2, ConcatProperties
<1> HIDE DEF g
<1>4. \A i \in DOMAIN g : g[i].to \in Terminal => i = Len(h) + 1 /\ to \in Terminal
  BY <1>1, <1>3 DEF Undecided
<1>5. DecidedOnce(g)
  BY <1>4 DEF DecidedOnce
<1>6. to \notin Terminal => Undecided(g)
  BY <1>4 DEF Undecided
<1> QED  BY <1>5, <1>6 DEF g, e

LEMMA DraftsUndecided ==
  /\ Undecided(<<>>)
  /\ Undecided(<<Entry(None, "DRAFT")>>)
  /\ Undecided(<<Entry(None, "DRAFT"), Entry("DRAFT", "SUBMITTED")>>)
  BY DEF Undecided, Entry, Terminal

LEMMA UndecidedOnce ==
  ASSUME NEW h, Undecided(h)
  PROVE  DecidedOnce(h)
  BY DEF Undecided, DecidedOnce

(* A row that waits for its log entry keeps the history it had.            *)
LEMMA LogWaits ==
  ASSUME IInv, OneWithdraws, [Next]_vars, NEW s \in Submissions, NEW r \in Requests,
         req'[r].pc = "log", req'[r].sub = s
  PROVE  /\ history'[s] = history[s]
         /\ status[s] \in Active \/ (req[r].pc = "log" /\ req[r].sub = s)
<1>1. CASE req'[r] = req[r]
  <2>1. status[s] = "WITHDRAWN"
    BY <1>1 DEF OneWithdraws, Withdrawing
  <2>2. ~ RowBegins(s) /\ ~ RowGoes(s)
    BY <2>1 DEF RowBegins, RowGoes, None
  <2>3. \A to, n : ~ RowMoves(s, to, n)
    BY <2>1 DEF RowMoves, ValidFrom
  <2>4. ASSUME NEW q \in Requests, RowLogged(s, q) \/ RowTold(s, q) PROVE FALSE
    <3>1. q = r
      BY <1>1, <2>4 DEF RowLogged, RowTold, OneWithdraws, Withdrawing
    <3> QED  BY <1>1, <2>4, <3>1 DEF RowLogged, RowTold
  <2>5. RowStays(s) \/ RowWithdrawn(s)
    BY <2>2, <2>3, <2>4, Shape DEF RowSteps
  <2> QED  BY <1>1, <2>5 DEF RowStays, RowWithdrawn
<1>2. ASSUME NEW t \in Submissions, Takes(r, t)
      PROVE  history'[s] = history[s] /\ status[s] \in Active
  <2>1. t = s
    BY <1>2 DEF Takes
  <2> QED  BY <1>2, <2>1 DEF Takes, RowWithdrawn
<1>3. ~ Logs(r)
  BY DEF Logs, RowLogged
<1>4. req'[r] = req[r] \/ \E t \in Submissions : Takes(r, t)
  <2>1. Withdrawing(r)'
    BY DEF Withdrawing
  <2> QED  BY <1>3, <2>1, RequestsOf
<1> QED  BY <1>1, <1>2, <1>4

LEMMA DecidedStep ==
  ASSUME NoRepeats, DecidedInv, [Next]_vars
  PROVE  Decided'
<1> USE DEF DecidedInv
<1> SUFFICES ASSUME NEW s \in Submissions
             PROVE  /\ DecidedOnce(history'[s])
                    /\ status'[s] \notin Terminal => Undecided(history'[s])
  <2>1. ASSUME NEW s \in Submissions, NEW r \in Requests,
               req'[r].pc = "log", req'[r].sub = s
        PROVE  Undecided(history'[s])
    BY <2>1, LogWaits, StatusFacts DEF Decided
  <2> QED  BY <2>1 DEF Decided
<1>1. history[s] \in Seq(Entries)
  BY DEF IInv, TypeOK
<1>2. /\ DecidedOnce(history[s])
      /\ status[s] \notin Terminal => Undecided(history[s])
  BY DEF Decided
<1>3. CASE RowStays(s)
  BY <1>2, <1>3 DEF RowStays
<1>4. CASE RowBegins(s)
  <2>1. Undecided(history'[s])
    BY <1>4, DraftsUndecided DEF RowBegins, Unborn
  <2> QED  BY <2>1, UndecidedOnce
<1>5. CASE RowGoes(s)
  BY <1>5, DraftsUndecided, UndecidedOnce DEF RowGoes
<1>6. CASE RowWithdrawn(s)
  BY <1>2, <1>6 DEF RowWithdrawn, Terminal
<1>7. ASSUME NEW to \in Statuses, NEW n \in Multiplicities, RowMoves(s, to, n)
      PROVE  /\ DecidedOnce(history'[s])
             /\ status'[s] \notin Terminal => Undecided(history'[s])
  <2>1. n \in {0, 1}
    BY OnceOrNever
  <2>2. status[s] \in Statuses \ Terminal
    BY <1>7, ValidFacts DEF RowMoves
  <2>3. Undecided(history[s])
    BY <1>2, <2>2
  <2>4. /\ status'[s] = to
        /\ history'[s] = history[s] \o Copies(Entry(status[s], to), n)
    BY <1>7 DEF RowMoves
  <2> HIDE DEF DecidedInv
  <2> QED  BY <1>1, <2>1, <2>2, <2>3, <2>4, DecideByMove
<1>8. ASSUME NEW r \in Requests, RowLogged(s, r)
      PROVE  /\ DecidedOnce(history'[s])
             /\ status'[s] \notin Terminal => Undecided(history'[s])
  <2>1. status'[s] = "WITHDRAWN"
    BY <1>8 DEF RowLogged, OneWithdraws, Withdrawing
  <2>2. PICK from \in Statuses :
          history'[s] = history[s] \o Copies(Entry(from, "WITHDRAWN"), 1)
    BY <1>8 DEF RowLogged
  <2>3. Undecided(history[s])
    BY <1>8 DEF RowLogged, Decided
  <2>4. "WITHDRAWN" \in Statuses \cap Terminal
    BY DEF Terminal, Statuses
  <2> HIDE DEF DecidedInv
  <2> QED  BY <1>1, <2>1, <2>2, <2>3, <2>4, DecideByMove
<1>9. ASSUME NEW r \in Requests, RowTold(s, r)
      PROVE  /\ DecidedOnce(history'[s])
             /\ status'[s] \notin Terminal => Undecided(history'[s])
  BY <1>2, <1>9 DEF RowTold
<1>10. RowSteps(s)
  BY Shape
<1> QED  BY <1>3, <1>4, <1>5, <1>6, <1>7, <1>8, <1>9, <1>10 DEF RowSteps

LEMMA DecidedInvariant ==
  ASSUME NoRepeats
  PROVE  /\ Init => DecidedInv
         /\ DecidedInv /\ [Next]_vars => DecidedInv'
<1>1. ASSUME Init PROVE DecidedInv
  <2>1. IInv /\ OneWithdraws /\ Unborn /\ Untold
    BY <1>1, ToldInit DEF ToldInv
  <2>2. \A r \in Requests : req[r].pc = "idle"
    BY <1>1 DEF Init, Idle, Req
  <2>3. Decided
    BY <1>1, <2>2, DraftsUndecided, UndecidedOnce DEF Init, Decided
  <2> QED  BY <2>1, <2>3 DEF DecidedInv
<1>2. ASSUME DecidedInv, [Next]_vars PROVE DecidedInv'
  BY <1>2, StepInv, OneWithdrawsStep, UntoldStep, DecidedStep DEF DecidedInv
<1> QED  BY <1>1, <1>2

(* Where no batch names a submission twice, a submission is decided once,  *)
(* however editors, the writer, resubmissions and cascades race for it     *)
(* (submission.service.ts: updateStatus, withdrawCascadeAsOwner).          *)
THEOREM DecidedAtMostOnce ==
  ASSUME \A ids \in Batches : \A i, j \in DOMAIN ids : ids[i] = ids[j] => i = j
  PROVE  Spec => []OneDecision
<1>1. NoRepeats
  BY DEF NoRepeats
<1>2. DecidedInv => OneDecision
  <2> SUFFICES ASSUME DecidedInv, NEW s \in Submissions
               PROVE  Cardinality({i \in DOMAIN history[s] :
                                     history[s][i].to \in Terminal}) <= 1
    BY DEF OneDecision
  <2> DEFINE D == {i \in DOMAIN history[s] : history[s][i].to \in Terminal}
  <2>1. CASE D = {}
    BY <2>1, FS_EmptySet
  <2>2. CASE D # {}
    <3>1. PICK i \in D : TRUE
      BY <2>2
    <3>2. D = {i}
      BY <3>1 DEF DecidedInv, Decided, DecidedOnce
    <3>3. Cardinality(D) = 1
      BY <3>2, FS_Singleton
    <3> QED  BY <3>3
  <2> QED  BY <2>1, <2>2
<1> QED  BY <1>1, <1>2, DecidedInvariant, PTL DEF Spec

-----------------------------------------------------------------------------
(* Histories are paths                                                     *)

Ends(h, to) == h = <<>> \/ h[Len(h)].to = to

(* The last row of a history names the status, or a cascade owes the row.  *)
HistoryCurrent == \A s \in Submissions : Ends(history[s], status[s]) \/ Owed(s)

(* The last row of a history is no decision.                               *)
StillOpen(h) == h = <<>> \/ h[Len(h)].to \notin Terminal

(* So it is while the row of a withdrawal is outstanding.                  *)
Pending ==
  \A r \in Requests : req[r].pc = "log" => StillOpen(history[req[r].sub])

(* A request that withdraws siblings may, and found them active.           *)
Cascading(pc) == pc \in {"withdraw", "log", "announce"}

Looked ==
  \A r \in Requests : Cascading(req[r].pc) =>
    r \in Cascades /\ \A t \in Submissions : req[r].seen[t] \in Active \cup {None}

Joined == \A s \in Submissions : \A i \in 1..(Len(history[s]) - 1) : Follows(history[s], i)

CurrentInv ==
  /\ IInv /\ OneWithdraws /\ Unborn /\ Untold
  /\ HistoryCurrent /\ Pending /\ Looked /\ Joined

(* History g is h with n more rows e.                                      *)
Extends(g, h, e, n) ==
  /\ g \in Seq(Entries) /\ Len(h) \in Nat /\ Len(g) = Len(h) + n
  /\ \A i \in 1..Len(h) : g[i] = h[i]
  /\ \A i \in (Len(h) + 1)..(Len(h) + n) : g[i] = e

LEMMA Copied ==
  ASSUME NEW h \in Seq(Entries), NEW e \in Entries, NEW n \in Nat
  PROVE  Extends(h \o Copies(e, n), h, e, n)
<1> DEFINE g == h \o Copies(e, n)
<1>1. /\ Copies(e, n) \in Seq(Entries) /\ Len(Copies(e, n)) = n
      /\ \A i \in 1..n : Copies(e, n)[i] = e
  BY DEF Copies
<1>2. Len(h) \in Nat
  OBVIOUS
<1> HIDE DEF Copies
<1>3. \A i \in (Len(h) + 1)..(Len(h) + n) :
        i - Len(h) \in 1..n /\ g[i] = Copies(e, n)[i - Len(h)]
  BY <1>1, <1>2, ConcatProperties
<1>4. /\ g \in Seq(Entries) /\ Len(g) = Len(h) + n
      /\ \A i \in 1..Len(h) : g[i] = h[i]
  BY <1>1, <1>2, ConcatProperties
<1>5. \A i \in (Len(h) + 1)..(Len(h) + n) : g[i] = e
  BY <1>1, <1>3
<1> HIDE DEF g
<1>6. Extends(g, h, e, n)
  BY <1>2, <1>4, <1>5 DEF Extends
<1> QED  BY <1>6 DEF g

LEMMA LastCopy ==
  ASSUME NEW h \in Seq(Entries), NEW e \in Entries, NEW n \in Nat, n # 0
  PROVE  Ends(h \o Copies(e, n), e.to)
<1> DEFINE g == h \o Copies(e, n)
<1>1. Extends(g, h, e, n)
  BY Copied
<1> HIDE DEF g
<1>2. g[Len(g)] = e
  BY <1>1 DEF Extends
<1> QED  BY <1>2 DEF Ends, g

(* Rows that follow the last one of an open history keep it a path.        *)
LEMMA RowsFollow ==
  ASSUME NEW h \in Seq(Entries), NEW e \in Entries, NEW n \in Nat, n # 0,
         StillOpen(h), \A i \in 1..(Len(h) - 1) : Follows(h, i),
         n = 1 \/ Repeating,
         \/ Ends(h, e.from)
         \/ n = 1 /\ Cascades # {} /\ e.from \in Active /\ e.to = "WITHDRAWN",
         NEW g, Extends(g, h, e, n)
  PROVE  \A i \in 1..(Len(g) - 1) : Follows(g, i)
<1> SUFFICES ASSUME NEW i \in 1..(Len(g) - 1) PROVE Follows(g, i)
  OBVIOUS
<1>1. /\ Len(h) \in Nat /\ Len(g) = Len(h) + n
      /\ \A j \in 1..Len(h) : g[j] = h[j]
      /\ \A j \in (Len(h) + 1)..(Len(h) + n) : g[j] = e
  BY DEF Extends
<1>2. CASE i < Len(h)
  <2>1. i \in 1..(Len(h) - 1) /\ i \in 1..Len(h) /\ i + 1 \in 1..Len(h)
    BY <1>1, <1>2
  <2>2. Follows(h, i)
    BY <2>1
  <2>3. i + 1 = Len(h) => h[i + 1].to \notin Terminal
    BY <1>1, <1>2 DEF StillOpen
  <2>4. \/ h[i + 1].from = h[i].to
        \/ Repeating /\ h[i + 1] = h[i]
    BY <2>2, <2>3 DEF Follows, Terminal
  <2>5. /\ g[i] = h[i] /\ g[i + 1] = h[i + 1]
    BY <1>1, <2>1
  <2> QED  BY <2>4, <2>5 DEF Follows
<1>3. CASE i = Len(h)
  <2>1. h # <<>> /\ g[i] = h[i] /\ g[i + 1] = e
    BY <1>1, <1>3
  <2>2. CASE Ends(h, e.from)
    BY <1>3, <2>1, <2>2 DEF Ends, Follows
  <2>3. CASE n = 1 /\ Cascades # {} /\ e.from \in Active /\ e.to = "WITHDRAWN"
    BY <1>1, <1>3, <2>1, <2>3 DEF Follows
  <2> QED  BY <2>2, <2>3
<1>4. CASE i > Len(h)
  <2>1. g[i] = e /\ g[i + 1] = e /\ n # 1
    BY <1>1, <1>4
  <2> QED  BY <2>1 DEF Follows
<1> QED  BY <1>1, <1>2, <1>3, <1>4

LEMMA MoreThanOnce ==
  ASSUME NEW n \in Multiplicities, n # 0
  PROVE  n = 1 \/ Repeating
<1>1. CASE NoRepeats
  BY <1>1, OnceOrNever
<1>2. CASE ~ NoRepeats
  BY <1>2 DEF NoRepeats, Repeating
<1> QED  BY <1>1, <1>2

(* A cascade that does not stop writes the row it owes.                    *)
LEMMA LogStays ==
  ASSUME IInv, [Next]_vars, NEW r \in Requests, req[r].pc = "log", ~ CrashAllowed
  PROVE  req'[r] = req[r] \/ RowLogged(req[r].sub, r)
<1> USE DEF IInv
<1>1. /\ status \in [Submissions -> Statuses \cup {None, "deleted"}]
      /\ history \in [Submissions -> Seq(Entries)]
      /\ req \in [Requests -> RequestRecords]
  BY DEF TypeOK
<1>2. Idle.pc = "idle"
  BY DEF Idle, Req
<1>3. CASE req' = req
  BY <1>3
<1>4. ASSUME NEW q \in Requests, NEW x, req' = [req EXCEPT ![q] = x], req[q].pc # "log"
      PROVE  req'[r] = req[r]
  BY <1>1, <1>4
<1>5. ASSUME NEW q \in Requests, RequestStep(q) PROVE req'[r] = req[r]
  <2>1. req[q].pc # "log"
    BY <1>2, <1>5 DEF RequestStep, SubmitChecks, SubmitCommits, EmbedChecks,
       EmbedCommits, ResubmitReads, ResubmitChecks, ResubmitCommits, Crash
  <2>2. \E x : req' = [req EXCEPT ![q] = x]
    <3>1. CASE Goto(q, "swap")
      <4>1. req' = [req EXCEPT ![q] = [req[q] EXCEPT !.pc = "swap"]]
        BY <1>1, <3>1 DEF Goto
      <4> QED  BY <4>1
    <3>2. CASE Finish(q)
      BY <3>2 DEF Finish
    <3>3. CASE \E pc, s, v, via, seen :
                 req' = [req EXCEPT ![q] = Req(pc, s, v, via, seen)]
      BY <3>3
    <3> QED
      BY <1>5, <3>1, <3>2, <3>3
         DEF RequestStep, SubmitChecks, SubmitCommits, EmbedChecks, EmbedCommits,
             ResubmitReads, ResubmitChecks, ResubmitCommits, Crash
  <2> QED  BY <1>4, <2>1, <2>2
<1>6. ASSUME NEW q \in Requests, NEW s \in Submissions, CascadeFinds(q, s)
      PROVE  req'[r] = req[r]
  <2>1. req[q].pc # "log" /\ \E x : req' = [req EXCEPT ![q] = x]
    BY <1>2, <1>6 DEF CascadeFinds
  <2> QED  BY <1>4, <2>1
<1>7. ASSUME NEW q \in Requests, NEW t, Forget(q, t), req[q].pc # "log"
      PROVE  req'[r] = req[r]
  BY <1>4, <1>7 DEF Forget
<1>8. ASSUME NEW q \in Requests, NEW t \in Submissions, CascadeWithdraws(q, t)
      PROVE  req'[r] = req[r]
  <2>1. req[q].pc = "withdraw"
    BY <1>8 DEF CascadeWithdraws
  <2>2. CASE req' = [req EXCEPT ![q].pc = "log", ![q].sub = t]
    BY <1>1, <2>1, <2>2
  <2> QED  BY <1>7, <1>8, <2>1, <2>2 DEF CascadeWithdraws
<1>9. ASSUME NEW q \in Requests, CascadeLogs(q), q # r PROVE req'[r] = req[r]
  BY <1>1, <1>9 DEF CascadeLogs, Goto
<1>10. ASSUME CascadeLogs(r) PROVE RowLogged(req[r].sub, r)
  <2> DEFINE t == req[r].sub
  <2>1. t \in Submissions /\ req[r].seen[t] \in Statuses
    BY <1>10 DEF CascadeLogs, TypeOK, Points
  <2>2. Entry(req[r].seen[t], "WITHDRAWN") \in Entries
    BY <2>1, EntryType, StatusFacts
  <2>3. history'[t] = history[t] \o Copies(Entry(req[r].seen[t], "WITHDRAWN"), 1)
    BY <1>1, <1>10, <2>1, <2>2, OneCopy DEF CascadeLogs
  <2>4. req'[r].pc = "announce" /\ req'[r].sub = t
    BY <1>1, <1>10 DEF CascadeLogs, Goto, RequestRecords
  <2> QED  BY <1>10, <2>1, <2>3, <2>4 DEF CascadeLogs, RowLogged
<1>11. ASSUME NEW q \in Requests, CascadeAnnounces(q) PROVE req'[r] = req[r]
  BY <1>7, <1>11 DEF CascadeAnnounces
<1>12. ASSUME RowStep \/ BatchStep \/ FileStep \/ UNCHANGED vars PROVE req' = req
  BY <1>12 DEF RowStep, Create, Import, Delete, Withdraw, EditorMove, BatchStep, Batch,
     FileStep, Upload, RemoveFile, ScanStarts, ScanEnds, vars
<1> QED
  BY <1>3, <1>5, <1>6, <1>8, <1>9, <1>10, <1>11, <1>12 DEF Next, CascadeStep

(* Only a request of Cascades looks for siblings, and it notes the active. *)
LEMMA LookedStep ==
  ASSUME IInv, Looked, [Next]_vars
  PROVE  Looked'
<1> DEFINE fine(q, x) == Cascading(x.pc) =>
             q \in Cascades /\ \A t \in Submissions : x.seen[t] \in Active \cup {None}
<1>1. req \in [Requests -> RequestRecords]
  BY DEF IInv, TypeOK
<1>2. /\ \A pc, s, v, via, seen : Req(pc, s, v, via, seen).pc = pc
      /\ \A pc, s, v, via, seen : Req(pc, s, v, via, seen).seen = seen
      /\ Idle.pc = "idle"
  BY DEF Req, Idle
<1>3. \A q \in Requests : fine(q, req[q])
  BY DEF Looked
<1>4. ASSUME NEW q \in Requests, NEW x, req' = [req EXCEPT ![q] = x], fine(q, x)
      PROVE  Looked'
  BY <1>1, <1>3, <1>4 DEF Looked
<1>5. ASSUME NEW q \in Requests, NEW x, req' = [req EXCEPT ![q] = x],
             x.pc \in {"idle", "submit", "embed", "check", "swap"}
      PROVE  Looked'
  BY <1>4, <1>5 DEF Cascading
<1>6. ASSUME NEW q \in Requests, Finish(q) PROVE Looked'
  BY <1>2, <1>5, <1>6 DEF Finish
<1>7. ASSUME NEW q \in Requests, NEW t, Forget(q, t), Cascading(req[q].pc)
      PROVE  Looked'
  <2> DEFINE seen == [req[q].seen EXCEPT ![t] = None]
  <2>1. \A u \in Submissions : seen[u] \in Active \cup {None}
    BY <1>1, <1>3, <1>7 DEF RequestRecords
  <2>2. q \in Cascades
    BY <1>3, <1>7
  <2>3. CASE req' = [req EXCEPT ![q] = Idle]
    BY <1>2, <1>5, <2>3
  <2>4. CASE req' = [req EXCEPT ![q] = Req("withdraw", None, NoVersion, None, seen)]
    <3> HIDE DEF Req, seen
    <3>1. fine(q, Req("withdraw", None, NoVersion, None, seen))
      BY <1>2, <2>1, <2>2
    <3> QED  BY <1>4, <2>4, <3>1
  <2> QED  BY <1>7, <2>3, <2>4 DEF Forget
<1>8. ASSUME NEW q \in Requests, RequestStep(q) PROVE Looked'
  <2>1. CASE Goto(q, "swap")
    <3>1. req' = [req EXCEPT ![q] = [req[q] EXCEPT !.pc = "swap"]]
      BY <1>1, <2>1 DEF Goto
    <3>2. [req[q] EXCEPT !.pc = "swap"].pc = "swap"
      BY <1>1 DEF RequestRecords
    <3> QED  BY <1>5, <3>1, <3>2
  <2>2. ASSUME NEW pc \in {"submit", "embed", "check"}, NEW s, NEW v, NEW via, NEW seen,
               req' = [req EXCEPT ![q] = Req(pc, s, v, via, seen)]
        PROVE  Looked'
    <3>1. Req(pc, s, v, via, seen).pc \in {"submit", "embed", "check"}
      BY <1>2
    <3> HIDE DEF Req
    <3> QED  BY <1>5, <2>2, <3>1
  <2> QED
    BY <1>6, <1>8, <2>1, <2>2
       DEF RequestStep, SubmitChecks, SubmitCommits, EmbedChecks, EmbedCommits,
           ResubmitReads, ResubmitChecks, ResubmitCommits, Crash
<1>9. ASSUME NEW q \in Requests, NEW s \in Submissions, CascadeFinds(q, s)
      PROVE  Looked'
  <2>1. PICK siblings \in SUBSET Submissions :
          /\ \A t \in siblings : status[t] \in Active
          /\ req' = [req EXCEPT ![q] =
                       Req("withdraw", None, NoVersion, None,
                           [t \in Submissions |->
                              IF t \in siblings THEN status[t] ELSE None])]
    BY <1>9 DEF CascadeFinds
  <2> DEFINE seen == [t \in Submissions |-> IF t \in siblings THEN status[t] ELSE None]
  <2>2. \A t \in Submissions : seen[t] \in Active \cup {None}
    BY <2>1
  <2>3. q \in Cascades
    BY <1>9 DEF CascadeFinds
  <2> HIDE DEF Req, seen
  <2>4. fine(q, Req("withdraw", None, NoVersion, None, seen))
    BY <1>2, <2>2, <2>3
  <2> QED  BY <1>4, <2>1, <2>4 DEF seen
<1>10. ASSUME NEW q \in Requests, CascadeStep(q) PROVE Looked'
  <2>1. Cascading(req[q].pc)
    BY <1>10 DEF CascadeStep, CascadeWithdraws, CascadeLogs, CascadeAnnounces, Cascading
  <2>2. ASSUME NEW pc, NEW s,
               req' = [req EXCEPT ![q] = [req[q] EXCEPT !.pc = pc, !.sub = s]]
        PROVE  Looked'
    <3>1. [req[q] EXCEPT !.pc = pc, !.sub = s].seen = req[q].seen
      BY <1>1 DEF RequestRecords
    <3>2. fine(q, [req[q] EXCEPT !.pc = pc, !.sub = s])
      BY <1>3, <2>1, <3>1
    <3> QED  BY <1>4, <2>2, <3>2
  <2>3. ASSUME NEW t \in Submissions, CascadeWithdraws(q, t) PROVE Looked'
    <3>1. CASE req' = [req EXCEPT ![q].pc = "log", ![q].sub = t]
      <4>1. req' = [req EXCEPT ![q] = [req[q] EXCEPT !.pc = "log", !.sub = t]]
        BY <1>1, <3>1
      <4> QED  BY <2>2, <4>1
    <3> QED  BY <1>7, <2>1, <2>3, <3>1 DEF CascadeWithdraws
  <2>4. CASE CascadeLogs(q)
    <3>1. req' = [req EXCEPT ![q] = [req[q] EXCEPT !.pc = "announce", !.sub = req[q].sub]]
      BY <1>1, <2>4 DEF CascadeLogs, Goto, RequestRecords
    <3> QED  BY <2>2, <3>1
  <2>5. CASE CascadeAnnounces(q)
    BY <1>7, <2>1, <2>5 DEF CascadeAnnounces
  <2> QED  BY <1>10, <2>3, <2>4, <2>5 DEF CascadeStep
<1>11. ASSUME RowStep \/ BatchStep \/ FileStep \/ UNCHANGED vars PROVE req' = req
  BY <1>11 DEF RowStep, Create, Import, Delete, Withdraw, EditorMove, BatchStep, Batch,
     FileStep, Upload, RemoveFile, ScanStarts, ScanEnds, vars
<1>12. req' = req => Looked'
  BY DEF Looked
<1> QED  BY <1>8, <1>9, <1>10, <1>11, <1>12 DEF Next

(* A submission that is not decided has an open history.                   *)
LEMMA OpenHistory ==
  ASSUME HistoryCurrent, NEW s \in Submissions, status[s] \notin Terminal
  PROVE  Ends(history[s], status[s]) /\ StillOpen(history[s])
  BY DEF HistoryCurrent, Owed, Ends, StillOpen, Terminal

LEMMA PendingStep ==
  ASSUME CurrentInv, [Next]_vars
  PROVE  Pending'
<1> USE DEF CurrentInv
<1> SUFFICES ASSUME NEW r \in Requests, req'[r].pc = "log"
             PROVE  StillOpen(history'[req'[r].sub])
  BY DEF Pending
<1> DEFINE s == req'[r].sub
<1>1. s \in Submissions
  BY StepInv DEF IInv, TypeOK, Points
<1>2. history'[s] = history[s] /\ (status[s] \in Active \/ (req[r].pc = "log" /\ req[r].sub = s))
  BY <1>1, LogWaits
<1>3. CASE status[s] \in Active
  BY <1>1, <1>2, <1>3, OpenHistory, StatusFacts
<1>4. CASE req[r].pc = "log" /\ req[r].sub = s
  BY <1>2, <1>4 DEF Pending
<1> QED  BY <1>2, <1>3, <1>4

(* The row a cascade writes.                                               *)
LEMMA LoggedRow ==
  ASSUME CurrentInv, NEW s \in Submissions, NEW r \in Requests, RowLogged(s, r)
  PROVE  /\ status'[s] = "WITHDRAWN" /\ Cascades # {} /\ StillOpen(history[s])
         /\ \E e \in Entries :
              /\ e.from \in Active /\ e.to = "WITHDRAWN"
              /\ history'[s] = history[s] \o Copies(e, 1)
<1> USE DEF CurrentInv
<1>1. status'[s] = "WITHDRAWN"
  BY DEF RowLogged, OneWithdraws, Withdrawing
<1>2. Cascades # {} /\ req[r].seen[s] \in Active \cup {None}
  BY DEF RowLogged, Looked, Cascading
<1>3. PICK from \in Statuses :
        from = req[r].seen[s]
        /\ history'[s] = history[s] \o Copies(Entry(from, "WITHDRAWN"), 1)
  BY DEF RowLogged
<1>4. from \in Active
  BY <1>2, <1>3 DEF None, Statuses
<1>5. /\ Entry(from, "WITHDRAWN") \in Entries
      /\ Entry(from, "WITHDRAWN").from = from /\ Entry(from, "WITHDRAWN").to = "WITHDRAWN"
  BY EntryType, StatusFacts DEF Entry
<1>6. StillOpen(history[s])
  BY DEF RowLogged, Pending
<1> HIDE DEF Entry
<1> QED  BY <1>1, <1>2, <1>3, <1>4, <1>5, <1>6

(* The rows updateStatus writes.                                           *)
LEMMA MovedRows ==
  ASSUME CurrentInv, NEW s \in Submissions, NEW to \in Statuses,
         NEW n \in Multiplicities, RowMoves(s, to, n)
  PROVE  /\ n \in Nat /\ n # 0 /\ (n = 1 \/ Repeating)
         /\ StillOpen(history[s]) /\ Ends(history[s], status[s])
         /\ \E e \in Entries :
              /\ e.from = status[s] /\ e.to = to
              /\ history'[s] = history[s] \o Copies(e, n)
<1> USE SubmissionAssumption DEF CurrentInv
<1>1. n \in Nat /\ n # 0 /\ (n = 1 \/ Repeating)
  BY MultiplicityType, MoreThanOnce DEF RowMoves
<1>2. status[s] \in Statuses \ Terminal
  BY ValidFacts DEF RowMoves
<1>3. /\ Entry(status[s], to) \in Entries
      /\ Entry(status[s], to).from = status[s] /\ Entry(status[s], to).to = to
  BY <1>2, EntryType DEF Entry
<1>4. history'[s] = history[s] \o Copies(Entry(status[s], to), n)
  BY DEF RowMoves
<1>5. StillOpen(history[s]) /\ Ends(history[s], status[s])
  BY <1>2, OpenHistory
<1> HIDE DEF Entry, CurrentInv
<1> QED  BY <1>1, <1>3, <1>4, <1>5

LEMMA CurrentStep ==
  ASSUME CurrentInv, [Next]_vars
  PROVE  HistoryCurrent'
<1> USE SubmissionAssumption DEF CurrentInv
<1> SUFFICES ASSUME NEW s \in Submissions
             PROVE  Ends(history'[s], status'[s]) \/ Owed(s)'
  BY DEF HistoryCurrent
<1>1. history[s] \in Seq(Entries)
  BY DEF IInv, TypeOK
<1>2. Ends(history[s], status[s]) \/ Owed(s)
  BY DEF HistoryCurrent
<1>3. ASSUME NEW r \in Requests, RowLogged(s, r)
      PROVE  Ends(history'[s], status'[s])
  <2>1. PICK e \in Entries : /\ e.to = "WITHDRAWN"
                            /\ history'[s] = history[s] \o Copies(e, 1)
    BY <1>3, LoggedRow
  <2>2. Ends(history[s] \o Copies(e, 1), e.to)
    BY <1>1, LastCopy
  <2> QED  BY <1>3, <2>1, <2>2, LoggedRow
<1>4. ASSUME history'[s] = history[s], status'[s] = status[s]
      PROVE  Ends(history'[s], status'[s]) \/ Owed(s)'
  <2>1. CASE Ends(history[s], status[s])
    BY <1>4, <2>1
  <2>2. CASE Owed(s) /\ CrashAllowed
    BY <1>4, <2>2 DEF Owed
  <2>3. ASSUME NEW r \in Requests, Owed(s), ~ CrashAllowed,
               req[r].pc = "log", req[r].sub = s
        PROVE  Ends(history'[s], status'[s]) \/ Owed(s)'
    <3>1. req'[r] = req[r] \/ RowLogged(s, r)
      BY <2>3, LogStays
    <3>2. CASE req'[r] = req[r]
      BY <1>4, <2>3, <3>2 DEF Owed
    <3> QED  BY <1>3, <3>1, <3>2
  <2> QED  BY <1>2, <2>1, <2>2, <2>3 DEF Owed
<1>5. CASE RowStays(s) \/ \E r \in Requests : RowTold(s, r)
  BY <1>4, <1>5 DEF RowStays, RowTold
<1>6. CASE RowBegins(s)
  <2>1. history[s] = <<>>
    BY <1>6 DEF RowBegins, Unborn
  <2> QED  BY <1>6, <2>1 DEF RowBegins, Ends, Entry
<1>7. CASE RowGoes(s)
  BY <1>7 DEF RowGoes, Ends
<1>8. ASSUME NEW to \in Statuses, NEW n \in Multiplicities, RowMoves(s, to, n)
      PROVE  Ends(history'[s], status'[s])
  <2>1. status'[s] = to
    BY <1>8 DEF RowMoves
  <2>2. n \in Nat /\ n # 0
    BY <1>8, MovedRows
  <2>3. PICK e \in Entries : e.to = to /\ history'[s] = history[s] \o Copies(e, n)
    BY <1>8, MovedRows
  <2>4. Ends(history[s] \o Copies(e, n), e.to)
    BY <1>1, <2>2, LastCopy
  <2> QED  BY <2>1, <2>3, <2>4
<1>9. CASE RowWithdrawn(s)
  <2>1. Cascades # {}
    BY <1>9, LookedStep DEF RowWithdrawn, Looked, Cascading
  <2> QED  BY <1>9, <2>1 DEF RowWithdrawn, Owed
<1>10. RowSteps(s)
  BY Shape
<1> QED  BY <1>3, <1>5, <1>6, <1>7, <1>8, <1>9, <1>10 DEF RowSteps

LEMMA JoinedStep ==
  ASSUME CurrentInv, [Next]_vars
  PROVE  Joined'
<1> SUFFICES ASSUME NEW s \in Submissions
             PROVE  \A i \in 1..(Len(history'[s]) - 1) : Follows(history'[s], i)
  BY DEF Joined
<1>1. /\ history[s] \in Seq(Entries)
      /\ \A i \in 1..(Len(history[s]) - 1) : Follows(history[s], i)
  BY DEF CurrentInv, IInv, TypeOK, Joined
<1>2. CASE history'[s] = history[s]
  BY <1>1, <1>2
<1>3. CASE RowBegins(s)
  <2>1. history[s] = <<>>
    BY <1>3 DEF CurrentInv, RowBegins, Unborn
  <2> QED  BY <1>3, <2>1 DEF RowBegins, Follows, Entry
<1>4. CASE RowGoes(s)
  BY <1>4 DEF RowGoes
<1>5. ASSUME NEW to \in Statuses, NEW n \in Multiplicities, RowMoves(s, to, n)
      PROVE  \A i \in 1..(Len(history'[s]) - 1) : Follows(history'[s], i)
  <2>1. /\ n \in Nat /\ n # 0 /\ (n = 1 \/ Repeating)
        /\ StillOpen(history[s]) /\ Ends(history[s], status[s])
    BY <1>5, MovedRows
  <2>2. PICK e \in Entries : /\ e.from = status[s]
                            /\ history'[s] = history[s] \o Copies(e, n)
    BY <1>5, MovedRows
  <2>3. n = 1 \/ Repeating
    BY <2>1
  <2>4. Ends(history[s], e.from)
    BY <2>1, <2>2
  <2>5. Extends(history'[s], history[s], e, n)
    BY <1>1, <2>1, <2>2, Copied
  <2> QED  BY <1>1, <2>1, <2>3, <2>4, <2>5, RowsFollow
<1>6. ASSUME NEW r \in Requests, RowLogged(s, r)
      PROVE  \A i \in 1..(Len(history'[s]) - 1) : Follows(history'[s], i)
  <2>1. Cascades # {} /\ StillOpen(history[s])
    BY <1>6, LoggedRow
  <2>2. PICK e \in Entries : /\ e.from \in Active /\ e.to = "WITHDRAWN"
                            /\ history'[s] = history[s] \o Copies(e, 1)
    BY <1>6, LoggedRow
  <2>3. Extends(history'[s], history[s], e, 1)
    BY <1>1, <2>2, Copied
  <2>4. \/ Ends(history[s], e.from)
        \/ 1 = 1 /\ Cascades # {} /\ e.from \in Active /\ e.to = "WITHDRAWN"
    BY <2>1, <2>2
  <2>5. 1 \in Nat /\ 1 # 0 /\ (1 = 1 \/ Repeating)
    OBVIOUS
  <2> QED  BY <1>1, <2>1, <2>3, <2>4, <2>5, RowsFollow
<1>7. RowSteps(s)
  BY Shape DEF CurrentInv
<1> QED
  BY <1>2, <1>3, <1>4, <1>5, <1>6, <1>7
     DEF RowSteps, RowStays, RowWithdrawn, RowTold

(* For all requests, cascades and batches, repeated ids and stops          *)
(* included: the history of every submission, read in order, is the path   *)
(* its status took, up to the status it has now.  All that the code can    *)
(* put out of place is one row, the last: a withdrawal whose cascade had   *)
(* looked the status up before it withdrew, or has not written it; and a   *)
(* batch that repeats an id repeats its row (submission.service.ts:        *)
(* updateStatus, withdrawCascadeAsOwner, batchUpdateStatusAsEditor).       *)
THEOREM HistoryStaysLinked == Spec => []HistoryLinks
<1>1. Init => CurrentInv
  <2>1. ASSUME Init PROVE HistoryCurrent /\ Pending /\ Looked /\ Joined
    <3>1. \A r \in Requests : req[r].pc = "idle"
      BY <2>1 DEF Init, Idle, Req
    <3>2. \A s \in Submissions : history[s] = <<>>
      BY <2>1 DEF Init
    <3> QED  BY <3>1, <3>2 DEF HistoryCurrent, Ends, Pending, Looked, Cascading, Joined
  <2> QED
    BY <2>1, ToldInit DEF ToldInv, CurrentInv
<1>2. CurrentInv /\ [Next]_vars => CurrentInv'
  BY StepInv, OneWithdrawsStep, UntoldStep, CurrentStep, PendingStep, LookedStep,
     JoinedStep
     DEF CurrentInv
<1>3. CurrentInv => HistoryLinks
  BY DEF CurrentInv, HistoryCurrent, Ends, Joined, HistoryLinks
<1> QED  BY <1>1, <1>2, <1>3, PTL DEF Spec

-----------------------------------------------------------------------------
(* Resubmissions                                                           *)

Resubmitting(r) == req[r].pc \in {"check", "swap"}

(* A resubmission has seen REVISE_AND_RESUBMIT; whatever has become of the *)
(* submission since, it is not a draft again.                              *)
Past ==
  \A r \in Requests : Resubmitting(r) =>
    status[req[r].sub] \notin {None, "DRAFT"} /\ req[r].via \in ResubmitVias

LEMMA NeverDraftAgain ==
  ASSUME IInv, [Next]_vars, NEW s \in Submissions, status[s] \notin {None, "DRAFT"}
  PROVE  status'[s] \notin {None, "DRAFT"}
<1>1. ASSUME NEW to, NEW n, RowMoves(s, to, n)
      PROVE  status'[s] \notin {None, "DRAFT"}
  BY <1>1, NeverBackToDraft DEF RowMoves
<1>2. RowSteps(s)
  BY Shape
<1>3. CASE \E to \in Statuses, n \in Multiplicities : RowMoves(s, to, n)
  BY <1>1, <1>3
<1>4. CASE \E r \in Requests : RowLogged(s, r) \/ RowTold(s, r)
  BY <1>4 DEF RowLogged, RowTold
<1>5. CASE RowStays(s) \/ RowBegins(s) \/ RowGoes(s) \/ RowWithdrawn(s)
  BY <1>5 DEF RowStays, RowBegins, RowGoes, RowWithdrawn, None
<1> QED  BY <1>2, <1>3, <1>4, <1>5 DEF RowSteps

(* The steps with which r comes to resubmit.                               *)
LEMMA ResubmissionsOf ==
  ASSUME IInv, [Next]_vars, NEW r \in Requests, Resubmitting(r)'
  PROVE  \/ Resubmitting(r) /\ req'[r].sub = req[r].sub /\ req'[r].via = req[r].via
         \/ /\ status[req'[r].sub] = "REVISE_AND_RESUBMIT"
            /\ req'[r].sub \in Submissions
            /\ req'[r].via \in ResubmitVias
<1> DEFINE goal == \/ /\ Resubmitting(r) /\ req'[r].sub = req[r].sub
                      /\ req'[r].via = req[r].via
                   \/ /\ status[req'[r].sub] = "REVISE_AND_RESUBMIT"
                      /\ req'[r].sub \in Submissions
                      /\ req'[r].via \in ResubmitVias
<1> USE DEF IInv
<1>1. req \in [Requests -> RequestRecords]
  BY DEF TypeOK
<1>2. \A pc, s, v, via, seen :
        /\ Req(pc, s, v, via, seen).pc = pc
        /\ Req(pc, s, v, via, seen).sub = s
        /\ Req(pc, s, v, via, seen).via = via
  BY DEF Req
<1>3. Idle.pc = "idle"
  BY <1>2 DEF Idle
<1>4. ASSUME req' = req PROVE goal
  BY <1>4 DEF Resubmitting
<1>5. ASSUME NEW q \in Requests, NEW x, req' = [req EXCEPT ![q] = x],
             x.pc \notin {"check", "swap"}
      PROVE  goal
  BY <1>1, <1>5 DEF Resubmitting
<1>6. ASSUME NEW q \in Requests, Finish(q) PROVE goal
  BY <1>3, <1>5, <1>6 DEF Finish
<1>7. ASSUME NEW q \in Requests, NEW t, Forget(q, t) PROVE goal
  <2> DEFINE x == IF [req[q].seen EXCEPT ![t] = None] = NothingSeen THEN Idle
                  ELSE Req("withdraw", None, NoVersion, None,
                           [req[q].seen EXCEPT ![t] = None])
  <2>1. req' = [req EXCEPT ![q] = x] /\ x.pc \in {"idle", "withdraw"}
    BY <1>2, <1>3, <1>7 DEF Forget
  <2> HIDE DEF x, goal
  <2> QED  BY <1>5, <2>1
<1>8. ASSUME NEW q \in Requests, RequestStep(q) PROVE goal
  <2>1. ASSUME NEW s \in Submissions, SubmitChecks(q, s) PROVE goal
    <3>1. Req("submit", s, NoVersion, None, NothingSeen).pc = "submit"
      BY <1>2
    <3> HIDE DEF Req, goal
    <3> QED  BY <1>5, <2>1, <3>1 DEF SubmitChecks
  <2>2. ASSUME NEW s \in Submissions, NEW v \in Versions \cup {NoVersion},
               EmbedChecks(q, s, v)
        PROVE  goal
    <3>1. Req("embed", s, v, None, NothingSeen).pc = "embed"
      BY <1>2
    <3> HIDE DEF Req, goal
    <3> QED  BY <1>5, <2>2, <3>1 DEF EmbedChecks
  <2>3. ASSUME NEW s \in Submissions, NEW v \in Versions, NEW via \in ResubmitVias,
               ResubmitReads(q, s, v, via)
        PROVE  goal
    <3> DEFINE x == Req("check", s, v, via, NothingSeen)
    <3>1. req' = [req EXCEPT ![q] = x] /\ x.sub = s /\ x.via = via
      BY <1>2, <2>3 DEF ResubmitReads
    <3>2. status[s] = "REVISE_AND_RESUBMIT"
      BY <2>3 DEF ResubmitReads
    <3> HIDE DEF x
    <3> QED  BY <1>1, <3>1, <3>2 DEF Resubmitting
  <2>4. CASE ResubmitChecks(q)
    <3>1. CASE Goto(q, "swap")
      BY <1>1, <2>4, <3>1 DEF ResubmitChecks, Goto, RequestRecords, Resubmitting
    <3> HIDE DEF goal
    <3> QED  BY <1>6, <2>4, <3>1 DEF ResubmitChecks
  <2> HIDE DEF goal
  <2> QED
    BY <1>6, <1>8, <2>1, <2>2, <2>3, <2>4
       DEF RequestStep, SubmitCommits, EmbedCommits, ResubmitCommits, Crash
<1>9. ASSUME NEW q \in Requests, NEW s \in Submissions, CascadeFinds(q, s)
      PROVE  goal
  <2>1. PICK seen : req' = [req EXCEPT ![q] = Req("withdraw", None, NoVersion, None, seen)]
    BY <1>9 DEF CascadeFinds
  <2>2. Req("withdraw", None, NoVersion, None, seen).pc = "withdraw"
    BY <1>2
  <2> HIDE DEF Req, goal
  <2> QED  BY <1>5, <2>1, <2>2
<1>10. ASSUME NEW q \in Requests, CascadeStep(q) PROVE goal
  <2>1. ASSUME NEW t \in Submissions, CascadeWithdraws(q, t) PROVE goal
    <3>1. CASE req' = [req EXCEPT ![q].pc = "log", ![q].sub = t]
      BY <1>1, <3>1 DEF Resubmitting, RequestRecords
    <3> HIDE DEF goal
    <3> QED  BY <1>7, <2>1, <3>1 DEF CascadeWithdraws
  <2>2. CASE CascadeLogs(q)
    BY <1>1, <2>2 DEF CascadeLogs, Goto, Resubmitting, RequestRecords
  <2>3. CASE CascadeAnnounces(q)
    BY <1>7, <2>3 DEF CascadeAnnounces
  <2> QED  BY <1>10, <2>1, <2>2, <2>3 DEF CascadeStep
<1>11. ASSUME RowStep \/ BatchStep \/ FileStep \/ UNCHANGED vars PROVE req' = req
  BY <1>11 DEF RowStep, Create, Import, Delete, Withdraw, EditorMove, BatchStep, Batch,
     FileStep, Upload, RemoveFile, ScanStarts, ScanEnds, vars
<1>12. goal
  <2> HIDE DEF goal
  <2> QED  BY <1>4, <1>8, <1>9, <1>10, <1>11 DEF Next
<1> QED  BY <1>12

LEMMA PastStep ==
  ASSUME IInv, Past, [Next]_vars
  PROVE  Past'
<1> SUFFICES ASSUME NEW r \in Requests, Resubmitting(r)'
             PROVE  /\ status'[req'[r].sub] \notin {None, "DRAFT"}
                    /\ req'[r].via \in ResubmitVias
  BY DEF Past
<1>1. CASE Resubmitting(r) /\ req'[r].sub = req[r].sub /\ req'[r].via = req[r].via
  <2>1. req[r].sub \in Submissions
    BY <1>1 DEF Resubmitting, IInv, TypeOK, Points
  <2> QED  BY <1>1, <2>1, NeverDraftAgain DEF Past
<1>2. CASE /\ status[req'[r].sub] = "REVISE_AND_RESUBMIT"
           /\ req'[r].sub \in Submissions
           /\ req'[r].via \in ResubmitVias
  BY <1>2, NeverDraftAgain DEF None
<1> QED  BY <1>1, <1>2, ResubmissionsOf

(* The history knows whose revision was asked for: what awaits one, and    *)
(* what a resubmission works on, whatever has become of it.                *)
Remembered ==
  /\ \A s \in Submissions : status[s] = "REVISE_AND_RESUBMIT" => Asked(s)
  /\ \A r \in Requests : Resubmitting(r) => Asked(req[r].sub)

LEMMA AskedStays ==
  ASSUME IInv, [Next]_vars, NEW s \in Submissions, Asked(s),
         status[s] \notin {None, "DRAFT"}
  PROVE  Asked(s)'
<1>1. history[s] \in Seq(Entries)
  BY DEF IInv, TypeOK
<1>2. ASSUME NEW e \in Entries, NEW n \in Nat, history'[s] = history[s] \o Copies(e, n)
      PROVE  Asked(s)'
  <2>1. Extends(history'[s], history[s], e, n)
    BY <1>1, <1>2, Copied
  <2> QED  BY <1>1, <2>1 DEF Asked, Extends
<1>3. ASSUME NEW to \in Statuses, NEW n \in Multiplicities, RowMoves(s, to, n)
      PROVE  Asked(s)'
  <2>1. n \in Nat
    BY MultiplicityType, SubmissionAssumption
  <2>2. Entry(status[s], to) \in Entries
    BY <1>3, ValidFacts, EntryType DEF RowMoves
  <2> QED  BY <1>2, <1>3, <2>1, <2>2 DEF RowMoves
<1>4. ASSUME NEW r \in Requests, RowLogged(s, r) PROVE Asked(s)'
  <2>1. PICK from \in Statuses :
          history'[s] = history[s] \o Copies(Entry(from, "WITHDRAWN"), 1)
    BY <1>4 DEF RowLogged
  <2>2. Entry(from, "WITHDRAWN") \in Entries
    BY EntryType, StatusFacts
  <2> QED  BY <1>2, <2>1, <2>2
<1>5. CASE history'[s] = history[s]
  BY <1>5 DEF Asked
<1>6. ~ RowBegins(s) /\ ~ RowGoes(s)
  BY DEF RowBegins, RowGoes
<1>7. RowSteps(s)
  BY Shape
<1> QED
  BY <1>3, <1>4, <1>5, <1>6, <1>7 DEF RowSteps, RowStays, RowWithdrawn, RowTold

LEMMA RememberedStep ==
  ASSUME IInv, Past, Remembered, [Next]_vars
  PROVE  Remembered'
<1>1. ASSUME NEW s \in Submissions, status[s] = "REVISE_AND_RESUBMIT" PROVE Asked(s)'
  BY <1>1, AskedStays DEF Remembered, None
<1>2. ASSUME NEW s \in Submissions, NEW n \in Multiplicities,
             RowMoves(s, "REVISE_AND_RESUBMIT", n)
      PROVE  Asked(s)'
  <2>1. n \in Nat /\ n # 0
    BY <1>2, MultiplicityType, SubmissionAssumption DEF RowMoves
  <2>2. /\ Entry(status[s], "REVISE_AND_RESUBMIT") \in Entries
        /\ Entry(status[s], "REVISE_AND_RESUBMIT").to = "REVISE_AND_RESUBMIT"
    BY <1>2, ValidFacts, EntryType, StatusFacts DEF RowMoves, Entry
  <2>3. history[s] \in Seq(Entries)
    BY DEF IInv, TypeOK
  <2>4. history'[s] = history[s] \o Copies(Entry(status[s], "REVISE_AND_RESUBMIT"), n)
    BY <1>2 DEF RowMoves
  <2> HIDE DEF Entry
  <2>5. \E i \in DOMAIN history'[s] :
          history'[s][i] = Entry(status[s], "REVISE_AND_RESUBMIT")
    <3> DEFINE e == Entry(status[s], "REVISE_AND_RESUBMIT")
    <3>1. e \in Entries
      BY <2>2
    <3>2. history'[s] = history[s] \o Copies(e, n)
      BY <2>4
    <3> HIDE DEF e
    <3>3. Extends(history'[s], history[s], e, n)
      BY <2>1, <2>3, <3>1, <3>2, Copied
    <3>4. /\ history'[s] \in Seq(Entries) /\ Len(history[s]) \in Nat
          /\ Len(history'[s]) = Len(history[s]) + n
          /\ \A i \in (Len(history[s]) + 1)..(Len(history[s]) + n) : history'[s][i] = e
      BY <3>3 DEF Extends
    <3>5. Len(history[s]) + n \in (Len(history[s]) + 1)..(Len(history[s]) + n)
      BY <2>1, <3>4
    <3>6. Len(history'[s]) \in DOMAIN history'[s] /\ history'[s][Len(history'[s])] = e
      BY <3>4, <3>5
    <3> QED  BY <3>6 DEF e
  <2> QED  BY <2>2, <2>5 DEF Asked
<1>3. ASSUME NEW s \in Submissions, status'[s] = "REVISE_AND_RESUBMIT"
      PROVE  Asked(s)'
  <2>1. \/ status[s] = "REVISE_AND_RESUBMIT"
        \/ \E n \in Multiplicities : RowMoves(s, "REVISE_AND_RESUBMIT", n)
    <3>1. CASE RowBegins(s) \/ RowGoes(s) \/ RowWithdrawn(s)
      BY <1>3, <3>1 DEF RowBegins, RowGoes, RowWithdrawn, Imported, Terminal
    <3>2. CASE RowStays(s) \/ \E r \in Requests : RowLogged(s, r) \/ RowTold(s, r)
      BY <1>3, <3>2 DEF RowStays, RowLogged, RowTold
    <3>3. CASE \E to \in Statuses, n \in Multiplicities : RowMoves(s, to, n)
      BY <1>3, <3>3 DEF RowMoves
    <3> QED  BY <3>1, <3>2, <3>3, Shape DEF RowSteps
  <2> QED  BY <1>1, <1>2, <2>1
<1>4. ASSUME NEW r \in Requests, Resubmitting(r)', NEW s, s = req'[r].sub
      PROVE  Asked(s)'
  <2>1. CASE Resubmitting(r) /\ req'[r].sub = req[r].sub /\ req'[r].via = req[r].via
    <3>1. s \in Submissions
      BY <1>4, <2>1 DEF Resubmitting, IInv, TypeOK, Points
    <3> QED  BY <1>4, <2>1, <3>1, AskedStays DEF Past, Remembered
  <2>2. CASE status[s] = "REVISE_AND_RESUBMIT" /\ s \in Submissions
    BY <1>1, <2>2
  <2> QED  BY <1>4, <2>1, <2>2, ResubmissionsOf
<1>5. \A r \in Requests : Resubmitting(r)' =>
        \E i \in DOMAIN history'[req'[r].sub] :
          history'[req'[r].sub][i].to = "REVISE_AND_RESUBMIT"
  BY <1>4 DEF Asked
<1> QED  BY <1>3, <1>5 DEF Remembered, Asked

PastInv == IInv /\ Past /\ Remembered

LEMMA PastInvariant ==
  /\ Init => PastInv
  /\ PastInv /\ [Next]_vars => PastInv'
<1>1. Init => Past /\ Remembered
  BY DEF Init, Past, Remembered, Resubmitting, Idle, Req, None
<1> QED  BY <1>1, InitInv, StepInv, PastStep, RememberedStep DEF PastInv

(* What a step that replaces the version of s is.                          *)
Replaces(s) ==
  \/ status[s] = None
  \/ status[s] = "REVISE_AND_RESUBMIT" /\ status'[s] = "SUBMITTED"
  \/ "api" \in ResubmitVias /\ Asked(s) /\ status'[s] = status[s]

LEMMA FrozenStep ==
  ASSUME PastInv, [Next]_vars, NEW s \in Submissions, version'[s] # version[s]
  PROVE  Replaces(s)
<1> USE DEF PastInv, IInv
<1>1. /\ status \in [Submissions -> Statuses \cup {None, "deleted"}]
      /\ version \in [Submissions -> Versions \cup {NoVersion}]
  BY DEF TypeOK
<1>2. version' # version
  OBVIOUS
<1>3. CASE RowStep
  BY <1>1, <1>3 DEF RowStep, Create, Import, Delete, Withdraw, EditorMove, Replaces
<1>4. ~ BatchStep
  BY <1>2 DEF BatchStep, Batch
<1>5. ASSUME NEW r \in Requests, RequestStep(r) PROVE Replaces(s)
  <2> DEFINE t == req[r].sub
  <2>1. CASE EmbedCommits(r)
    <3>1. t \in Submissions /\ status[t] = None
      BY <2>1 DEF EmbedCommits, Locks, TypeOK, Points
    <3> QED  BY <1>1, <2>1, <3>1 DEF EmbedCommits, Replaces
  <2>2. CASE ResubmitCommits(r)
    <3>1. /\ t \in Submissions /\ status[t] \notin {None, "DRAFT"}
          /\ req[r].via \in ResubmitVias /\ Asked(t)
      BY <2>2 DEF ResubmitCommits, Past, Remembered, Resubmitting, TypeOK, Points
    <3>2. s = t
      BY <1>1, <2>2, <3>1 DEF ResubmitCommits
    <3>3. CASE "SUBMITTED" \in ValidFrom(status[t])
      <4>1. status[t] = "REVISE_AND_RESUBMIT"
        BY <3>1, <3>3, ValidFacts
      <4>2. status'[t] = "SUBMITTED"
        BY <1>1, <2>2, <3>1, <3>3 DEF ResubmitCommits, Move
      <4> QED  BY <3>2, <4>1, <4>2 DEF Replaces
    <3>4. CASE "SUBMITTED" \notin ValidFrom(status[t])
      BY <1>2, <2>2, <3>1, <3>2, <3>4 DEF ResubmitCommits, Replaces
    <3> QED  BY <3>3, <3>4
  <2> QED
    BY <1>2, <1>5, <2>1, <2>2
       DEF RequestStep, SubmitChecks, SubmitCommits, EmbedChecks, ResubmitReads,
           ResubmitChecks, Crash
<1>6. \A r \in Requests : ~ CascadeStep(r) /\ \A t \in Submissions : ~ CascadeFinds(r, t)
  BY <1>2 DEF CascadeStep, CascadeWithdraws, CascadeLogs, CascadeAnnounces, CascadeFinds
<1>7. ~ FileStep /\ ~ UNCHANGED vars
  BY <1>2 DEF FileStep, Upload, RemoveFile, ScanStarts, ScanEnds, vars
<1> QED  BY <1>3, <1>4, <1>5, <1>6, <1>7 DEF Next

(* The version an editor has in hand is replaced by a resubmission that    *)
(* puts the submission back in the queue, though the request read without  *)
(* a lock that it was asked for.  An API resubmission that is refused      *)
(* replaces it too, but only in a submission whose history shows that its  *)
(* revision was asked for (submission.service.ts: resubmitAsOwner;         *)
(* embed-submission.service.ts: submitResubmission).                       *)
THEOREM VersionStaysFrozen == Spec => VersionFrozen
<1>1. PastInv /\ [Next]_vars =>
        [\A s \in Submissions :
           version'[s] # version[s] =>
             \/ status[s] = None
             \/ status[s] = "REVISE_AND_RESUBMIT" /\ status'[s] = "SUBMITTED"
             \/ "api" \in ResubmitVias /\ Asked(s) /\ status'[s] = status[s]]_vars
  BY FrozenStep DEF Replaces
<1> QED  BY <1>1, PastInvariant, PTL DEF Spec, VersionFrozen

-----------------------------------------------------------------------------
(* Infected drafts                                                         *)

(* Nobody takes the row of s while one request goes on to x.               *)
LEMMA FreeKept ==
  ASSUME IInv, NEW r \in Requests, NEW x, NEW s, req' = [req EXCEPT ![r] = x],
         x.pc \in {"submit", "embed"} => x.sub # s, Free(s)
  PROVE  Free(s)'
<1>1. req \in [Requests -> RequestRecords]
  BY DEF IInv, TypeOK
<1> QED  BY <1>1 DEF Free

LEMMA BlockedStep ==
  ASSUME PastInv, [Next]_vars, NEW s \in Submissions, Tainted(s)
  PROVE  \/ Tainted(s)'
         \/ status'[s] \in {"deleted", "WITHDRAWN"}
         \/ scan'[version[s]] # "INFECTED"
<1> USE DEF PastInv, IInv
<1>1. /\ status \in [Submissions -> Statuses \cup {None, "deleted"}]
      /\ version \in [Submissions -> Versions \cup {NoVersion}]
      /\ scan \in [Versions -> ScanStatuses \cup {None}]
      /\ req \in [Requests -> RequestRecords]
  BY DEF TypeOK
<1>2. /\ status[s] = "DRAFT" /\ version[s] \in Versions
      /\ scan[version[s]] = "INFECTED"
      /\ \A r \in Requests : req[r].pc \in {"submit", "embed"} => req[r].sub # s
  BY DEF Tainted, Free
<1>3. ASSUME req' = req, status'[s] = status[s], version'[s] = version[s]
      PROVE  Tainted(s)' \/ scan'[version[s]] # "INFECTED"
  BY <1>2, <1>3 DEF Tainted, Free
<1>4. ASSUME NEW r \in Requests, NEW x, req' = [req EXCEPT ![r] = x],
             x.pc \in {"submit", "embed"} => x.sub # s,
             status'[s] = status[s], version'[s] = version[s], scan' = scan
      PROVE  Tainted(s)'
  BY <1>2, <1>4, FreeKept DEF Tainted
<1>5. /\ \A pc, t, v, via, seen : Req(pc, t, v, via, seen).pc = pc
                                  /\ Req(pc, t, v, via, seen).sub = t
      /\ Idle.pc = "idle"
  BY DEF Req, Idle
<1>6. CASE RowStep
  <2>1. \/ req' = req /\ status'[s] = status[s] /\ version'[s] = version[s]
        \/ status'[s] \in {"deleted", "WITHDRAWN"}
    BY <1>1, <1>2, <1>6, EditorFacts
       DEF RowStep, Create, Import, Delete, Withdraw, EditorMove, Move, Active, None
  <2> QED  BY <1>3, <2>1
<1>7. CASE BatchStep
  BY <1>2, <1>3, <1>7, EditorFacts DEF BatchStep, Batch, Active
<1>8. ASSUME NEW r \in Requests, RequestStep(r) PROVE Tainted(s)'
  <2> DEFINE t == req[r].sub
  <2>1. ASSUME Finish(r), status'[s] = status[s], version'[s] = version[s], scan' = scan
        PROVE  Tainted(s)'
    BY <1>4, <1>5, <2>1 DEF Finish
  <2>2. ASSUME NEW u \in Submissions, SubmitChecks(r, u) PROVE Tainted(s)'
    <3> DEFINE x == Req("submit", u, NoVersion, None, NothingSeen)
    <3>1. u # s
      BY <1>2, <2>2 DEF SubmitChecks, FilesPass
    <3>2. req' = [req EXCEPT ![r] = x] /\ x.sub = u
          /\ status' = status /\ version' = version /\ scan' = scan
      BY <1>5, <2>2 DEF SubmitChecks
    <3> HIDE DEF x
    <3> QED  BY <1>4, <3>1, <3>2
  <2>3. CASE SubmitCommits(r)
    <3>1. t # s /\ t \in Submissions
      BY <1>2, <2>3 DEF SubmitCommits, TypeOK, Points
    <3>2. status'[s] = status[s] /\ version' = version /\ scan' = scan /\ Finish(r)
      BY <1>1, <2>3, <3>1 DEF SubmitCommits, Move
    <3> QED  BY <2>1, <3>2
  <2>4. ASSUME NEW u \in Submissions, NEW v \in Versions \cup {NoVersion},
               EmbedChecks(r, u, v)
        PROVE  Tainted(s)'
    <3> DEFINE x == Req("embed", u, v, None, NothingSeen)
    <3>1. u # s
      BY <1>2, <2>4 DEF EmbedChecks, None
    <3>2. req' = [req EXCEPT ![r] = x] /\ x.sub = u
          /\ status' = status /\ version' = version /\ scan' = scan
      BY <1>5, <2>4 DEF EmbedChecks
    <3> HIDE DEF x
    <3> QED  BY <1>4, <3>1, <3>2
  <2>5. CASE EmbedCommits(r)
    <3>1. t # s /\ t \in Submissions
      BY <1>2, <2>5 DEF EmbedCommits, TypeOK, Points
    <3>2. status'[s] = status[s] /\ version'[s] = version[s] /\ scan' = scan /\ Finish(r)
      BY <1>1, <2>5, <3>1 DEF EmbedCommits
    <3> QED  BY <2>1, <3>2
  <2>6. ASSUME NEW u \in Submissions, NEW v \in Versions, NEW via \in ResubmitVias,
               ResubmitReads(r, u, v, via)
        PROVE  Tainted(s)'
    <3> DEFINE x == Req("check", u, v, via, NothingSeen)
    <3>1. req' = [req EXCEPT ![r] = x] /\ x.pc = "check"
          /\ status' = status /\ version' = version /\ scan' = scan
      BY <1>5, <2>6 DEF ResubmitReads
    <3> HIDE DEF x
    <3> QED  BY <1>4, <3>1
  <2>7. CASE ResubmitChecks(r)
    <3>1. status' = status /\ version' = version /\ scan' = scan
      BY <2>7 DEF ResubmitChecks
    <3>2. CASE Goto(r, "swap")
      <4> DEFINE x == [req[r] EXCEPT !.pc = "swap"]
      <4>1. req' = [req EXCEPT ![r] = x] /\ x.pc = "swap"
        BY <1>1, <3>2 DEF Goto, RequestRecords
      <4> HIDE DEF x
      <4> QED  BY <1>4, <3>1, <4>1
    <3> QED  BY <2>1, <2>7, <3>1, <3>2 DEF ResubmitChecks
  <2>8. CASE ResubmitCommits(r)
    <3>1. t # s /\ t \in Submissions
      BY <1>2, <2>8 DEF ResubmitCommits, Past, Resubmitting, TypeOK, Points
    <3>2. status'[s] = status[s] /\ version'[s] = version[s] /\ scan' = scan /\ Finish(r)
      BY <1>1, <2>8, <3>1 DEF ResubmitCommits, Move
    <3> QED  BY <2>1, <3>2
  <2>9. CASE Crash(r)
    BY <2>1, <2>9 DEF Crash
  <2> QED
    BY <1>8, <2>2, <2>3, <2>4, <2>5, <2>6, <2>7, <2>8, <2>9 DEF RequestStep
<1>9. ASSUME NEW r \in Requests, NEW t, Forget(r, t), status'[s] = status[s],
             version'[s] = version[s], scan' = scan
      PROVE  Tainted(s)'
  <2> DEFINE seen == [req[r].seen EXCEPT ![t] = None]
             x == IF seen = NothingSeen THEN Idle
                  ELSE Req("withdraw", None, NoVersion, None, seen)
  <2>1. req' = [req EXCEPT ![r] = x] /\ x.pc \in {"idle", "withdraw"}
    BY <1>5, <1>9 DEF Forget
  <2> HIDE DEF x
  <2> QED  BY <1>4, <1>9, <2>1
<1>10. ASSUME NEW r \in Requests, CascadeStep(r) PROVE Tainted(s)'
  <2>1. ASSUME NEW t \in Submissions, CascadeWithdraws(r, t) PROVE Tainted(s)'
    <3>1. status'[s] = status[s] /\ version' = version /\ scan' = scan
      BY <1>1, <1>2, <2>1 DEF CascadeWithdraws, Active
    <3>2. CASE req' = [req EXCEPT ![r].pc = "log", ![r].sub = t]
      <4> DEFINE x == [req[r] EXCEPT !.pc = "log", !.sub = t]
      <4>1. req' = [req EXCEPT ![r] = x] /\ x.pc = "log"
        BY <1>1, <3>2 DEF RequestRecords
      <4> HIDE DEF x
      <4> QED  BY <1>4, <3>1, <4>1
    <3> QED  BY <1>9, <2>1, <3>1, <3>2 DEF CascadeWithdraws
  <2>2. CASE CascadeLogs(r)
    <3> DEFINE x == [req[r] EXCEPT !.pc = "announce"]
    <3>1. req' = [req EXCEPT ![r] = x] /\ x.pc = "announce"
      BY <1>1, <2>2 DEF CascadeLogs, Goto, RequestRecords
    <3> HIDE DEF x
    <3> QED  BY <1>4, <2>2, <3>1 DEF CascadeLogs
  <2>3. CASE CascadeAnnounces(r)
    BY <1>9, <2>3 DEF CascadeAnnounces
  <2> QED  BY <1>10, <2>1, <2>2, <2>3 DEF CascadeStep
<1>11. ASSUME NEW r \in Requests, NEW t \in Submissions, CascadeFinds(r, t)
       PROVE  Tainted(s)'
  <2>1. PICK seen :
          req' = [req EXCEPT ![r] = Req("withdraw", None, NoVersion, None, seen)]
    BY <1>11 DEF CascadeFinds
  <2> DEFINE x == Req("withdraw", None, NoVersion, None, seen)
  <2>2. x.pc = "withdraw"
    BY <1>5
  <2> HIDE DEF x
  <2> QED  BY <1>4, <1>11, <2>1, <2>2 DEF CascadeFinds, x
<1>12. CASE FileStep \/ UNCHANGED vars
  BY <1>3, <1>12 DEF FileStep, Upload, RemoveFile, ScanStarts, ScanEnds, vars
<1> QED  BY <1>6, <1>7, <1>8, <1>10, <1>11, <1>12 DEF Next

(* A draft whose file is known to be infected, and that no request has     *)
(* locked, is never submitted: not by its writer, an editing batch, a      *)
(* resubmission that has read another status, or a cascade                 *)
(* (submission.service.ts: submitAsOwner; the reads of scan statuses that  *)
(* lock nothing).                                                          *)
THEOREM InfectedStaysDraft == Spec => InfectedDraftBlocked
<1>1. PastInv /\ [Next]_vars =>
        [\A s \in Submissions :
           Tainted(s) => \/ Tainted(s)'
                         \/ status'[s] \in {"deleted", "WITHDRAWN"}
                         \/ scan'[version[s]] # "INFECTED"]_vars
  BY BlockedStep
<1> QED  BY <1>1, PastInvariant, PTL DEF Spec, InfectedDraftBlocked

-----------------------------------------------------------------------------
(* The requests implement the ledger                                       *)

(* The ledger reads the same tables as the service.                        *)
LEMMA SameTables ==
  /\ Ledger!Statuses = Statuses /\ Ledger!Terminal = Terminal
  /\ Ledger!NoEvents = NoEvents
  /\ \A from : Ledger!ValidFrom(from) = ValidFrom(from)
  /\ \A from, to : Ledger!Entry(from, to) = Entry(from, to)
  /\ \A counts, to, n : Ledger!Announce(counts, to, n) = Announce(counts, to, n)
  BY DEF Ledger!Statuses, Statuses, Ledger!Terminal, Terminal, Ledger!NoEvents,
     NoEvents, Ledger!Announced, Announced, Ledger!ValidFrom, ValidFrom,
     Ledger!Entry, Entry, Ledger!Announce, Announce

LEMMA TwoEntries ==
  ASSUME NEW a, NEW b
  PROVE  Append(<<a>>, b) = <<a, b>>
<1> DEFINE S == {a, b}
<1>1. <<a>> \in Seq(S) /\ b \in S
  OBVIOUS
<1>2. Append(<<a>>, b) \in Seq(S) /\ Len(Append(<<a>>, b)) = 2
      /\ Append(<<a>>, b)[1] = a /\ Append(<<a>>, b)[2] = b
  BY <1>1, AppendProperties
<1>3. <<a, b>> \in Seq(S) /\ Len(<<a, b>>) = 2 /\ <<a, b>>[1] = a /\ <<a, b>>[2] = b
  OBVIOUS
<1>4. \A i \in 1..Len(Append(<<a>>, b)) : Append(<<a>>, b)[i] = <<a, b>>[i]
  BY <1>2, <1>3
<1> HIDE DEF S
<1> QED  BY <1>2, <1>3, <1>4, SeqEqual

(* What a row that does not exist yet has left behind: nothing.            *)
Fresh ==
  \A s \in Submissions : status[s] = None => history[s] = <<>> /\ events[s] = NoEvents

(* No cascade runs.                                                        *)
NoCascade ==
  \A r \in Requests : req[r].pc \notin {"withdraw", "log", "announce"}

LedgerInv == IInv /\ Fresh /\ NoCascade

(* One submission begins.                                                  *)
LEMMA BeginIsLegal ==
  ASSUME IInv, Fresh, NEW s \in Submissions, status[s] = None, NEW st, NEW trail,
         NEW counts,
         \/ st = "DRAFT" /\ trail = <<Entry(None, "DRAFT")>> /\ counts = NoEvents
         \/ st \in Imported /\ trail = <<>> /\ counts = NoEvents
         \/ /\ st = "SUBMITTED"
            /\ trail = <<Entry(None, "DRAFT"), Entry("DRAFT", "SUBMITTED")>>
            /\ counts = Announce(NoEvents, "SUBMITTED", 1),
         status' = [status EXCEPT ![s] = st],
         history' = [history EXCEPT ![s] = trail],
         events' = [events EXCEPT ![s] = counts]
  PROVE  Ledger!Next
<1>1. Ledger!Begin(s, st, trail, counts)
  BY DEF Ledger!Begin, None
<1>2. Append(<<Entry(None, "DRAFT")>>, Entry("DRAFT", "SUBMITTED"))
        = <<Entry(None, "DRAFT"), Entry("DRAFT", "SUBMITTED")>>
  BY TwoEntries
<1>3. Ledger!Draft = <<Entry(None, "DRAFT")>>
  BY SameTables DEF Ledger!Draft, None
<1>4. Ledger!Open(s)
  BY <1>1, <1>2, <1>3, SameTables DEF Ledger!Open, Imported
<1> QED  BY <1>4 DEF Ledger!Next

(* One submission changes.                                                 *)
LEMMA MoveIsLegal ==
  ASSUME TypeOK, NEW s \in Submissions, NEW to \in Statuses,
         to \in ValidFrom(status[s]), Move(s, to)
  PROVE  Ledger!Next
<1>1. /\ status \in [Submissions -> Statuses \cup {None, "deleted"}]
      /\ history \in [Submissions -> Seq(Entries)]
      /\ events \in [Submissions -> [Announced -> Nat]]
  BY DEF TypeOK
<1>2. status' = [t \in Submissions |-> IF t \in {s} THEN to ELSE status[t]]
  BY <1>1 DEF Move
<1>3. history' = [t \in Submissions |->
                    IF t \in {s} THEN Append(history[t], Ledger!Entry(status[t], to))
                                 ELSE history[t]]
  BY <1>1, SameTables DEF Move
<1>4. events' = [t \in Submissions |->
                   IF t \in {s} THEN Ledger!Announce(events[t], to, 1) ELSE events[t]]
  BY <1>1, SameTables DEF Move
<1>5. Ledger!Change({s}, to)
  BY <1>2, <1>3, <1>4, SameTables DEF Ledger!Change
<1> QED  BY <1>5, SameTables DEF Ledger!Next

(* A batch that names no submission twice.                                 *)
LEMMA BatchIsLegal ==
  ASSUME SubmissionAssumption, TypeOK, NEW ids \in Batches, NEW to \in Statuses,
         Batch(ids, to),
         \A i, j \in DOMAIN ids : ids[i] = ids[j] => i = j
  PROVE  Ledger!Next
<1> DEFINE Times(s) == Cardinality({i \in DOMAIN ids : ids[i] = s})
           done == {s \in Submissions : Times(s) > 0 /\ to \in EditorFrom(status[s])}
<1>1. \A s \in done : Times(s) = 1
  <2> SUFFICES ASSUME NEW s \in done PROVE Times(s) = 1
    OBVIOUS
  <2>1. CASE \E i \in DOMAIN ids : ids[i] = s
    <3>1. PICK i \in DOMAIN ids : ids[i] = s
      BY <2>1
    <3>2. {j \in DOMAIN ids : ids[j] = s} = {i}
      BY <3>1
    <3> QED  BY <3>2, FS_Singleton
  <2>2. CASE ~ \E i \in DOMAIN ids : ids[i] = s
    <3>1. {j \in DOMAIN ids : ids[j] = s} = {}
      BY <2>2
    <3>2. Times(s) = 0
      BY <3>1, FS_EmptySet
    <3> QED  BY <3>2
  <2> QED  BY <2>1, <2>2
<1>2. /\ done # {}
      /\ status' = [s \in Submissions |-> IF s \in done THEN to ELSE status[s]]
      /\ history' = [s \in Submissions |->
                       IF s \in done
                       THEN history[s] \o Copies(Entry(status[s], to), Times(s))
                       ELSE history[s]]
      /\ events' = [s \in Submissions |->
                      IF s \in done THEN Announce(events[s], to, Times(s))
                                    ELSE events[s]]
  BY DEF Batch
<1>3. done \in SUBSET Submissions /\ \A s \in done : to \in ValidFrom(status[s])
  BY EditorsAreLegal
<1>4. \A s \in done : history[s] \o Copies(Entry(status[s], to), Times(s))
                        = Append(history[s], Entry(status[s], to))
  <2> SUFFICES ASSUME NEW s \in done
               PROVE  history[s] \o Copies(Entry(status[s], to), 1)
                        = Append(history[s], Entry(status[s], to))
    BY <1>1
  <2>1. history[s] \in Seq(Entries) /\ Entry(status[s], to) \in Entries
    BY EditorFacts, StatusFacts, EntryType DEF TypeOK
  <2>2. Copies(Entry(status[s], to), 1) = <<Entry(status[s], to)>>
    BY DEF Copies
  <2> QED  BY <2>1, <2>2, AppendIsConcat
<1> HIDE DEF done, Times
<1>5. history' = [s \in Submissions |->
                    IF s \in done THEN Append(history[s], Ledger!Entry(status[s], to))
                                  ELSE history[s]]
  BY <1>2, <1>4, SameTables
<1>6. events' = [s \in Submissions |->
                   IF s \in done THEN Ledger!Announce(events[s], to, 1) ELSE events[s]]
  BY <1>1, <1>2, SameTables
<1>7. Ledger!Change(done, to)
  BY <1>2, <1>3, <1>5, <1>6, SameTables DEF Ledger!Change
<1> QED  BY <1>2, <1>3, <1>7, SameTables DEF Ledger!Next

(* Every step of a request is a step of the ledger, or none.               *)
LEMMA RowStepIsLegal ==
  ASSUME LedgerInv, RowStep
  PROVE  Ledger!Next
<1> USE DEF LedgerInv, IInv
<1>1. /\ status \in [Submissions -> Statuses \cup {None, "deleted"}]
      /\ history \in [Submissions -> Seq(Entries)]
      /\ events \in [Submissions -> [Announced -> Nat]]
  BY DEF TypeOK
<1>2. ASSUME NEW s \in Submissions, NEW v \in Versions \cup {NoVersion}, Create(s, v)
      PROVE  Ledger!Next
  <2>1. events' = [events EXCEPT ![s] = NoEvents]
    BY <1>1, <1>2 DEF Create, Fresh
  <2> QED  BY <1>2, <2>1, BeginIsLegal DEF Create
<1>3. ASSUME NEW s \in Submissions, NEW st \in Imported, Import(s, st)
      PROVE  Ledger!Next
  <2>1. events' = [events EXCEPT ![s] = NoEvents]
        /\ history' = [history EXCEPT ![s] = <<>>]
    BY <1>1, <1>3 DEF Import, Fresh
  <2> QED  BY <1>3, <2>1, BeginIsLegal DEF Import
<1>4. ASSUME NEW s \in Submissions, Delete(s) PROVE Ledger!Next
  BY <1>4 DEF Delete, Ledger!Discard, Ledger!Next
<1>5. ASSUME NEW s \in Submissions, Withdraw(s) PROVE Ledger!Next
  BY <1>5, MoveIsLegal, StatusFacts DEF Withdraw
<1>6. ASSUME NEW s \in Submissions, NEW to \in Statuses, EditorMove(s, to)
      PROVE  Ledger!Next
  BY <1>6, MoveIsLegal, EditorsAreLegal DEF EditorMove
<1> QED  BY <1>2, <1>3, <1>4, <1>5, <1>6 DEF RowStep

LEMMA RequestStepIsLegal ==
  ASSUME LedgerInv, NEW r \in Requests, RequestStep(r)
  PROVE  Ledger!Next \/ UNCHANGED <<status, history, events>>
<1> USE DEF LedgerInv, IInv
<1> DEFINE s == req[r].sub
<1>1. CASE SubmitCommits(r)
  <2>1. s \in Submissions /\ status[s] \in {"DRAFT", "REVISE_AND_RESUBMIT"}
    BY <1>1 DEF SubmitCommits, Locks, TypeOK, Points
  <2>2. "SUBMITTED" \in ValidFrom(status[s]) /\ "SUBMITTED" \in Statuses
    BY <2>1 DEF ValidFrom, Statuses
  <2> QED  BY <1>1, <2>1, <2>2, MoveIsLegal DEF SubmitCommits
<1>2. CASE EmbedCommits(r)
  <2>1. s \in Submissions /\ status[s] = None
    BY <1>2 DEF EmbedCommits, Locks, TypeOK, Points
  <2>2. events' = [events EXCEPT ![s] = Announce(NoEvents, "SUBMITTED", 1)]
    BY <1>2, <2>1 DEF EmbedCommits, Fresh
  <2> QED  BY <1>2, <2>1, <2>2, BeginIsLegal DEF EmbedCommits
<1>3. CASE ResubmitCommits(r)
  <2>1. s \in Submissions
    BY <1>3 DEF ResubmitCommits, TypeOK, Points
  <2> QED  BY <1>3, <2>1, MoveIsLegal, StatusFacts DEF ResubmitCommits
<1> QED
  BY <1>1, <1>2, <1>3 DEF RequestStep, SubmitChecks, EmbedChecks, ResubmitReads,
     ResubmitChecks, Crash

(* Rows that do not exist stay fresh, and no cascade begins.               *)
LEMMA FreshStep ==
  ASSUME LedgerInv, Ledger!Next \/ UNCHANGED <<status, history, events>>
  PROVE  Fresh'
<1> USE DEF LedgerInv, IInv, Fresh
<1>1. status \in [Submissions -> Statuses \cup {None, "deleted"}]
      /\ history \in [Submissions -> Seq(Entries)]
      /\ events \in [Submissions -> [Announced -> Nat]]
  BY DEF TypeOK
<1>2. ASSUME NEW s \in Submissions, NEW st, NEW trail, NEW counts, st # None,
             Ledger!Begin(s, st, trail, counts)
      PROVE  Fresh'
  BY <1>1, <1>2 DEF Ledger!Begin
<1>3. ASSUME NEW s \in Submissions, Ledger!Open(s) PROVE Fresh'
  BY <1>2, <1>3, StatusFacts, SameTables DEF Ledger!Open, None
<1>4. ASSUME NEW s \in Submissions, Ledger!Discard(s) PROVE Fresh'
  BY <1>1, <1>4 DEF Ledger!Discard, None
<1>5. ASSUME NEW S \in SUBSET Submissions, NEW to \in Statuses, Ledger!Change(S, to)
      PROVE  Fresh'
  BY <1>1, <1>5, StatusFacts DEF Ledger!Change
<1> QED  BY <1>3, <1>4, <1>5, SameTables DEF Ledger!Next

LEMMA NoCascadeStep ==
  ASSUME IInv, NoCascade, Cascades = {}, [Next]_vars
  PROVE  NoCascade' /\ \A r \in Requests : ~ CascadeStep(r)
<1> USE DEF NoCascade
<1>1. req \in [Requests -> RequestRecords]
  BY DEF IInv, TypeOK
<1>2. \A r \in Requests : ~ CascadeStep(r) /\ \A s \in Submissions : ~ CascadeFinds(r, s)
  BY DEF CascadeStep, CascadeWithdraws, CascadeLogs, CascadeAnnounces, CascadeFinds
<1>3. ASSUME NEW r \in Requests, RequestStep(r) PROVE NoCascade'
  <2>1. \A pc, s, v, via, seen : Req(pc, s, v, via, seen).pc = pc
    BY DEF Req
  <2>2. Idle.pc = "idle"
    BY <2>1 DEF Idle
  <2>3. CASE Goto(r, "swap")
    BY <1>1, <2>3 DEF Goto, RequestRecords
  <2>4. CASE \E x : req' = [req EXCEPT ![r] = x]
                    /\ x.pc \in {"idle", "submit", "embed", "check"}
    BY <1>1, <2>4
  <2> QED
    BY <1>3, <2>1, <2>2, <2>3, <2>4
       DEF RequestStep, SubmitChecks, SubmitCommits, EmbedChecks, EmbedCommits,
           ResubmitReads, ResubmitChecks, ResubmitCommits, Crash, Finish
<1>4. ASSUME req' = req PROVE NoCascade'
  BY <1>4
<1>5. ASSUME RowStep \/ BatchStep \/ FileStep \/ UNCHANGED vars PROVE NoCascade'
  <2>1. req' = req
    BY <1>5 DEF RowStep, Create, Import, Delete, Withdraw, EditorMove, BatchStep, Batch,
       FileStep, Upload, RemoveFile, ScanStarts, ScanEnds, vars
  <2> QED  BY <1>4, <2>1
<1>6. NoCascade'
  BY <1>2, <1>3, <1>5 DEF Next
<1> QED  BY <1>2, <1>6

LEMMA LedgerBegins == Init => LedgerInv /\ Ledger!Init
<1>1. Init => NoCascade
  BY DEF Init, NoCascade, Idle, Req
<1>2. Init => Fresh
  BY DEF Init, Fresh
<1>3. Init => Ledger!Init
  BY SameTables DEF Init, Ledger!Init, None
<1> QED  BY <1>1, <1>2, <1>3, InitInv DEF LedgerInv

LEMMA LedgerStep ==
  ASSUME Cascades = {}, NoRepeats, LedgerInv, [Next]_vars
  PROVE  LedgerInv' /\ (Ledger!Next \/ UNCHANGED <<status, history, events>>)
<1> USE SubmissionAssumption DEF LedgerInv
<1>1. NoCascade' /\ \A r \in Requests : ~ CascadeStep(r)
  BY NoCascadeStep
<1>2. Ledger!Next \/ UNCHANGED <<status, history, events>>
  <2>1. CASE RowStep
    BY <2>1, RowStepIsLegal
  <2>2. CASE BatchStep
    BY <2>2, BatchIsLegal DEF BatchStep, IInv, NoRepeats
  <2>3. ASSUME NEW r \in Requests, RequestStep(r)
        PROVE  Ledger!Next \/ UNCHANGED <<status, history, events>>
    BY <2>3, RequestStepIsLegal
  <2>4. CASE FileStep \/ UNCHANGED vars
    BY <2>4 DEF FileStep, Upload, RemoveFile, ScanStarts, ScanEnds, vars
  <2>5. ASSUME NEW r \in Requests, NEW s \in Submissions, CascadeFinds(r, s)
        PROVE  Ledger!Next \/ UNCHANGED <<status, history, events>>
    BY <2>5 DEF CascadeFinds
  <2> QED  BY <1>1, <2>1, <2>2, <2>3, <2>4, <2>5 DEF Next
<1>3. Fresh'
  BY <1>2, FreshStep
<1> QED  BY <1>1, <1>2, <1>3, StepInv

(* Where no cascade runs and no batch names a submission twice, requests   *)
(* that interleave at every read, lock and commit, and crash, change       *)
(* submissions as the ledger does: one legal step at a time, with exactly  *)
(* its history row and its event (submission.service.ts: updateStatus).    *)
THEOREM RequestsImplementLedger ==
  ASSUME Cascades = {},
         \A ids \in Batches : \A i, j \in DOMAIN ids : ids[i] = ids[j] => i = j
  PROVE  Spec => ImplementsLedger
<1>1. NoRepeats
  BY DEF NoRepeats
<1>2. LedgerInv /\ [Next]_vars => LedgerInv' /\ [Ledger!Next]_(Ledger!vars)
  BY <1>1, LedgerStep DEF Ledger!vars
<1> QED
  BY <1>2, LedgerBegins, PTL DEF Spec, ImplementsLedger, Ledger!Spec

=============================================================================
