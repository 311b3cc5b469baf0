----------------------------- MODULE Migration -----------------------------
(***************************************************************************)
(* A writer moves to another instance (services/migration.service.ts and   *)
(* services/migration-bundle.service.ts): the destination asks, the writer *)
(* approves at the origin, a bundle of the writer's submissions is posted  *)
(* and imported, and the destination reports completion, upon which the    *)
(* origin deactivates the account.                                         *)
(*                                                                         *)
(* The two databases share nothing, every message is sent once, and every  *)
(* handler reads a row, works, and updates it later by id.  All endpoints  *)
(* authenticate the peer by a trust row, which may be revoked meanwhile:   *)
(* the module composes migrations with Trust.                              *)
(***************************************************************************)
EXTENDS Trust

CONSTANTS
  Origin, Destination, \* the instances of the writer's two accounts
  Target,              \* the organization of Destination that imports
  Migrations,          \* ids of migration records
  Pieces,              \* the writer's submissions
  Approvals,           \* approval requests at the origin that can be open at once
  MaxDisturbances      \* bound: new work, overlapping requests, decisions
                       \* against the migration, faults

ASSUME MigrationAssumption ==
  /\ Origin \in Instances /\ Destination \in Instances /\ Origin # Destination
  /\ Target \in Orgs /\ Home[Target] = Destination
  /\ "migrate" \in Capabilities /\ Migrations # {}
  /\ MaxDisturbances \in Nat

OutStatuses == {"none", "PENDING_APPROVAL", "BUNDLE_SENT", "COMPLETED", "FAILED",
                "REJECTED", "CANCELLED"}
InStatuses == {"none", "PENDING", "PROCESSING", "CANCELLED"}

TERMINAL_STATUSES == {"COMPLETED", "FAILED", "REJECTED", "CANCELLED"}

Kinds == {"closed", "active"}
Bundles == [Kinds -> SUBSET Pieces]

(* An approval: what it does next (importing a part of the bundle is named *)
(* for the part), for which migration, with what bundle, and whether the   *)
(* origin still waits for the answer.                                      *)
Importing == Kinds \cup {"mark"}
Runs == [pc : {"idle", "pack", "post", "acked", "refused"} \cup Importing,
         m : Migrations, bundle : Bundles, waiting : BOOLEAN]

Requests == {"checked", "answered"} \X Migrations
Decisions == {"reject", "cancel", "cancel_inbound"} \X Migrations

VARIABLES
  work,     \* per piece at the origin: "absent" or the kind of its status
  out,      \* status of the origin's record
  inn,      \* status of the destination's record
  asks,     \* requests on their way: "checked" at the origin, which has still
            \* to insert its record, or "answered", and it is the destination
  run,      \* per approval
  deciding, \* rejections and cancellations between their read and UPDATE
  imported, \* pieces imported by Target
  notices,  \* completion notices on their way
  leaving,  \* migrations of which the account is deactivated, the status not
  moved,    \* the account is deactivated (migratedAt)
  disturbances,
  \* history, read by no action
  packed,   \* per migration: the bundles assembled
  lost      \* migrations whose completion notice was lost or refused

migVars == <<work, out, inn, asks, run, deciding, imported, notices, leaving, moved,
             disturbances, packed, lost>>
vars == <<trustVars, migVars>>

NoBundle == [part \in Kinds |-> {}]
Idle == [pc |-> "idle", m |-> CHOOSE m \in Migrations : TRUE, bundle |-> NoBundle,
         waiting |-> FALSE]

Init ==
  /\ TrustInit
  /\ work \in [Pieces -> {"closed", "active"}]
  /\ out = [m \in Migrations |-> "none"]
  /\ inn = [m \in Migrations |-> "none"]
  /\ run = [p \in Approvals |-> Idle]
  /\ asks = {} /\ deciding = {} /\ imported = {} /\ notices = {} /\ leaving = {}
  /\ moved = FALSE /\ disturbances = 0
  /\ packed = [m \in Migrations |-> {}]
  /\ lost = {}

SetOut(m, status) == out' = [out EXCEPT ![m] = status]
SetIn(m, status) == inn' = [inn EXCEPT ![m] = status]
Set(p, r) == run' = [run EXCEPT ![p] = r]
Goto(p, next) == run' = [run EXCEPT ![p].pc = next]

(* The partial unique index on (user, direction, peer_domain).             *)
Active(status) == status \notin TERMINAL_STATUSES \cup {"none"}
Collides(record, m) == \E n \in Migrations \ {m} : Active(record[n])

(* The answer reaches an origin that still waits for it, or nobody.        *)
Answer(r, pc) == IF r.waiting THEN [r EXCEPT !.pc = pc] ELSE Idle

(* Ids, and requests that are not running, are interchangeable.            *)
Unused(m) == out[m] = "none" /\ <<"checked", m>> \notin asks
NewId == CHOOSE m \in Migrations : Unused(m)
IdleRun == CHOOSE p \in Approvals : run[p].pc = "idle"

Disturbance == disturbances < MaxDisturbances /\ disturbances' = disturbances + 1

-----------------------------------------------------------------------------
(* The writer goes on working at the origin: submits, is decided upon, is  *)
(* asked to revise, sends the revision.                                    *)
Works(s) ==
  /\ Disturbance
  /\ \E kind \in {"closed", "active", "revise"} :
       /\ <<work[s], kind>> \in {<<"absent", "active">>, <<"active", "closed">>,
                                 <<"active", "revise">>, <<"revise", "active">>}
       /\ work' = [work EXCEPT ![s] = kind]
  /\ UNCHANGED <<trustVars, out, inn, asks, run, deciding, imported, notices,
                 leaving, moved, packed, lost>>

(* requestMigration calls handleMigrationRequest, which reads the account, *)
(* its records and the trust; a second request meanwhile counts as a       *)
(* disturbance; ...                                                        *)
AskChecks(m) ==
  /\ Grants(Target, Origin, "migrate")
  /\ Authenticated(Destination, Origin)
  /\ \E o \in Residents(Origin) : Grants(o, Destination, "migrate")
  /\ ~moved /\ Unused(m) /\ m = NewId /\ ~Collides(out, m)
  /\ asks' = asks \cup {<<"checked", m>>}
  /\ IF \E n \in Migrations : <<"checked", n>> \in asks THEN Disturbance
     ELSE UNCHANGED disturbances
  /\ UNCHANGED <<trustVars, work, out, inn, run, deciding, imported, notices,
                 leaving, moved, packed, lost>>

(* ... the insert that follows repeats none of it but, by the unique index,*)
(* the check for an active record.  It may fail, or the process die.       *)
AskInserts(m) ==
  /\ <<"checked", m>> \in asks
  /\ \/ /\ ~Collides(out, m)
        /\ SetOut(m, "PENDING_APPROVAL")
        /\ asks' = (asks \ {<<"checked", m>>}) \cup {<<"answered", m>>}
     \/ asks' = asks \ {<<"checked", m>>} /\ UNCHANGED out
  /\ UNCHANGED <<trustVars, work, inn, run, deciding, imported, notices,
                 leaving, moved, disturbances, packed, lost>>

(* The origin's answer: the destination inserts its record, unless the     *)
(* writer has an active one there, the answer is late, or the process died.*)
AskAnswered(m) ==
  /\ <<"answered", m>> \in asks
  /\ asks' = asks \ {<<"answered", m>>}
  /\ IF Collides(inn, m) THEN UNCHANGED inn ELSE SetIn(m, "PENDING") \/ UNCHANGED inn
  /\ UNCHANGED <<trustVars, work, out, run, deciding, imported, notices,
                 leaving, moved, disturbances, packed, lost>>

-----------------------------------------------------------------------------
(* approveMigration at the origin.                                         *)
Approve(p, m) ==
  /\ run[p].pc = "idle" /\ p = IdleRun /\ out[m] = "PENDING_APPROVAL"
  /\ Set(p, [Idle EXCEPT !.pc = "pack", !.m = m, !.waiting = TRUE])
  /\ UNCHANGED <<trustVars, work, out, inn, asks, deciding, imported, notices,
                 leaving, moved, disturbances, packed, lost>>

(* assembleBundleForUser: REVISE_AND_RESUBMIT is in neither list.          *)
Assembled == [part \in Kinds |-> {s \in Pieces : work[s] = part}]

Pack(p) ==
  /\ run[p].pc = "pack"
  /\ run' = [run EXCEPT ![p].pc = "post", ![p].bundle = Assembled]
  /\ packed' = [packed EXCEPT ![run[p].m] = @ \cup {Assembled}]
  /\ UNCHANGED <<trustVars, work, out, inn, asks, deciding, imported, notices,
                 leaving, moved, disturbances, lost>>

(* handleBundleDelivery starts: an answer at once, or the import.          *)
(* Mutant: a migration that was cancelled counts as done, too.             *)
DoneWhenNotPending(m) ==
  IF ~Authenticated(Origin, Destination) \/ inn[m] = "none" THEN "refused"
  ELSE IF inn[m] = "PENDING" THEN "closed" ELSE "acked"

DeliveryAnswer(m) ==
  IF ~Authenticated(Origin, Destination) THEN "refused"
  ELSE CASE inn[m] = "PENDING" -> "closed"
         [] inn[m] = "PROCESSING" -> "acked"
         [] OTHER -> "refused"

Deliver(p) ==
  LET r == run[p]
      next == DeliveryAnswer(r.m)
  IN
  /\ r.pc = "post"
  /\ Set(p, IF next = "closed" THEN [r EXCEPT !.pc = next] ELSE Answer(r, next))
  /\ UNCHANGED <<trustVars, work, out, inn, asks, deciding, imported, notices,
                 leaving, moved, disturbances, packed, lost>>

(* A part of the bundle is imported in one transaction: what is there      *)
(* already is skipped, the rest inserted.  When another delivery inserts   *)
(* the same piece in between, the unique index fails it (HandlerFails).    *)
Import(p) ==
  LET r == run[p] IN
  /\ r.pc \in Kinds
  /\ imported' = imported \cup r.bundle[r.pc]
  /\ Goto(p, IF r.pc = "closed" THEN "active" ELSE "mark")
  /\ UNCHANGED <<trustVars, work, out, inn, asks, deciding, notices, leaving,
                 moved, disturbances, packed, lost>>

(* Mutant: no notice when the origin no longer waits for the answer.       *)
NotifyWhileWaiting(r) == notices' = IF r.waiting THEN notices \cup {r.m} ELSE notices

Notify(r) == notices' = notices \cup {r.m}

(* PROCESSING, whatever the record says by now, and a notice nobody waits  *)
(* for.  (The index refuses a second active record: HandlerFails.)         *)
MarkProcessing(p) ==
  LET r == run[p] IN
  /\ r.pc = "mark" /\ ~Collides(inn, r.m)
  /\ SetIn(r.m, "PROCESSING")
  /\ Notify(r)
  /\ Set(p, Answer(r, "acked"))
  /\ UNCHANGED <<trustVars, work, out, asks, deciding, imported, leaving,
                 moved, disturbances, packed, lost>>

(* An error in the destination's handler: 500.                             *)
HandlerFails(p) ==
  /\ Disturbance
  /\ run[p].pc \in Importing
  /\ Set(p, Answer(run[p], "refused"))
  /\ UNCHANGED <<trustVars, work, out, inn, asks, deciding, imported, notices,
                 leaving, moved, packed, lost>>

(* The origin's fetch times out or the origin dies: the handler at the     *)
(* destination runs on, the record stays as it is.                         *)
OriginGivesUp(p) ==
  LET r == run[p] IN
  /\ Disturbance
  /\ r.waiting
  /\ Set(p, IF r.pc = "post" \/ r.pc \in Importing
            THEN [r EXCEPT !.waiting = FALSE] ELSE Idle)
  /\ UNCHANGED <<trustVars, work, out, inn, asks, deciding, imported, notices,
                 leaving, moved, packed, lost>>

(* The request never reaches the destination.                              *)
PostLost(p) ==
  /\ Disturbance
  /\ run[p].pc = "post"
  /\ Set(p, Idle)
  /\ UNCHANGED <<trustVars, work, out, inn, asks, deciding, imported, notices,
                 leaving, moved, packed, lost>>

(* 200: BUNDLE_SENT by id; it fails over the index when the record was     *)
(* terminal and another migration has begun.                               *)
BundleSent(p) ==
  LET r == run[p] IN
  /\ r.pc = "acked"
  /\ Set(p, Idle)
  /\ IF Collides(out, r.m) THEN UNCHANGED out ELSE SetOut(r.m, "BUNDLE_SENT")
  /\ UNCHANGED <<trustVars, work, inn, asks, deciding, imported, notices,
                 leaving, moved, disturbances, packed, lost>>

(* Any other answer: FAILED by id.                                         *)
BundleRefused(p) ==
  LET r == run[p] IN
  /\ r.pc = "refused"
  /\ Set(p, Idle)
  /\ SetOut(r.m, "FAILED")
  /\ UNCHANGED <<trustVars, work, inn, asks, deciding, imported, notices,
                 leaving, moved, disturbances, packed, lost>>

-----------------------------------------------------------------------------
(* rejectMigration and cancelMigration: a read in one transaction, the     *)
(* update by id in another.                                                *)
DecideReads(kind, m) ==
  /\ Disturbance
  /\ CASE kind = "reject" -> out[m] = "PENDING_APPROVAL"
       [] kind = "cancel" -> Active(out[m])
       [] kind = "cancel_inbound" -> Active(inn[m])
  /\ deciding' = deciding \cup {<<kind, m>>}
  /\ UNCHANGED <<trustVars, work, out, inn, asks, run, imported, notices,
                 leaving, moved, packed, lost>>

DecideWrites(kind, m) ==
  /\ <<kind, m>> \in deciding
  /\ deciding' = deciding \ {<<kind, m>>}
  /\ CASE kind = "reject" -> SetOut(m, "REJECTED") /\ UNCHANGED inn
       [] kind = "cancel" -> SetOut(m, "CANCELLED") /\ UNCHANGED inn
       [] kind = "cancel_inbound" -> SetIn(m, "CANCELLED") /\ UNCHANGED out
  /\ UNCHANGED <<trustVars, work, asks, run, imported, notices, leaving,
                 moved, disturbances, packed, lost>>

-----------------------------------------------------------------------------
(* handleMigrationComplete: any status will do; the account first...       *)
Complete(m) ==
  /\ m \in notices /\ Authenticated(Destination, Origin)
  /\ notices' = notices \ {m}
  /\ moved' = TRUE
  /\ leaving' = leaving \cup {m}
  /\ UNCHANGED <<trustVars, work, out, inn, asks, run, deciding, imported,
                 disturbances, packed, lost>>

(* ... then the record.                                                    *)
CompleteWrites(m) ==
  /\ m \in leaving
  /\ leaving' = leaving \ {m}
  /\ SetOut(m, "COMPLETED")
  /\ UNCHANGED <<trustVars, work, inn, asks, run, deciding, imported, notices,
                 moved, disturbances, packed, lost>>

CompleteDies(m) ==
  /\ m \in leaving
  /\ leaving' = leaving \ {m}
  /\ UNCHANGED <<trustVars, work, out, inn, asks, run, deciding, imported,
                 notices, moved, disturbances, packed, lost>>

NoticeLost(m) ==
  /\ m \in notices
  /\ notices' = notices \ {m}
  /\ lost' = lost \cup {m}
  /\ UNCHANGED <<trustVars, work, out, inn, asks, run, deciding, imported,
                 leaving, moved, disturbances, packed>>

-----------------------------------------------------------------------------
Running(p) ==
  \/ Pack(p) \/ Deliver(p) \/ Import(p) \/ MarkProcessing(p)
  \/ HandlerFails(p) \/ OriginGivesUp(p) \/ PostLost(p) \/ BundleSent(p)
  \/ BundleRefused(p)

Noticing(m) == Complete(m) \/ NoticeLost(m)

Migrating ==
  \/ \E s \in Pieces : Works(s)
  \/ \E m \in Migrations :
       \/ AskChecks(m) \/ AskInserts(m) \/ AskAnswered(m)
       \/ CompleteWrites(m) \/ CompleteDies(m) \/ Noticing(m)
  \/ \E p \in Approvals : Running(p) \/ \E m \in Migrations : Approve(p, m)
  \/ \E kind \in {"reject", "cancel", "cancel_inbound"}, m \in Migrations :
       DecideReads(kind, m) \/ DecideWrites(kind, m)

Next == Migrating \/ (TrustNext /\ UNCHANGED migVars)

Spec == Init /\ [][Next]_vars

(* A notice that was sent arrives, is refused or is lost.                  *)
FairSpec == Spec /\ \A m \in Migrations : WF_vars(Noticing(m))

-----------------------------------------------------------------------------
TypeOK ==
  /\ TrustTypeOK
  /\ work \in [Pieces -> {"absent", "closed", "active", "revise"}]
  /\ out \in [Migrations -> OutStatuses]
  /\ inn \in [Migrations -> InStatuses]
  /\ asks \in SUBSET Requests
  /\ run \in [Approvals -> Runs]
  /\ deciding \in SUBSET Decisions
  /\ imported \in SUBSET Pieces
  /\ notices \in SUBSET Migrations /\ leaving \in SUBSET Migrations
  /\ moved \in BOOLEAN /\ disturbances \in 0..MaxDisturbances
  /\ packed \in [Migrations -> SUBSET Bundles]
  /\ lost \in SUBSET Migrations

Contents(bundle) == bundle["closed"] \cup bundle["active"]

Arrived(m) == \E bundle \in packed[m] : Contents(bundle) \subseteq imported

(* Nobody leaves without the work: once the origin holds a migration for   *)
(* sent or completed, or has deactivated the account, all of some bundle   *)
(* assembled for it is at the destination -- across refused and repeated   *)
(* deliveries, two approvals at once, cancellations that are overwritten,  *)
(* and answers that come when the origin has given up.                     *)
WorkArrived ==
  /\ \A m \in Migrations : out[m] \in {"BUNDLE_SENT", "COMPLETED"} => Arrived(m)
  /\ moved => \E m \in Migrations : Arrived(m)

(* A writer whose bundle was sent is moved, unless the one completion      *)
(* notice got lost; that the record's status may by then be overwritten    *)
(* does not matter.                                                        *)
ApprovedMoves ==
  \A m \in Migrations : out[m] = "BUNDLE_SENT" ~> (moved \/ m \in lost)
=============================================================================
