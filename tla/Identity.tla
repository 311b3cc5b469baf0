------------------------------ MODULE Identity ------------------------------
(***************************************************************************)
(* The local copy of a user of the identity provider: what the signed      *)
(* webhook events of Zitadel (webhooks/zitadel.webhook.ts) and sign-in     *)
(* with a token (hooks/auth.ts) make of one row of users.                  *)
(*                                                                         *)
(* Zitadel sends every event in a request of its own, again when it is not *)
(* answered, and in no particular order; an event older than five minutes  *)
(* is refused, so any event may never arrive.  The transaction of a        *)
(* delivery waits for one that handles the same event or updates the same  *)
(* row, so a delivery is one step.                                         *)
(***************************************************************************)
EXTENDS Naturals, Sequences

CONSTANTS
  MaxEvents, \* bound: events of the user
  MaxTime    \* bound: timestamps; two events may bear the same

ASSUME IdentityAssumption == MaxEvents \in Nat /\ MaxTime \in Nat \ {0}

Types == {"added", "changed", "verified", "deactivated", "reactivated", "removed"}

(* An address is named for the event that set it; the row of a removed     *)
(* user has an anonymized one.                                             *)
Anonymized == MaxEvents + 1
Emails == 0..MaxEvents + 1

VARIABLES
  log,       \* the events of the user at Zitadel: type and created_at
  processed, \* events marked in zitadel_webhook_events
  user,      \* the row
  lastAt,    \* its lastEventAt; 0 is NULL
  guest,     \* a guest's row holds the user's first address
  \* history, read by no action
  base,      \* the row before the first event was applied
  applied,   \* events that changed the row
  ahead      \* events processed before an earlier one was

identityVars == <<log, processed, user, lastAt, guest, base, applied, ahead>>

Missing == [known |-> FALSE, email |-> 0, verified |-> FALSE, deleted |-> FALSE]
Rows == [known : BOOLEAN, email : Emails, verified : BOOLEAN, deleted : BOOLEAN]

IdentityInit ==
  /\ log = << >> /\ processed = {} /\ user = Missing /\ lastAt = 0
  /\ guest \in BOOLEAN
  /\ base = Missing /\ applied = {} /\ ahead = {}

(* What the handler of each type sets; only added and changed make a row.  *)
Effect(row, type, i) ==
  CASE type = "added" ->
         [row EXCEPT !.known = TRUE, !.email = i, !.verified = FALSE]
    [] type = "changed" -> [row EXCEPT !.known = TRUE, !.email = i]
    [] ~row.known /\ type \notin {"added", "changed"} -> row
    [] row.known /\ type = "verified" -> [row EXCEPT !.verified = TRUE]
    [] row.known /\ type = "deactivated" -> [row EXCEPT !.deleted = TRUE]
    [] row.known /\ type = "reactivated" -> [row EXCEPT !.deleted = FALSE]
    [] row.known /\ type = "removed" ->
         [row EXCEPT !.email = Anonymized, !.verified = FALSE, !.deleted = TRUE]

(* The row after the events of a log, those outside of S left out.         *)
Replay(events, start, S) ==
  LET after[n \in 0..Len(events)] ==
        IF n = 0 THEN start
        ELSE IF n \in S THEN Effect(after[n - 1], events[n].type, n)
        ELSE after[n - 1]
  IN  after[Len(events)]

(* The user as Zitadel has it.                                             *)
Truth == Replay(log, Missing, 1..Len(log))

-----------------------------------------------------------------------------
(* Zitadel: a user is added, changed, verified, deactivated and            *)
(* reactivated, and at last removed.  Clocks do not run backwards.         *)
Issue(type, at) ==
  /\ Len(log) < MaxEvents
  /\ CASE log = << >> -> type = "added"
       [] log # << >> ->
            /\ log[Len(log)].type # "removed" /\ type # "added"
            /\ type = "deactivated" => ~Truth.deleted
            /\ type = "reactivated" => Truth.deleted
            /\ at >= log[Len(log)].at
  /\ log' = Append(log, [type |-> type, at |-> at])
  /\ UNCHANGED <<processed, user, lastAt, guest, base, applied, ahead>>

(* Mutant: an event of the same time is applied again.                     *)
NotOlder(at) == lastAt <= at

(* Mutant: a row without a time takes no event.                            *)
NewerThanSome(at) == lastAt # 0 /\ lastAt < at

(* The guard every handler repeats: last_event_at IS NULL OR < $time.      *)
Fresh(at) == lastAt < at

(* Mutant: the insert is not guarded when the row is there.                *)
UpsertAnyway(i) ==
  \/ log[i].type \in {"added", "changed"}
  \/ user.known /\ Fresh(log[i].at)

(* Whether the statement of event i affects a row.                         *)
Affects(i) ==
  IF user.known THEN Fresh(log[i].at) ELSE log[i].type \in {"added", "changed"}

(* The address is another row's: unique violation, rollback, status 500.   *)
Clash(i) == guest /\ ~user.known /\ i = 1

Marked(i) == processed' = processed \cup {i}

(* A delivery.  What is stale, or about a user without a row, is marked as *)
(* processed all the same.                                                 *)
Deliver(i) ==
  /\ i \notin processed /\ ~Clash(i)
  /\ Marked(i)
  /\ ahead' = IF 1..i - 1 \subseteq processed THEN ahead ELSE ahead \cup {i}
  /\ IF Affects(i)
     THEN /\ user' = Effect(user, log[i].type, i)
          /\ lastAt' = log[i].at
          /\ applied' = applied \cup {i}
     ELSE UNCHANGED <<user, lastAt, applied>>
  /\ UNCHANGED <<log, guest, base>>

(* Mutant: the mark survives the rollback.                                 *)
MarkedFirst(i) == processed' = processed \cup {i}

RolledBack(i) == UNCHANGED processed

(* A delivery that fails: Zitadel will send the event again.               *)
DeliveryFails(i) ==
  /\ i \notin processed
  /\ RolledBack(i)
  /\ UNCHANGED <<log, user, lastAt, guest, base, applied, ahead>>

(* Sign-in with a token before any event made a row: the row is made from  *)
(* the claims, or the guest's row is taken over.  A token outlives what    *)
(* happens to its user.                                                    *)
SignIn(n) ==
  LET claims == [Missing EXCEPT !.known = TRUE, !.email = n] IN
  /\ ~user.known /\ n \in 1..Len(log) /\ log[n].type \in {"added", "changed"}
  /\ \E verified \in BOOLEAN : user' = [claims EXCEPT !.verified = verified]
  /\ base' = user'
  /\ guest' = (guest /\ n # 1)
  /\ UNCHANGED <<log, processed, lastAt, applied, ahead>>

IdentityNext ==
  \/ \E type \in Types, at \in 1..MaxTime : Issue(type, at)
  \/ \E i \in DOMAIN log : Deliver(i) \/ DeliveryFails(i) \/ SignIn(i)

IdentitySpec == IdentityInit /\ [][IdentityNext]_identityVars

-----------------------------------------------------------------------------
IdentityTypeOK ==
  /\ log \in Seq([type : Types, at : 1..MaxTime])
  /\ processed \subseteq DOMAIN log /\ applied \subseteq processed
  /\ user \in Rows /\ base \in Rows
  /\ lastAt \in 0..MaxTime
  /\ guest \in BOOLEAN /\ ahead \subseteq processed

(* Whatever order the events come in, the row is what those applied make   *)
(* of it in the order they happened.                                       *)
ReplayOfApplied == user = Replay(log, base, applied)

(* Events that come in order are all applied, so that the row is the user  *)
(* as Zitadel has it once the last has come -- repeated and failed         *)
(* deliveries included -- provided no two bear the same time and nobody    *)
(* signed in before the first.                                             *)
InOrderExact ==
  ( /\ ahead = {} /\ processed = DOMAIN log
    /\ base = Missing
    /\ \A i, j \in DOMAIN log : log[i].at = log[j].at => i = j )
  => user = Truth

(* What was delivered and left no trace had been overtaken: a newer event, *)
(* or one of the same time, is in the row; or it had itself overtaken an   *)
(* earlier one, and is of a kind that makes no row.                        *)
DroppedForNewer ==
  \A i \in processed \ applied :
    \/ \E j \in applied : log[j].at >= log[i].at
    \/ i \in ahead /\ log[i].type \notin {"added", "changed"}

(* Removal under the GDPR is final: no late event gives the row an address *)
(* again, verifies it or opens the account.                                *)
RemovalSticks == [][user.email = Anonymized => user' = user]_user
=============================================================================
