-------------------------- MODULE SubmissionLedger --------------------------
(***************************************************************************)
(* What the submission service promises to writers and editors: a status   *)
(* change is one atomic step along VALID_STATUS_TRANSITIONS that leaves    *)
(* one history row and, where the new status is announced, one outbox      *)
(* event.  Nothing is said of requests, locks, reads or crashes: module    *)
(* Submission has those and implements this one.                           *)
(***************************************************************************)
EXTENDS SubmissionStatus

CONSTANT Submissions

VARIABLES
  status,   \* "none" before the row exists, "deleted" after a DRAFT is deleted
  history,  \* the rows of submission_history, in the order of changed_at
  events    \* outbox events enqueued, by the status they report

vars == <<status, history, events>>

Init ==
  /\ status = [s \in Submissions |-> "none"]
  /\ history = [s \in Submissions |-> <<>>]
  /\ events = [s \in Submissions |-> NoEvents]

Begin(s, st, trail, counts) ==
  /\ status[s] = "none"
  /\ status' = [status EXCEPT ![s] = st]
  /\ history' = [history EXCEPT ![s] = trail]
  /\ events' = [events EXCEPT ![s] = counts]

Draft == <<Entry("none", "DRAFT")>>

(* A draft; a draft or a closed submission imported from another instance, *)
(* with no history; a form filled in on an embedding site.                 *)
Open(s) ==
  \/ Begin(s, "DRAFT", Draft, NoEvents)
  \/ \E st \in {"DRAFT"} \cup Terminal : Begin(s, st, <<>>, NoEvents)
  \/ Begin(s, "SUBMITTED", Append(Draft, Entry("DRAFT", "SUBMITTED")),
           Announce(NoEvents, "SUBMITTED", 1))

Discard(s) ==
  /\ status[s] = "DRAFT"
  /\ status' = [status EXCEPT ![s] = "deleted"]
  /\ history' = [history EXCEPT ![s] = <<>>]
  /\ UNCHANGED events

(* One decision, or a batch of them: every submission of S becomes "to".   *)
Change(S, to) ==
  /\ \A s \in S : to \in ValidFrom(status[s])
  /\ status' = [s \in Submissions |-> IF s \in S THEN to ELSE status[s]]
  /\ history' = [s \in Submissions |->
                   IF s \in S THEN Append(history[s], Entry(status[s], to))
                              ELSE history[s]]
  /\ events' = [s \in Submissions |->
                  IF s \in S THEN Announce(events[s], to, 1) ELSE events[s]]

Next ==
  \/ \E s \in Submissions : Open(s) \/ Discard(s)
  \/ \E S \in SUBSET Submissions, to \in Statuses : S # {} /\ Change(S, to)

Spec == Init /\ [][Next]_vars
=============================================================================
