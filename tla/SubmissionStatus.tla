-------------------------- MODULE SubmissionStatus --------------------------
(***************************************************************************)
(* The statuses of a submission and the two transition tables that every   *)
(* status change is checked against (packages/types/src/submission.ts),    *)
(* and the outbox events a change is announced with.                       *)
(***************************************************************************)
EXTENDS Integers, Sequences, FiniteSets

Statuses == {"DRAFT", "SUBMITTED", "UNDER_REVIEW", "ACCEPTED", "REJECTED",
             "HOLD", "REVISE_AND_RESUBMIT", "WITHDRAWN"}

Terminal == {"ACCEPTED", "REJECTED", "WITHDRAWN"}

(* What findSiblingSubmissions and the cascade's guard call active.        *)
Active == {"SUBMITTED", "UNDER_REVIEW", "HOLD"}

(* VALID_STATUS_TRANSITIONS[from]: what isValidStatusTransition lets a     *)
(* submitter do (and the union of what anyone may do).                     *)
ValidFrom(from) ==
  CASE from = "DRAFT"               -> {"SUBMITTED", "WITHDRAWN"}
    [] from = "SUBMITTED"           -> {"UNDER_REVIEW", "REJECTED", "WITHDRAWN"}
    [] from = "UNDER_REVIEW"        -> {"ACCEPTED", "REJECTED", "HOLD",
                                        "REVISE_AND_RESUBMIT", "WITHDRAWN"}
    [] from = "HOLD"                -> {"UNDER_REVIEW", "ACCEPTED", "REJECTED",
                                        "REVISE_AND_RESUBMIT", "WITHDRAWN"}
    [] from = "REVISE_AND_RESUBMIT" -> {"SUBMITTED", "WITHDRAWN"}
    [] OTHER                        -> {}

(* EDITOR_ALLOWED_TRANSITIONS[from].                                       *)
EditorFrom(from) ==
  CASE from = "SUBMITTED"           -> {"UNDER_REVIEW", "REJECTED"}
    [] from = "UNDER_REVIEW"        -> {"ACCEPTED", "REJECTED", "HOLD",
                                        "REVISE_AND_RESUBMIT"}
    [] from = "HOLD"                -> {"UNDER_REVIEW", "ACCEPTED", "REJECTED",
                                        "REVISE_AND_RESUBMIT"}
    [] OTHER                        -> {}

(* A change to one of these statuses enqueues the outbox event that        *)
(* reports it: hopper/submission.submitted, .accepted, .rejected,          *)
(* .revise_and_resubmit or .withdrawn.                                     *)
Announced == {"SUBMITTED", "ACCEPTED", "REJECTED", "REVISE_AND_RESUBMIT",
              "WITHDRAWN"}

(* The events enqueued so far, with n more for a change to status "to".    *)
Announce(counts, to, n) ==
  [k \in Announced |-> IF k = to THEN counts[k] + n ELSE counts[k]]

NoEvents == [k \in Announced |-> 0]

(* A row of submission_history; "none" stands for a null from_status.      *)
Entry(from, to) == [from |-> from, to |-> to]

Entries == [from : Statuses \cup {"none"}, to : Statuses]

Copies(entry, n) == [i \in 1..n |-> entry]

(* How often a history says that the submission became "to".               *)
TimesReached(trail, to) == Cardinality({i \in DOMAIN trail : trail[i].to = to})
=============================================================================
