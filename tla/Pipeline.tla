------------------------------ MODULE Pipeline ------------------------------
(***************************************************************************)
(* The publication pipeline of one accepted submission                     *)
(* (apps/api/src/services/pipeline.service.ts and                          *)
(* inngest/functions/pipeline-workflow.ts).                                *)
(*                                                                         *)
(* Editors move the piece through the API: a request reads the stage       *)
(* twice, without a lock, and then updates the row by its id.  Some moves  *)
(* enqueue an event in the same transaction.  The workflow waits for these *)
(* events and moves the piece as well, with the same unlocked read; a step *)
(* that throws is run again.  An event that arrives while the workflow is  *)
(* not waiting for it is gone.                                             *)
(***************************************************************************)
EXTENDS Integers, Sequences

CONSTANTS
  Editors,         \* requests the API serves at the same time
  Retries,         \* times a step is run again (retries: 3 in the code)
  Timeouts,        \* may a wait exceed its 30 days
  MaxFaults,       \* bound: steps that crash, events delivered twice
  MaxHistory       \* bound: history rows, so moves

ASSUME PipelineAssumption ==
  /\ Retries \in Nat
  /\ Timeouts \in BOOLEAN
  /\ MaxFaults \in Nat
  /\ MaxHistory \in Nat

NoStage == "none"

Stages == {"COPYEDIT_PENDING", "COPYEDIT_IN_PROGRESS", "AUTHOR_REVIEW",
           "PROOFREAD", "READY_TO_PUBLISH", "PUBLISHED", "WITHDRAWN"}

ValidTo(from) ==
  CASE from = "COPYEDIT_PENDING" -> {"COPYEDIT_IN_PROGRESS", "WITHDRAWN"}
    [] from = "COPYEDIT_IN_PROGRESS" -> {"AUTHOR_REVIEW", "WITHDRAWN"}
    [] from = "AUTHOR_REVIEW" ->
         {"COPYEDIT_IN_PROGRESS", "PROOFREAD", "WITHDRAWN"}
    [] from = "PROOFREAD" -> {"READY_TO_PUBLISH", "AUTHOR_REVIEW", "WITHDRAWN"}
    [] from = "READY_TO_PUBLISH" -> {"PUBLISHED", "PROOFREAD", "WITHDRAWN"}
    [] OTHER -> {}

(* What the events say.  author-review-completed carries a flag: it is     *)
(* "approved" or "refused" here.                                           *)
NoEvent == "none"
EventNames == {"assigned", "copyedit", "approved", "refused", "proofread"}

(* The event of an editor's move that found the item at prev.              *)
EventFor(prev, to) ==
  CASE prev = "AUTHOR_REVIEW" /\ to = "PROOFREAD" -> "approved"
    [] prev = "AUTHOR_REVIEW" /\ to # "PROOFREAD" -> "refused"
    [] prev # "AUTHOR_REVIEW" /\ to = "AUTHOR_REVIEW" -> "copyedit"
    [] prev # "AUTHOR_REVIEW" /\ to = "READY_TO_PUBLISH" -> "proofread"
    [] OTHER -> NoEvent

(* The workflow's waits in their order: the events that end each one, and  *)
(* the stage it moves the piece to when it goes on.                        *)
Waits == 1..4
Ending == <<{"assigned"}, {"copyedit"}, {"approved", "refused"}, {"proofread"}>>
Target == <<"COPYEDIT_IN_PROGRESS", "AUTHOR_REVIEW", "PROOFREAD",
            "READY_TO_PUBLISH">>
Review == 3

VARIABLES
  stage,    \* pipeline_items.stage, NoStage before the row exists
  history,  \* the rows of pipeline_history, with who wrote them and the
            \* event enqueued along with them
  sent,     \* the events enqueued so far
  pending,  \* those on their way to the workflow
  req,      \* per editor's request: what it does next and what it has read
  wf,       \* the workflow: what it does next, its current wait, what it read
  tries,    \* attempts of the workflow's current step that failed
  faults

vars == <<stage, history, sent, pending, req, wf, tries, faults>>

item == <<stage, history>>
outbox == <<sent, pending>>

Row(from, to, by, ev) == [from |-> from, to |-> to, by |-> by, event |-> ev]
Req(pc, prev, seen, to) == [pc |-> pc, prev |-> prev, seen |-> seen, to |-> to]
Idle == Req("idle", NoStage, NoStage, NoStage)
Wf(pc, at, seen) == [pc |-> pc, at |-> at, seen |-> seen]

Room == Len(history) < MaxHistory

Enqueue(evs) == sent' = sent \cup evs /\ pending' = pending \cup evs

Init ==
  /\ stage = NoStage /\ history = <<>>
  /\ sent = {} /\ pending = {}
  /\ req = [e \in Editors |-> Idle]
  /\ wf = Wf("idle", 1, NoStage) /\ tries = 0 /\ faults = 0

-----------------------------------------------------------------------------
(* Editors.                                                                *)

(* create: the unique index on submission_id lets one insert through.      *)
CreateItem(by) ==
  /\ stage = NoStage /\ Room
  /\ stage' = "COPYEDIT_PENDING"
  /\ history' = Append(history, Row(NoStage, "COPYEDIT_PENDING", by, NoEvent))

Create ==
  /\ CreateItem("editor")
  /\ UNCHANGED <<outbox, req, wf, tries, faults>>

(* assignCopyeditorWithAudit, at any stage.                                *)
Assign ==
  /\ stage # NoStage
  /\ Enqueue({"assigned"})
  /\ UNCHANGED <<item, req, wf, tries, faults>>

(* updateStageWithAudit reads the previous stage for audit and event.      *)
MoveReads(e) ==
  /\ req[e] = Idle /\ stage # NoStage
  /\ req' = [req EXCEPT ![e] = Req("check", stage, NoStage, NoStage)]
  /\ UNCHANGED <<item, outbox, wf, tries, faults>>

(* Mutant: the move is checked against the first read. *)
MoveChecksFirstRead(e, to) ==
  /\ req[e].pc = "check" /\ to \in ValidTo(req[e].prev)
  /\ req' = [req EXCEPT ![e] = Req("write", @.prev, stage, to)]
  /\ UNCHANGED <<item, outbox, wf, tries, faults>>

(* updateStage reads the stage again and checks the move.                  *)
MoveChecks(e, to) ==
  /\ req[e].pc = "check" /\ to \in ValidTo(stage)
  /\ req' = [req EXCEPT ![e] = Req("write", @.prev, stage, to)]
  /\ UNCHANGED <<item, outbox, wf, tries, faults>>

(* UPDATE by id, history row with the stage read before, event; COMMIT.    *)
MoveWrites(e) ==
  LET r == req[e]
      ev == EventFor(r.prev, r.to)
  IN  /\ r.pc = "write" /\ Room
      /\ stage' = r.to
      /\ history' = Append(history, Row(r.seen, r.to, "editor", ev))
      /\ Enqueue({ev} \ {NoEvent})
      /\ req' = [req EXCEPT ![e] = Idle]
      /\ UNCHANGED <<wf, tries, faults>>

(* The request is refused (an invalid move) or stops: nothing is written.  *)
MoveEnds(e) ==
  /\ req[e] # Idle
  /\ req' = [req EXCEPT ![e] = Idle]
  /\ UNCHANGED <<item, outbox, wf, tries, faults>>

-----------------------------------------------------------------------------
(* The workflow.                                                           *)

(* The trigger slate/submission.accepted arrives.  Acceptance enqueues     *)
(* hopper/submission.accepted; no code sends the trigger.                  *)
WfStarts ==
  /\ wf.pc = "idle"
  /\ wf' = Wf("create", 1, NoStage)
  /\ UNCHANGED <<item, outbox, req, tries, faults>>

WfCreates ==
  /\ wf.pc = "create"
  /\ CreateItem("workflow")
  /\ wf' = [wf EXCEPT !.pc = "created"]
  /\ UNCHANGED <<outbox, req, tries, faults>>

WfReads ==
  /\ wf.pc = "advance" /\ Target[wf.at] \in ValidTo(stage)
  /\ wf' = Wf("write", wf.at, stage)
  /\ UNCHANGED <<item, outbox, req, tries, faults>>

(* The workflow's move enqueues no event: it calls updateStage.            *)
WfWrites ==
  /\ wf.pc = "write" /\ Room
  /\ stage' = Target[wf.at]
  /\ history' = Append(history, Row(wf.seen, Target[wf.at], "workflow", NoEvent))
  /\ wf' = [wf EXCEPT !.pc = "written"]
  /\ UNCHANGED <<outbox, req, tries, faults>>

(* The step's result reached Inngest, which registers the next wait.       *)
WfReturns ==
  /\ wf.pc \in {"created", "written"}
  /\ wf' = IF wf.pc = "created" THEN Wf("wait", 1, NoStage)
           ELSE IF wf.at = 4 THEN Wf("ready", 4, NoStage)
           ELSE Wf("wait", wf.at + 1, NoStage)
  /\ tries' = 0
  /\ UNCHANGED <<item, outbox, req, faults>>

(* Mutant: a step that fails is not run again. *)
GivesUp == wf' = Wf("failed", wf.at, NoStage) /\ UNCHANGED tries

(* The step throws: Inngest runs it again from its start, or gives up.     *)
TryAgain ==
  IF tries < Retries
  THEN /\ tries' = tries + 1
       /\ wf' = Wf(IF wf.pc \in {"create", "created"} THEN "create" ELSE "advance",
                   wf.at, NoStage)
  ELSE /\ wf' = Wf("failed", wf.at, NoStage)
       /\ UNCHANGED tries

(* The item exists already, or the move is invalid from where it is.       *)
WfRefused ==
  /\ \/ wf.pc = "create" /\ stage # NoStage
     \/ wf.pc = "advance" /\ Target[wf.at] \notin ValidTo(stage)
  /\ TryAgain
  /\ UNCHANGED <<item, outbox, req, faults>>

(* The process stops, before the commit or after it.                       *)
WfCrashes ==
  /\ wf.pc \in {"create", "created", "advance", "write", "written"}
  /\ faults < MaxFaults /\ faults' = faults + 1
  /\ TryAgain
  /\ UNCHANGED <<item, outbox, req>>

(* Mutant: any answer to the review counts. *)
GoesOnAnyway(ev) == wf' = Wf("advance", wf.at, NoStage)

(* A wait that ends by event ev, or by its timeout (NoEvent): only the     *)
(* review looks at which.                                                  *)
GoesOn(ev) ==
  wf' = IF wf.at = Review /\ ev # "approved"
        THEN Wf("author-rejected", wf.at, NoStage)
        ELSE Wf("advance", wf.at, NoStage)

(* The outbox delivers at least once, so it may deliver again (keep).      *)
EventArrives(ev, keep) ==
  /\ ev \in pending
  /\ IF keep THEN /\ faults < MaxFaults
                  /\ faults' = faults + 1
                  /\ UNCHANGED pending
             ELSE pending' = pending \ {ev} /\ UNCHANGED faults
  /\ IF wf.pc = "wait" /\ ev \in Ending[wf.at] THEN GoesOn(ev) ELSE UNCHANGED wf
  /\ UNCHANGED <<item, sent, req, tries>>

WaitTimesOut ==
  /\ Timeouts /\ wf.pc = "wait"
  /\ GoesOn(NoEvent)
  /\ UNCHANGED <<item, outbox, req, tries, faults>>

EditorStep(e) ==
  \/ MoveReads(e)
  \/ \E to \in Stages : MoveChecks(e, to)
  \/ MoveWrites(e)
  \/ MoveEnds(e)

WorkflowStep ==
  WfStarts \/ WfCreates \/ WfReads \/ WfWrites \/ WfReturns \/ WfRefused

Next ==
  \/ Create
  \/ Assign
  \/ \E e \in Editors : EditorStep(e)
  \/ WorkflowStep
  \/ WfCrashes
  \/ \E ev \in EventNames, keep \in BOOLEAN : EventArrives(ev, keep)
  \/ WaitTimesOut

Spec == Init /\ [][Next]_vars

(* Inngest runs the workflow on, and the outbox delivers; editors need not *)
(* act and waits need not time out.                                        *)
Fairness ==
  /\ WF_vars(WorkflowStep)
  /\ \A ev \in EventNames : WF_vars(\E keep \in BOOLEAN : EventArrives(ev, keep))

FairSpec == Spec /\ Fairness

-----------------------------------------------------------------------------
(* Properties                                                              *)

TypeOK ==
  /\ stage \in Stages \cup {NoStage}
  /\ history \in Seq([from : Stages \cup {NoStage}, to : Stages,
                      by : {"editor", "workflow"},
                      event : EventNames \cup {NoEvent}])
  /\ Len(history) <= MaxHistory
  /\ sent \subseteq EventNames /\ pending \subseteq sent
  /\ req \in [Editors -> [pc : {"idle", "check", "write"},
                          prev : Stages \cup {NoStage},
                          seen : Stages \cup {NoStage},
                          to : Stages \cup {NoStage}]]
  /\ wf \in [pc : {"idle", "create", "created", "wait", "advance", "write",
                   "written", "ready", "author-rejected", "failed"},
             at : Waits, seen : Stages \cup {NoStage}]
  /\ tries \in 0..Retries
  /\ faults \in 0..MaxFaults

(* Moves may overtake each other, yet every row of the history is a valid  *)
(* move away from a stage the item was in before: so nothing is published  *)
(* that was not proofread, and reviewed by its author, at some time, and   *)
(* the item is created once, by an editor or by the workflow.              *)
MovesLegal ==
  \A i \in 1..Len(history) :
    IF i = 1 THEN history[i].from = NoStage
    ELSE /\ history[i].to \in ValidTo(history[i].from)
         /\ \E j \in 1..(i - 1) : history[j].to = history[i].from

(* The workflow sends a piece to the proofreader only after an editor      *)
(* has reported the author's approval; a refusal or silence ends it.       *)
ProofreadNeedsApproval ==
  \A i \in 1..Len(history) :
    history[i].by = "workflow" /\ history[i].to = "PROOFREAD"
      => "approved" \in sent

(* A copyeditor's assignment the workflow waits for gets the piece into    *)
(* copyediting, although events repeat and steps crash and are run again.  *)
AssignmentAdvances ==
  (wf.pc = "wait" /\ wf.at = 1 /\ "assigned" \in pending)
    ~> (stage # "COPYEDIT_PENDING")

=============================================================================
