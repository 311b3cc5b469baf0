------------------------------ MODULE Contract ------------------------------
(***************************************************************************)
(* One contract between its editors, the Inngest contract workflow and     *)
(* Documenso's webhooks (apps/api/src/services/contract.service.ts,        *)
(* inngest/functions/contract-workflow.ts, webhooks/documenso.webhook.ts). *)
(*                                                                         *)
(* The workflow's first step creates a document in Documenso and then      *)
(* records its id; Inngest runs the step again when it fails or when its   *)
(* result is lost.  Documenso delivers a webhook for every signing and     *)
(* completion until it gets a 200, so deliveries repeat, overlap and       *)
(* arrive in any order.  Inngest hands an event to a workflow only if it   *)
(* is already waiting for it.                                              *)
(***************************************************************************)
EXTENDS Integers, FiniteSets

CONSTANTS
  Handlers,    \* API processes serving Documenso deliveries at the same time
  Retries,     \* times the step is run again (retries: 3 in the code)
  MaxFaults,   \* bound: deliveries cut off and Inngest events not sent
  Editing      \* do editors send and void the contract by hand

ASSUME ContractAssumption ==
  /\ Retries \in Nat
  /\ MaxFaults \in Nat
  /\ Editing \in BOOLEAN

Docs == 1..(Retries + 1)  \* one document per run of the step
NoDoc == 0

Kinds == {"signed", "completed"}   \* DOCUMENT_SIGNED, DOCUMENT_COMPLETED
Keys == Docs \X Kinds              \* documenso_id: `${event}:${id}`

ContractStatuses == {"DRAFT", "SENT", "SIGNED", "COMPLETED", "VOIDED"}

StatusFor(kind) == IF kind = "signed" THEN "SIGNED" ELSE "COMPLETED"

VARIABLES
  status,     \* contracts.status
  docId,      \* contracts.documenso_document_id
  doc,        \* each document's state in Documenso
  due,        \* webhooks Documenso owes or repeats
  processed,  \* keys with processed = true in documenso_webhook_events
  applied,    \* per key: how often its webhook changed the contract
  emitted,    \* keys whose Inngest event was sent
  wf,         \* the workflow: what it does next, on which document
  runs,       \* runs of the step that failed
  serving,    \* per handler: the delivery it serves
  sending,    \* an editor's send that has read DRAFT
  faults

vars == <<status, docId, doc, due, processed, applied, emitted, wf, runs,
          serving, sending, faults>>

contract == <<status, docId>>
documenso == <<doc, due>>
webhooks == <<processed, applied, emitted, serving, faults>>
workflow == <<wf, runs>>

Wf(pc, d) == [pc |-> pc, doc |-> d]
Serve(pc, key, found) == [pc |-> pc, key |-> key, found |-> found]
Free == Serve("idle", <<NoDoc, "signed">>, FALSE)

Init ==
  /\ status = "DRAFT" /\ docId = NoDoc
  /\ doc = [d \in Docs |-> "absent"] /\ due = {}
  /\ processed = {} /\ applied = [k \in Keys |-> 0] /\ emitted = {}
  /\ wf = Wf("create", NoDoc) /\ runs = 0
  /\ serving = [h \in Handlers |-> Free]
  /\ sending = FALSE /\ faults = 0

-----------------------------------------------------------------------------
(* Step send-to-documenso.                                                 *)

(* createDocument returned.                                                *)
CreateDocument(d) ==
  /\ wf.pc = "create"
  /\ doc[d] = "absent" /\ \A e \in Docs : e < d => doc[e] # "absent"
  /\ doc' = [doc EXCEPT ![d] = "open"]
  /\ wf' = Wf("record", d)
  /\ UNCHANGED <<contract, due, webhooks, runs, sending>>

(* updateDocumensoId and updateStatus commit together, whatever the status.*)
RecordDocument ==
  /\ wf.pc = "record"
  /\ docId' = wf.doc
  /\ status' = "SENT"
  /\ wf' = Wf("return", wf.doc)
  /\ UNCHANGED <<documenso, webhooks, runs, sending>>

(* The step's result reached Inngest, which registers the first wait.      *)
StepReturns ==
  /\ wf.pc = "return"
  /\ wf' = Wf("signed", wf.doc)
  /\ UNCHANGED <<contract, documenso, webhooks, runs, sending>>

(* The run fails, before or after any of its effects.                      *)
StepFails ==
  /\ wf.pc \in {"create", "record", "return"}
  /\ IF runs < Retries
     THEN wf' = Wf("create", NoDoc) /\ runs' = runs + 1
     ELSE wf' = Wf("failed", NoDoc) /\ runs' = runs
  /\ UNCHANGED <<contract, documenso, webhooks, sending>>

(* waitForEvent gave up after 90 days; the workflow does not look at what  *)
(* it returned.                                                            *)
WaitTimesOut ==
  /\ wf.pc \in Kinds
  /\ wf' = Wf(IF wf.pc = "signed" THEN "completed" ELSE "done", wf.doc)
  /\ UNCHANGED <<contract, documenso, webhooks, runs, sending>>

-----------------------------------------------------------------------------
(* Editors.                                                                *)

(* sendWithAudit reads the status without a lock, then updates by id.      *)
SendReads ==
  /\ Editing /\ ~ sending /\ status = "DRAFT"
  /\ sending' = TRUE
  /\ UNCHANGED <<contract, documenso, webhooks, workflow>>

SendWrites ==
  /\ sending
  /\ status' = "SENT"
  /\ sending' = FALSE
  /\ UNCHANGED <<docId, documenso, webhooks, workflow>>

(* voidWithAudit; the document stays open in Documenso.                    *)
Void ==
  /\ Editing
  /\ status' = "VOIDED"
  /\ UNCHANGED <<docId, documenso, webhooks, workflow, sending>>

-----------------------------------------------------------------------------
(* Documenso.                                                              *)

Sign(d) ==
  /\ doc[d] = "open"
  /\ doc' = [doc EXCEPT ![d] = "signed"]
  /\ due' = due \cup {<<d, "signed">>}
  /\ UNCHANGED <<contract, webhooks, workflow, sending>>

Complete(d) ==
  /\ doc[d] = "signed"
  /\ doc' = [doc EXCEPT ![d] = "completed"]
  /\ due' = due \cup {<<d, "completed">>}
  /\ UNCHANGED <<contract, webhooks, workflow, sending>>

-----------------------------------------------------------------------------
(* documensoWebhookHandler.                                                *)

(* Mutant: no insert, so nothing makes the second delivery wait. *)
HookBeginsUnlocked(h, k) ==
  /\ serving[h] = Free /\ k \in due
  /\ k \notin processed
  /\ serving' = [serving EXCEPT ![h] = Serve("tx", k, docId = k[1])]
  /\ UNCHANGED <<contract, documenso, processed, applied, emitted, faults,
                 workflow, sending>>

(* Mutant: the contract is taken without comparing document ids. *)
HookBeginsAnyDocument(h, k) ==
  /\ serving[h] = Free /\ k \in due
  /\ \A g \in Handlers : ~ (serving[g].pc = "tx" /\ serving[g].key = k)
  /\ k \notin processed
  /\ serving' = [serving EXCEPT ![h] = Serve("tx", k, TRUE)]
  /\ UNCHANGED <<contract, documenso, processed, applied, emitted, faults,
                 workflow, sending>>

(* Mutant: the key is marked processed before the event is processed. *)
HookBeginsMarked(h, k) ==
  /\ serving[h] = Free /\ k \in due
  /\ k \notin processed
  /\ serving' = [serving EXCEPT ![h] = Serve("tx", k, docId = k[1])]
  /\ processed' = processed \cup {k}
  /\ UNCHANGED <<contract, documenso, applied, emitted, faults, workflow,
                 sending>>

(* BEGIN; INSERT ... ON CONFLICT DO NOTHING, which waits while another     *)
(* transaction has inserted the same key; read processed and the contract. *)
(* Deliveries repeat even after a 200.                                     *)
HookBegins(h, k) ==
  /\ serving[h] = Free /\ k \in due
  /\ \A g \in Handlers : ~ (serving[g].pc = "tx" /\ serving[g].key = k)
  /\ k \notin processed
  /\ serving' = [serving EXCEPT ![h] = Serve("tx", k, docId = k[1])]
  /\ UNCHANGED <<contract, documenso, processed, applied, emitted, faults,
                 workflow, sending>>

(* processDocumensoEvent updates the contract it found by its id, and the  *)
(* event is marked processed, found or not.  COMMIT.                       *)
HookCommits(h) ==
  LET k == serving[h].key
  IN  /\ serving[h].pc = "tx"
      /\ processed' = processed \cup {k}
      /\ IF serving[h].found
         THEN /\ status' = StatusFor(k[2])
              /\ applied' = [applied EXCEPT ![k] = @ + 1]
              /\ serving' = [serving EXCEPT ![h].pc = "send"]
         ELSE /\ serving' = [serving EXCEPT ![h] = Free]
              /\ UNCHANGED <<status, applied>>
      /\ UNCHANGED <<docId, documenso, emitted, faults, workflow, sending>>

(* Mutant: the event is sent first, and the transaction may still fail. *)
HookSendsEarly(h) ==
  /\ serving[h].pc = "tx" /\ serving[h].found
  /\ emitted' = emitted \cup {serving[h].key}
  /\ serving' = [serving EXCEPT ![h] = Free]
  /\ UNCHANGED <<contract, documenso, processed, applied, faults, workflow,
                 sending>>

(* inngest.send after the commit; a workflow that waits for it goes on.    *)
HookSends(h) ==
  LET k == serving[h].key
  IN  /\ serving[h].pc = "send"
      /\ emitted' = emitted \cup {k}
      /\ wf' = IF wf.pc # k[2] THEN wf
               ELSE Wf(IF k[2] = "signed" THEN "completed" ELSE "done", wf.doc)
      /\ serving' = [serving EXCEPT ![h] = Free]
      /\ UNCHANGED <<contract, documenso, processed, applied, faults, runs,
                     sending>>

(* The process stops or the transaction fails (ROLLBACK and a 500); after  *)
(* the commit only the Inngest event is lost, as when inngest.send fails.  *)
HookFails(h) ==
  /\ serving[h].pc # "idle" /\ faults < MaxFaults
  /\ faults' = faults + 1
  /\ serving' = [serving EXCEPT ![h] = Free]
  /\ UNCHANGED <<contract, documenso, processed, applied, emitted, workflow,
                 sending>>

WorkflowStep ==
  \/ \E d \in Docs : CreateDocument(d)
  \/ RecordDocument
  \/ StepReturns
  \/ StepFails
  \/ WaitTimesOut

EditorStep == SendReads \/ SendWrites \/ Void

DocumensoStep == \E d \in Docs : Sign(d) \/ Complete(d)

HandlerStep(h) ==
  \/ \E k \in Keys : HookBegins(h, k)
  \/ HookCommits(h)
  \/ HookSends(h)

Next ==
  \/ WorkflowStep
  \/ EditorStep
  \/ DocumensoStep
  \/ \E h \in Handlers : HandlerStep(h) \/ HookFails(h)

Spec == Init /\ [][Next]_vars

(* Documenso repeats a webhook until it is answered, and handlers run on;  *)
(* Inngest runs the step's continuations.  Nobody has to sign.             *)
Fairness ==
  /\ \A h \in Handlers : WF_vars(HandlerStep(h))
  /\ WF_vars((\E d \in Docs : CreateDocument(d)) \/ RecordDocument \/ StepReturns)

FairSpec == Spec /\ Fairness

-----------------------------------------------------------------------------
(* Properties                                                              *)

TypeOK ==
  /\ status \in ContractStatuses
  /\ docId \in Docs \cup {NoDoc}
  /\ doc \in [Docs -> {"absent", "open", "signed", "completed"}]
  /\ due \subseteq Keys /\ processed \subseteq Keys /\ emitted \subseteq Keys
  /\ applied \in [Keys -> Nat]
  /\ wf \in [pc : {"create", "record", "return", "done", "failed"} \cup Kinds,
             doc : Docs \cup {NoDoc}]
  /\ runs \in 0..Retries
  /\ serving \in [Handlers -> [pc : {"idle", "tx", "send"},
                               key : Keys \cup {<<NoDoc, "signed">>},
                               found : BOOLEAN]]
  /\ \A h \in Handlers : serving[h].pc # "idle" => serving[h].key \in Keys
  /\ sending \in BOOLEAN
  /\ faults \in 0..MaxFaults

(* However often and by however many processes a webhook is handled, it    *)
(* changes the contract once at most: the insert of its key makes the      *)
(* second handler wait for the first one's commit.                         *)
AppliedOnce == \A k \in Keys : applied[k] <= 1

(* No Inngest event for a change that was not committed: events are sent   *)
(* after the commit "to avoid ghost events on rollback".                   *)
NoGhostEvents == \A k \in emitted : k \in processed /\ applied[k] = 1

(* A contract shows SIGNED or COMPLETED only if the signer has done that   *)
(* to a document that was recorded for the contract -- perhaps to one that *)
(* a later run of the step has replaced.                                   *)
SignedInDocumenso ==
  /\ status = "SIGNED" =>
       \E d \in 1..docId : doc[d] \in {"signed", "completed"}
  /\ status = "COMPLETED" => \E d \in 1..docId : doc[d] = "completed"

(* Deliveries come in any order, so a signature can overwrite COMPLETED:   *)
(* but only the first handling of its webhook does, however often it is    *)
(* repeated, and only the webhook of a document the contract has had.      *)
CompletedReopened ==
  [][ status = "COMPLETED" /\ status' = "SIGNED" =>
        \E d \in 1..docId : /\ doc[d] \in {"signed", "completed"}
                            /\ <<d, "signed">> \in processed' \ processed ]_vars

(* A signature on the recorded document, given once the workflow is past   *)
(* its sending step, changes the contract sooner or later, although        *)
(* handlers fail and Inngest events get lost.                              *)
SignatureArrives ==
  \A d \in Docs :
    LET k == <<d, "signed">>
    IN  (/\ docId = d /\ wf.pc \in Kinds \cup {"done"}
         /\ k \in due \ processed /\ \A h \in Handlers : serving[h].key # k)
        ~> applied[k] = 1

=============================================================================
