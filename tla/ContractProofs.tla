--------------------------- MODULE ContractProofs ---------------------------
(***************************************************************************)
(* Proofs about Contract: each webhook changes the contract once at most,  *)
(* no Inngest event precedes its commit, and a signed contract has a       *)
(* signed document, for any number of handlers, retries and faults.        *)
(***************************************************************************)
EXTENDS Contract, TLAPS

USE ContractAssumption DEF Docs, Keys, Kinds, NoDoc

-----------------------------------------------------------------------------
(* Types                                                                   *)

Servings == [pc : {"idle", "tx", "send"}, key : Keys \cup {<<NoDoc, "signed">>},
             found : BOOLEAN]

ServingOK ==
  /\ serving \in [Handlers -> Servings]
  /\ \A h \in Handlers : serving[h].pc # "idle" => serving[h].key \in Keys

(* A handler that serves something else, or nothing.                       *)
LEMMA ServingKept ==
  ASSUME ServingOK, NEW h \in Handlers, NEW r \in Servings,
         r.pc # "idle" => r.key \in Keys, serving' = [serving EXCEPT ![h] = r]
  PROVE  ServingOK'
<1> HIDE DEF Keys, Docs, Kinds
<1> QED  BY DEF ServingOK

LEMMA ServingFacts ==
  /\ Free \in Servings /\ Free.pc = "idle"
  /\ \A s \in Servings : [s EXCEPT !.pc = "send"] \in Servings
  /\ \A s \in Servings : [s EXCEPT !.pc = "send"].key = s.key
  /\ TypeOK => ServingOK
<1>1. \A s \in Servings : /\ [s EXCEPT !.pc = "send"] \in Servings
                          /\ [s EXCEPT !.pc = "send"].key = s.key
  <2> HIDE DEF Keys
  <2> QED  BY DEF Servings
<1>2. Free \in Servings /\ Free.pc = "idle"
  BY DEF Free, Serve, Servings
<1>3. TypeOK => ServingOK
  BY DEF TypeOK, ServingOK, Servings
<1> QED  BY <1>1, <1>2, <1>3

LEMMA TypeInit == Init => TypeOK
<1> SUFFICES ASSUME Init PROVE TypeOK
  OBVIOUS
<1>1. applied \in [Keys -> Nat] /\ doc \in [Docs -> {"absent"}]
  BY DEF Init
<1>2. ServingOK
  <2> HIDE DEF Free
  <2> QED  BY ServingFacts DEF Init, ServingOK
<1>3. wf.pc = "create" /\ wf \in [pc : {"create"}, doc : {NoDoc}]
  BY DEF Init, Wf
<1>4. wf \in [pc : {"create", "record", "return", "done", "failed"} \cup Kinds,
             doc : Docs \cup {NoDoc}]
  BY <1>3
<1>5. due \subseteq Keys /\ processed \subseteq Keys /\ emitted \subseteq Keys
  BY DEF Init
<1>6. /\ doc \in [Docs -> {"absent", "open", "signed", "completed"}]
      /\ docId \in Docs \cup {NoDoc} /\ runs \in 0..Retries /\ faults \in 0..MaxFaults
  BY <1>1 DEF Init
<1> HIDE DEF Keys, Docs, Kinds
<1> QED
  BY <1>1, <1>2, <1>4, <1>5, <1>6
     DEF Init, TypeOK, ContractStatuses, ServingOK, Servings

LEMMA TypeStep == TypeOK /\ [Next]_vars => TypeOK'
<1> SUFFICES ASSUME TypeOK, [Next]_vars PROVE TypeOK'
  OBVIOUS
<1> USE DEF TypeOK, contract, documenso, webhooks, workflow, Wf, Serve, Free,
            ContractStatuses, StatusFor
<1>1. ASSUME NEW d \in Docs, CreateDocument(d) PROVE TypeOK'
  BY <1>1 DEF CreateDocument
<1>2. CASE RecordDocument
  <2>1. wf.doc \in Docs \cup {NoDoc}
    OBVIOUS
  <2> QED  BY <1>2, <2>1 DEF RecordDocument
<1>3. CASE StepReturns \/ StepFails \/ WaitTimesOut
  BY <1>3 DEF StepReturns, StepFails, WaitTimesOut
<1>4. CASE EditorStep
  BY <1>4 DEF EditorStep, SendReads, SendWrites, Void
<1>5. ASSUME NEW d \in Docs, Sign(d) \/ Complete(d) PROVE TypeOK'
  BY <1>5 DEF Sign, Complete
<1>6. ASSUME NEW h \in Handlers, NEW k \in Keys, HookBegins(h, k) PROVE TypeOK'
  BY <1>6 DEF HookBegins
<1>7. ASSUME NEW h \in Handlers, HookCommits(h) PROVE TypeOK'
  <2>1. serving[h].key \in Keys /\ processed' \subseteq Keys
    BY <1>7 DEF HookCommits
  <2>2. CASE serving[h].found
    <3>1. serving' = [serving EXCEPT ![h] = [serving[h] EXCEPT !.pc = "send"]]
      BY <1>7, <2>2 DEF HookCommits
    <3>2. ServingOK'
      BY <2>1, <3>1, ServingKept, ServingFacts DEF ServingOK
    <3>3. status' \in ContractStatuses /\ applied' \in [Keys -> Nat]
      BY <1>7, <2>1, <2>2 DEF HookCommits
    <3> QED  BY <1>7, <2>1, <2>2, <3>2, <3>3 DEF HookCommits, ServingOK, Servings
  <2>3. CASE ~ serving[h].found
    <3>1. ServingOK'
      <4> HIDE DEF Free
      <4> QED  BY <1>7, <2>3, ServingKept, ServingFacts DEF HookCommits
    <3> QED  BY <1>7, <2>1, <2>3, <3>1 DEF HookCommits, ServingOK, Servings
  <2> QED  BY <2>2, <2>3
<1>8. ASSUME NEW h \in Handlers, HookSends(h) PROVE TypeOK'
  <2> DEFINE k == serving[h].key
  <2>1. serving[h].pc = "send" /\ k \in Keys /\ k[2] \in Kinds
    BY <1>8 DEF HookSends
  <2>2. emitted' \subseteq Keys
    BY <1>8, <2>1 DEF HookSends
  <2>3. wf' \in [pc : {"create", "record", "return", "done", "failed"} \cup Kinds,
                doc : Docs \cup {NoDoc}]
    BY <1>8, <2>1 DEF HookSends
  <2> HIDE DEF k
  <2> QED  BY <1>8, <2>2, <2>3 DEF HookSends
<1>10. ASSUME NEW h \in Handlers, HookFails(h) PROVE TypeOK'
  BY <1>10 DEF HookFails
<1>9. CASE UNCHANGED vars
  BY <1>9 DEF vars
<1> QED  BY <1>1, <1>2, <1>3, <1>4, <1>5, <1>6, <1>7, <1>8, <1>9,
            <1>10
         DEF Next, WorkflowStep, DocumensoStep, HandlerStep

(* Every reachable state is well typed.                                    *)
THEOREM TypeCorrect == Spec => []TypeOK
  BY TypeInit, TypeStep, PTL DEF Spec

-----------------------------------------------------------------------------
(* Once                                                                    *)

(* The insert of a key serves as a lock: while a transaction handles it no *)
(* other one does and it is not processed, and it is processed before its  *)
(* event is sent.                                                          *)
KeyLocks ==
  /\ \A k \in Keys : k \notin processed => applied[k] = 0
  /\ \A h \in Handlers : serving[h].pc = "tx" => serving[h].key \notin processed
  /\ \A g, h \in Handlers :
       /\ serving[g].pc = "tx" /\ serving[h].pc = "tx"
       /\ serving[g].key = serving[h].key
       => g = h
  /\ \A h \in Handlers :
       serving[h].pc = "send" =>
         serving[h].key \in processed /\ applied[serving[h].key] = 1

OnceInv == KeyLocks /\ AppliedOnce /\ NoGhostEvents

LEMMA OnceStep ==
  ASSUME TypeOK, OnceInv, [Next]_vars
  PROVE  OnceInv'
<1> USE DEF OnceInv, KeyLocks, AppliedOnce, NoGhostEvents
<1> HIDE DEF Keys, Docs, Kinds
<1>0. /\ applied \in [Keys -> Nat] /\ emitted \subseteq Keys /\ processed \subseteq Keys
      /\ serving \in [Handlers -> Servings]
      /\ \A h \in Handlers : serving[h].pc # "idle" => serving[h].key \in Keys
  BY ServingFacts DEF TypeOK, ServingOK
<1>1. CASE UNCHANGED <<processed, applied, emitted, serving>>
  BY <1>1
<1>2. ASSUME NEW h \in Handlers, NEW k \in Keys, HookBegins(h, k) PROVE OnceInv'
  <2>1. /\ \A g \in Handlers \ {h} : serving'[g] = serving[g]
        /\ serving'[h].pc = "tx" /\ serving'[h].key = k
    BY <1>0, <1>2 DEF HookBegins, Serve
  <2> QED  BY <1>0, <1>2, <2>1 DEF HookBegins
<1>3. ASSUME NEW h \in Handlers, HookCommits(h) PROVE OnceInv'
  <2> DEFINE k == serving[h].key
  <2>1. k \in Keys /\ k \notin processed /\ applied[k] = 0
    BY <1>0, <1>3 DEF HookCommits
  <2>2. \A g \in Handlers \ {h} :
          /\ serving'[g] = serving[g]
          /\ serving[g].pc \in {"tx", "send"} => serving[g].key # k
    BY <1>0, <1>3, <2>1 DEF HookCommits
  <2>3. CASE serving[h].found
    <3>1. /\ serving'[h].pc = "send" /\ serving'[h].key = k
          /\ processed' = processed \cup {k} /\ emitted' = emitted
          /\ applied' = [applied EXCEPT ![k] = 1]
      BY <1>0, <1>3, <2>1, <2>3 DEF HookCommits, Servings
    <3>2. \A j \in Keys : j \notin processed' => applied'[j] = 0
      BY <1>0, <2>1, <3>1
    <3>4. \A g \in Handlers : serving'[g].pc = "tx" =>
            g # h /\ serving'[g] = serving[g] /\ serving'[g].key \notin processed'
      BY <2>2, <3>1
    <3>5. \A g \in Handlers : serving'[g].pc = "send" =>
            serving'[g].key \in processed' /\ applied'[serving'[g].key] = 1
      <4> SUFFICES ASSUME NEW g \in Handlers, serving'[g].pc = "send"
                   PROVE  /\ serving'[g].key \in processed'
                          /\ applied'[serving'[g].key] = 1
        OBVIOUS
      <4>1. CASE g = h
        BY <1>0, <2>1, <3>1, <4>1
      <4>2. CASE g # h
        BY <1>0, <2>1, <2>2, <3>1, <4>2
      <4> QED  BY <4>1, <4>2
    <3>6. KeyLocks'
      BY <3>2, <3>4, <3>5
    <3>3. AppliedOnce' /\ NoGhostEvents'
      <4> HIDE DEF k
      <4> QED  BY <1>0, <2>1, <3>1
    <3> QED  BY <3>3, <3>6
  <2>4. CASE ~ serving[h].found
    <3>1. /\ serving'[h].pc = "idle" /\ applied' = applied /\ emitted' = emitted
          /\ processed' = processed \cup {k}
      BY <1>0, <1>3, <2>4, ServingFacts DEF HookCommits
    <3>2. \A g \in Handlers : serving'[g].pc = "tx" =>
            g # h /\ serving'[g] = serving[g] /\ serving'[g].key \notin processed'
      BY <2>2, <3>1
    <3>3. \A g \in Handlers : serving'[g].pc = "send" =>
            serving'[g].key \in processed' /\ applied'[serving'[g].key] = 1
      BY <2>2, <3>1
    <3>4. KeyLocks'
      BY <2>1, <3>1, <3>2, <3>3
    <3> QED  BY <1>0, <2>1, <3>1, <3>4
  <2> QED  BY <2>3, <2>4
<1>4. ASSUME NEW h \in Handlers, HookSends(h) PROVE OnceInv'
  <2>1. /\ \A g \in Handlers \ {h} : serving'[g] = serving[g]
        /\ serving'[h].pc = "idle"
    BY <1>0, <1>4, ServingFacts DEF HookSends
  <2> QED  BY <1>0, <1>4, <2>1 DEF HookSends
<1>5. ASSUME NEW h \in Handlers, HookFails(h) PROVE OnceInv'
  <2>1. /\ \A g \in Handlers \ {h} : serving'[g] = serving[g]
        /\ serving'[h].pc = "idle"
    BY <1>0, <1>5, ServingFacts DEF HookFails
  <2> QED  BY <1>0, <1>5, <2>1 DEF HookFails
<1> QED
  BY <1>1, <1>2, <1>3, <1>4, <1>5
     DEF Next, WorkflowStep, EditorStep, DocumensoStep, HandlerStep, CreateDocument,
         RecordDocument, StepReturns, StepFails, WaitTimesOut, SendReads,
         SendWrites, Void, Sign, Complete, webhooks, vars

(* However many processes handle a repeated webhook at once, and wherever  *)
(* they fail, it changes the contract once at most ...                     *)
THEOREM HandledOnce == Spec => []AppliedOnce
<1>1. Init => OnceInv
  BY ServingFacts DEF Init, OnceInv, KeyLocks, AppliedOnce, NoGhostEvents
<1>2. OnceInv => AppliedOnce
  BY DEF OnceInv
<1> QED  BY <1>1, <1>2, TypeCorrect, OnceStep, PTL DEF Spec

(* ... and no Inngest event is sent for a change that was not committed.   *)
THEOREM EventsAfterCommit == Spec => []NoGhostEvents
<1>1. Init => OnceInv
  BY ServingFacts DEF Init, OnceInv, KeyLocks, AppliedOnce, NoGhostEvents
<1>2. OnceInv => NoGhostEvents
  BY DEF OnceInv
<1> QED  BY <1>1, <1>2, TypeCorrect, OnceStep, PTL DEF Spec
-----------------------------------------------------------------------------
(* A status has a document behind it                                       *)

SignedAt(d, kind) == \/ doc[d] = "completed"
                     \/ kind = "signed" /\ doc[d] = "signed"

(* Documents are created in order, and only an existing one is recorded.   *)
Recorded ==
  /\ \A d \in Docs, e \in Docs : doc[d] # "absent" /\ e < d => doc[e] # "absent"
  /\ docId \in Docs => doc[docId] # "absent"
  /\ wf.pc = "record" => wf.doc \in Docs /\ docId < wf.doc /\ doc[wf.doc] # "absent"

(* Webhooks tell the truth, and a handler that has found the contract      *)
(* serves a document recorded by now.                                      *)
Honest ==
  /\ \A k \in due : SignedAt(k[1], k[2])
  /\ \A h \in Handlers : serving[h].pc # "idle" => serving[h].key \in due
  /\ \A h \in Handlers :
       serving[h].pc = "tx" /\ serving[h].found => serving[h].key[1] <= docId

DocInv == Recorded /\ Honest /\ SignedInDocumenso

(* Documents only move on, and documents recorded stay behind docId.       *)
LEMMA Forward ==
  ASSUME TypeOK, DocInv, TypeOK', Recorded', docId <= docId',
         \A d \in Docs : doc'[d] = doc[d] \/ doc[d] = "absent"
                       \/ doc[d] = "open" \/ doc'[d] = "completed",
         status' = status \/ status' \notin {"SIGNED", "COMPLETED"}
  PROVE  SignedInDocumenso'
<1>1. docId \in Nat /\ docId' \in Nat /\ docId' <= Retries + 1
  BY DEF TypeOK
<1>2. \A d \in 1..docId : d \in 1..docId' /\ d \in Docs
  BY <1>1
<1> HIDE DEF Docs
<1> QED  BY <1>2 DEF DocInv, SignedInDocumenso

LEMMA DocStep ==
  ASSUME TypeOK, TypeOK', DocInv, [Next]_vars
  PROVE  DocInv'
<1> USE DEF DocInv, Recorded, Honest, SignedAt
<1>0. /\ doc \in [Docs -> {"absent", "open", "signed", "completed"}]
      /\ docId \in Nat /\ docId \in Docs \cup {NoDoc} /\ due \subseteq Keys
      /\ serving \in [Handlers -> Servings]
      /\ wf.doc \in Docs \cup {NoDoc}
      /\ \A k \in Keys : k[1] \in Docs /\ k[2] \in {"signed", "completed"}
  <2>1. serving \in [Handlers -> Servings]
    BY ServingFacts DEF ServingOK
  <2>2. \A k \in Keys : k[1] \in Docs /\ k[2] \in {"signed", "completed"}
    OBVIOUS
  <2>3. /\ doc \in [Docs -> {"absent", "open", "signed", "completed"}]
        /\ docId \in Docs \cup {NoDoc} /\ due \subseteq Keys
        /\ wf.doc \in Docs \cup {NoDoc}
    BY DEF TypeOK
  <2> QED  BY <2>1, <2>2, <2>3
<1>1. ASSUME NEW d \in Docs, CreateDocument(d) PROVE DocInv'
  <2>1. /\ doc' = [doc EXCEPT ![d] = "open"] /\ wf' = Wf("record", d)
        /\ doc[d] = "absent" /\ \A e \in Docs : e < d => doc[e] # "absent"
        /\ UNCHANGED <<status, docId, due, serving>>
    BY <1>1 DEF CreateDocument, contract, webhooks
  <2>2. Recorded'
    <3>1. docId < d
      BY <1>0, <2>1
    <3> QED  BY <1>0, <2>1, <3>1 DEF Wf
  <2>3. Honest'
    BY <1>0, <2>1
  <2> QED  BY <1>0, <2>1, <2>2, <2>3, Forward
<1>2. CASE RecordDocument
  <2>1. /\ docId' = wf.doc /\ status' = "SENT" /\ wf'.pc = "return" /\ docId < wf.doc
        /\ wf.doc \in Docs /\ doc[wf.doc] # "absent" /\ UNCHANGED <<doc, due, serving>>
    BY <1>2 DEF RecordDocument, documenso, webhooks, Wf
  <2>2. Recorded'
    BY <1>0, <2>1
  <2>3. Honest'
    BY <1>0, <2>1 DEF Servings
  <2> QED  BY <1>0, <2>1, <2>2, <2>3, Forward
<1>3. CASE StepReturns \/ StepFails \/ WaitTimesOut \/ EditorStep
  <2>1. /\ UNCHANGED <<doc, due, serving, docId>>
        /\ wf' = wf \/ wf'.pc # "record"
        /\ status' = status \/ status' \in {"SENT", "VOIDED"}
    BY <1>3 DEF StepReturns, StepFails, WaitTimesOut, EditorStep, SendReads, SendWrites,
               Void, contract, documenso, webhooks, workflow, Wf
  <2> QED  BY <1>0, <2>1, Forward
<1>4. ASSUME NEW d \in Docs, Sign(d) \/ Complete(d) PROVE DocInv'
  <2>1. /\ UNCHANGED <<status, docId, serving, wf>>
        /\ \E st \in {"signed", "completed"} :
             /\ doc' = [doc EXCEPT ![d] = st] /\ due' = due \cup {<<d, st>>}
             /\ st = "signed" => doc[d] = "open"
             /\ doc[d] # "absent"
    BY <1>4 DEF Sign, Complete, contract, webhooks, workflow
  <2>2. Recorded'
    BY <1>0, <2>1
  <2>3. Honest'
    BY <1>0, <2>1
  <2> QED  BY <1>0, <2>1, <2>2, <2>3, Forward
<1>5. ASSUME NEW h \in Handlers, NEW k \in Keys, HookBegins(h, k) PROVE DocInv'
  <2>1. /\ UNCHANGED <<status, docId, doc, due, wf>> /\ k \in due
        /\ \A g \in Handlers \ {h} : serving'[g] = serving[g]
        /\ serving'[h].key = k /\ (serving'[h].found => docId = k[1])
    BY <1>0, <1>5 DEF HookBegins, Serve, contract, documenso, workflow
  <2>2. Honest'
    BY <1>0, <2>1
  <2> QED  BY <1>0, <2>1, <2>2, Forward
<1>6. ASSUME NEW h \in Handlers, HookCommits(h) PROVE DocInv'
  <2>1. /\ UNCHANGED <<docId, doc, due, wf>>
        /\ \A g \in Handlers \ {h} : serving'[g] = serving[g]
        /\ serving'[h].pc # "tx" /\ serving[h].key \in due
        /\ serving'[h].pc # "idle" => serving'[h].key = serving[h].key
    BY <1>0, <1>6, ServingFacts DEF HookCommits, documenso, workflow, Servings
  <2>2. Recorded' /\ Honest'
    BY <1>0, <2>1
  <2>3. SignedInDocumenso'
    <3>1. CASE serving[h].found
      <4> DEFINE k == serving[h].key
      <4>1. k[1] <= docId /\ SignedAt(k[1], k[2]) /\ status' = StatusFor(k[2])
        BY <1>6, <2>1, <3>1 DEF HookCommits
      <4>2. k[1] \in 1..docId /\ k[2] \in {"signed", "completed"}
        BY <1>0, <2>1, <4>1
      <4> HIDE DEF k
      <4> QED  BY <2>1, <4>1, <4>2 DEF SignedInDocumenso, StatusFor
    <3>2. CASE ~ serving[h].found
      BY <1>0, <1>6, <2>1, <2>2, <3>2, Forward DEF HookCommits
    <3> QED  BY <3>1, <3>2
  <2> QED  BY <2>2, <2>3
<1>7. ASSUME NEW h \in Handlers, HookSends(h) \/ HookFails(h) PROVE DocInv'
  <2>1. /\ UNCHANGED <<status, docId, doc, due>>
        /\ wf' = wf \/ wf'.pc # "record"
        /\ \A g \in Handlers \ {h} : serving'[g] = serving[g]
        /\ serving'[h].pc = "idle"
    BY <1>0, <1>7, ServingFacts DEF HookSends, HookFails, contract, documenso, workflow, Wf
  <2>2. Recorded' /\ Honest'
    BY <1>0, <2>1
  <2> QED  BY <1>0, <2>1, <2>2, Forward
<1>8. CASE UNCHANGED vars
  <2>1. Recorded' /\ Honest'
    BY <1>8 DEF vars
  <2> QED  BY <1>0, <1>8, <2>1, Forward DEF vars
<1> QED
  BY <1>1, <1>2, <1>3, <1>4, <1>5, <1>6, <1>7, <1>8
     DEF Next, WorkflowStep, DocumensoStep, HandlerStep

(* A contract shows SIGNED or COMPLETED only if a document recorded for it *)
(* was signed or completed, however steps are repeated and deliveries      *)
(* overtake each other.                                                    *)
THEOREM StatusHasDocument == Spec => []SignedInDocumenso
<1>1. Init => DocInv
  BY ServingFacts DEF Init, DocInv, Recorded, Honest, SignedInDocumenso, Wf
<1>2. DocInv => SignedInDocumenso
  BY DEF DocInv
<1>3. TypeOK /\ DocInv /\ [Next]_vars => DocInv'
  BY TypeStep, DocStep
<1> QED  BY <1>1, <1>2, <1>3, TypeCorrect, PTL DEF Spec

-----------------------------------------------------------------------------
(* COMPLETED overwritten                                                   *)

LEMMA ReopenStep ==
  ASSUME TypeOK, OnceInv, DocInv, [Next]_vars, status = "COMPLETED", status' = "SIGNED"
  PROVE  \E d \in 1..docId : /\ doc[d] \in {"signed", "completed"}
                             /\ <<d, "signed">> \in processed' \ processed
<1>1. PICK h \in Handlers : HookCommits(h)
  BY DEF Next, WorkflowStep, EditorStep, DocumensoStep, HandlerStep, CreateDocument,
     RecordDocument, StepReturns, StepFails, WaitTimesOut, SendReads, SendWrites,
     Void, Sign, Complete, HookBegins, HookSends, HookFails, contract, vars
<1> DEFINE k == serving[h].key
<1>2. /\ serving[h].pc = "tx" /\ serving[h].found
      /\ processed' = processed \cup {k} /\ status' = StatusFor(k[2])
  BY <1>1 DEF HookCommits, contract
<1>3. k \in Keys
  BY <1>2, ServingFacts DEF ServingOK
<1>4. k[1] \in Docs /\ k = <<k[1], "signed">>
  BY <1>2, <1>3 DEF StatusFor, Keys, Kinds
<1>5. k \notin processed
  BY <1>2 DEF OnceInv, KeyLocks
<1>6. SignedAt(k[1], "signed") /\ k[1] <= docId
  BY <1>2, <1>4 DEF DocInv, Honest
<1>7. k[1] \in 1..docId
  BY <1>4, <1>6 DEF TypeOK, Docs, NoDoc
<1> HIDE DEF k
<1> QED  BY <1>2, <1>4, <1>5, <1>6, <1>7 DEF SignedAt

(* COMPLETED gives way to SIGNED only where the webhook of a recorded      *)
(* document's signature is handled for the first time, so no repeated      *)
(* delivery takes a completion back (documenso.webhook.ts: the key's       *)
(* insert).                                                                *)
THEOREM ReopenedOnlyLate == Spec => CompletedReopened
<1>1. Init => OnceInv
  BY ServingFacts DEF Init, OnceInv, KeyLocks, AppliedOnce, NoGhostEvents
<1>2. Init => DocInv
  BY ServingFacts DEF Init, DocInv, Recorded, Honest, SignedInDocumenso, Wf
<1>3. TypeOK /\ OnceInv /\ [Next]_vars => OnceInv'
  BY OnceStep
<1>4. TypeOK /\ DocInv /\ [Next]_vars => DocInv'
  BY TypeStep, DocStep
<1>5. TypeOK /\ OnceInv /\ DocInv /\ [Next]_vars =>
        [ status = "COMPLETED" /\ status' = "SIGNED" =>
            \E d \in 1..docId : /\ doc[d] \in {"signed", "completed"}
                                /\ <<d, "signed">> \in processed' \ processed ]_vars
  BY ReopenStep
<1> QED
  BY <1>1, <1>2, <1>3, <1>4, <1>5, TypeCorrect, PTL DEF Spec, CompletedReopened
=============================================================================
