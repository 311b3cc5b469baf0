--------------------------- MODULE PipelineProofs ---------------------------
(***************************************************************************)
(* Proofs about Pipeline: the history of a piece is a chain of valid moves *)
(* between stages it was in, and the workflow sends nothing to the         *)
(* proofreader without an approval, for any number of editors, retries and *)
(* faults.                                                                 *)
(***************************************************************************)
EXTENDS Pipeline, TLAPS

StagesOrNone == Stages \cup {NoStage}

Rows == [from : StagesOrNone, to : Stages, by : {"editor", "workflow"},
         event : EventNames \cup {NoEvent}]

Reqs == [pc : {"idle", "check", "write"}, prev : StagesOrNone,
         seen : StagesOrNone, to : StagesOrNone]

Wfs == [pc : {"idle", "create", "created", "wait", "advance", "write", "written",
              "ready", "author-rejected", "failed"},
        at : Waits, seen : StagesOrNone]

-----------------------------------------------------------------------------
(* Operators                                                               *)

LEMMA StageFacts ==
  /\ NoStage \notin Stages /\ "COPYEDIT_PENDING" \in Stages
  /\ ValidTo(NoStage) = {}
  /\ \A s \in Stages : ValidTo(s) \subseteq Stages
  /\ \A i \in Waits : Target[i] \in Stages /\ (Target[i] = "PROOFREAD" => i = Review)
  /\ \A s \in StagesOrNone, t \in StagesOrNone : EventFor(s, t) \in EventNames \cup {NoEvent}
<1>1. NoStage \notin Stages /\ ValidTo(NoStage) = {} /\ "COPYEDIT_PENDING" \in Stages
  BY DEF NoStage, Stages, ValidTo
<1>2. \A s \in Stages : ValidTo(s) \subseteq Stages
  BY DEF Stages, ValidTo
<1>3. \A i \in Waits : Target[i] \in Stages /\ (Target[i] = "PROOFREAD" => i = Review)
  BY DEF Waits, Target, Stages, Review
<1>4. \A s \in StagesOrNone, t \in StagesOrNone : EventFor(s, t) \in EventNames \cup {NoEvent}
  BY DEF EventFor, EventNames, NoEvent
<1> QED  BY <1>1, <1>2, <1>3, <1>4

LEMMA AppendFacts ==
  ASSUME NEW h \in Seq(Rows), NEW r \in Rows
  PROVE  /\ Append(h, r) \in Seq(Rows)
         /\ Len(Append(h, r)) = Len(h) + 1
         /\ Len(h) \in Nat
         /\ \A i \in 1..Len(h) : Append(h, r)[i] = h[i]
         /\ Append(h, r)[Len(h) + 1] = r
  OBVIOUS

LEMMA RecordFacts ==
  /\ \A f \in StagesOrNone, t \in Stages, b \in {"editor", "workflow"},
        e \in EventNames \cup {NoEvent} :
       /\ Row(f, t, b, e) \in Rows
       /\ Row(f, t, b, e).from = f /\ Row(f, t, b, e).to = t /\ Row(f, t, b, e).by = b
  /\ Idle \in Reqs /\ Idle.pc = "idle"
  /\ \A pc \in {"idle", "check", "write"}, p, s, t \in StagesOrNone :
       /\ Req(pc, p, s, t) \in Reqs
       /\ Req(pc, p, s, t).pc = pc /\ Req(pc, p, s, t).seen = s /\ Req(pc, p, s, t).to = t
<1>1. NoStage \in StagesOrNone
  BY DEF StagesOrNone
<1> HIDE DEF StagesOrNone
<1> QED  BY <1>1 DEF Row, Rows, Req, Reqs, Idle

-----------------------------------------------------------------------------
(* Types                                                                   *)

LEMMA TypeMeans ==
  TypeOK <=> /\ stage \in StagesOrNone
             /\ history \in Seq(Rows) /\ Len(history) <= MaxHistory
             /\ sent \subseteq EventNames /\ pending \subseteq sent
             /\ req \in [Editors -> Reqs]
             /\ wf \in Wfs
             /\ tries \in 0..Retries /\ faults \in 0..MaxFaults
  BY DEF TypeOK, StagesOrNone, Rows, Reqs, Wfs

LEMMA TypeInit == Init => TypeOK
<1> SUFFICES ASSUME Init PROVE TypeOK
  OBVIOUS
<1>1. req \in [Editors -> Reqs]
  BY RecordFacts DEF Init
<1>2. wf \in Wfs
  BY DEF Init, Wf, Wfs, Waits, StagesOrNone
<1> QED
  BY <1>1, <1>2, TypeMeans, PipelineAssumption DEF Init, StagesOrNone

(* The parts of TypeOK one after the other, for the steps that write them. *)
LEMMA RowAdded ==
  ASSUME TypeOK, Room, NEW r \in Rows, history' = Append(history, r)
  PROVE  history' \in Seq(Rows) /\ Len(history') <= MaxHistory
  BY AppendFacts, TypeMeans, PipelineAssumption DEF Room

LEMMA TriedAgain ==
  ASSUME TypeOK, TryAgain
  PROVE  wf' \in Wfs /\ tries' \in 0..Retries /\ wf'.at = wf.at
<1>1. wf.at \in Waits /\ NoStage \in StagesOrNone
  BY DEF TypeOK, StagesOrNone
<1>2. wf' \in Wfs /\ wf'.at = wf.at
  BY <1>1 DEF TryAgain, Wf, Wfs
<1>3. tries' \in 0..Retries
  BY PipelineAssumption DEF TypeOK, TryAgain
<1> QED  BY <1>2, <1>3

LEMMA WentOn ==
  ASSUME TypeOK, NEW ev, GoesOn(ev)
  PROVE  wf' \in Wfs /\ wf'.at = wf.at
<1>1. wf.at \in Waits /\ NoStage \in StagesOrNone
  BY DEF TypeOK, StagesOrNone
<1> QED  BY <1>1 DEF GoesOn, Wf, Wfs

(* A request about to write has checked its move.                          *)
Checked ==
  \A e \in Editors : req[e].pc = "write" => req[e].to \in ValidTo(req[e].seen)

(* ValidTo of no stage is empty, so what is checked is a stage.            *)
LEMMA CheckedStage ==
  ASSUME NEW s \in StagesOrNone, NEW t \in ValidTo(s)
  PROVE  s \in Stages /\ t \in Stages
  BY StageFacts DEF StagesOrNone

LEMMA RequestStep ==
  ASSUME TypeOK, Checked, NEW e \in Editors, NEW r \in Reqs,
         r.pc = "write" => r.to \in ValidTo(r.seen), req' = [req EXCEPT ![e] = r]
  PROVE  /\ req' \in [Editors -> Reqs] /\ Checked'
         /\ req'[e] = r /\ \A d \in Editors : d # e => req'[d] = req[d]
<1>1. req \in [Editors -> Reqs]
  BY TypeMeans
<1>2. /\ req' \in [Editors -> Reqs]
      /\ req'[e] = r /\ \A d \in Editors : d # e => req'[d] = req[d]
  BY <1>1
<1> QED  BY <1>2 DEF Checked

LEMMA TypeStep == TypeOK /\ Checked /\ [Next]_vars => TypeOK' /\ Checked'
<1> SUFFICES ASSUME TypeOK, Checked, [Next]_vars PROVE TypeOK' /\ Checked'
  OBVIOUS
<1>a. /\ stage \in StagesOrNone
      /\ history \in Seq(Rows) /\ Len(history) <= MaxHistory
      /\ sent \subseteq EventNames /\ pending \subseteq sent
      /\ req \in [Editors -> Reqs]
      /\ wf \in Wfs
      /\ tries \in 0..Retries /\ faults \in 0..MaxFaults
  BY TypeMeans
<1>b. ASSUME /\ stage' \in StagesOrNone
               /\ history' \in Seq(Rows) /\ Len(history') <= MaxHistory
               /\ sent' \subseteq EventNames /\ pending' \subseteq sent'
               /\ req' \in [Editors -> Reqs]
               /\ wf' \in Wfs
               /\ tries' \in 0..Retries /\ faults' \in 0..MaxFaults
      PROVE  TypeOK'
  BY <1>b DEF TypeOK, StagesOrNone, Rows, Reqs, Wfs
<1>d. req' = req => Checked'
  BY DEF Checked
<1>c. /\ NoStage \in StagesOrNone /\ Stages \subseteq StagesOrNone
      /\ NoEvent \in EventNames \cup {NoEvent}
      /\ wf.at \in Waits
  BY <1>a DEF StagesOrNone, Wfs
<1> USE DEF item, outbox
<1>1. CASE UNCHANGED vars
  BY <1>1, <1>a, <1>b, <1>d DEF vars
<1>2. ASSUME NEW by \in {"editor", "workflow"}, CreateItem(by)
      PROVE  stage' \in StagesOrNone /\ history' \in Seq(Rows) /\ Len(history') <= MaxHistory
  <2>1. Row(NoStage, "COPYEDIT_PENDING", by, NoEvent) \in Rows
    BY <1>c, RecordFacts, StageFacts
  <2> QED  BY <1>2, <1>c, <2>1, RowAdded, StageFacts DEF CreateItem
<1>3. CASE Create
  BY <1>3, <1>2, <1>a, <1>b, <1>d DEF Create
<1>4. CASE Assign
  BY <1>4, <1>a, <1>b, <1>d DEF Assign, Enqueue, EventNames
<1>5. ASSUME NEW e \in Editors, EditorStep(e) PROVE TypeOK' /\ Checked'
  <2>1. CASE MoveReads(e) \/ MoveEnds(e)
    <3>1. Req("check", stage, NoStage, NoStage) \in Reqs /\ Idle \in Reqs
      BY <1>a, <1>c, RecordFacts
    <3>2. PICK r \in Reqs : r.pc # "write" /\ req' = [req EXCEPT ![e] = r]
      BY <2>1, <3>1, <1>a, <1>c, RecordFacts DEF MoveReads, MoveEnds
    <3> QED  BY <2>1, <3>2, <1>a, <1>b, RequestStep DEF MoveReads, MoveEnds
  <2>2. ASSUME NEW to \in Stages, MoveChecks(e, to) PROVE TypeOK' /\ Checked'
    <3>1. req[e].prev \in StagesOrNone
      BY <1>a DEF Reqs
    <3> DEFINE r == Req("write", req[e].prev, stage, to)
    <3>2. r \in Reqs /\ r.to = to /\ r.seen = stage
      BY <3>1, <1>a, <1>c, RecordFacts
    <3>3. req' = [req EXCEPT ![e] = r] /\ to \in ValidTo(stage)
      BY <2>2 DEF MoveChecks
    <3> HIDE DEF r
    <3>4. req' \in [Editors -> Reqs] /\ Checked'
      BY <3>2, <3>3, RequestStep
    <3> QED  BY <2>2, <3>4, <1>a, <1>b DEF MoveChecks
  <2>3. CASE MoveWrites(e)
    <3> DEFINE r == req[e]
               ev == EventFor(r.prev, r.to)
    <3>1. r.seen \in StagesOrNone /\ r.prev \in StagesOrNone /\ r.to \in StagesOrNone
      BY <1>a DEF Reqs
    <3>2. ev \in EventNames \cup {NoEvent}
      BY <3>1, StageFacts
    <3>3. r.to \in Stages
      BY <2>3, <3>1, CheckedStage DEF MoveWrites, Checked
    <3>4. /\ history' = Append(history, Row(r.seen, r.to, "editor", ev))
          /\ Room /\ Enqueue({ev} \ {NoEvent}) /\ stage' = r.to
          /\ req' = [req EXCEPT ![e] = Idle] /\ UNCHANGED <<wf, tries, faults>>
      BY <2>3 DEF MoveWrites
    <3> HIDE DEF ev, r
    <3>5. Row(r.seen, r.to, "editor", ev) \in Rows
      BY <3>1, <3>2, <3>3, RecordFacts
    <3>6. history' \in Seq(Rows) /\ Len(history') <= MaxHistory
      BY <3>4, <3>5, RowAdded
    <3>7. sent' \subseteq EventNames /\ pending' \subseteq sent'
      BY <3>2, <3>4, <1>a DEF Enqueue
    <3>8. req' \in [Editors -> Reqs] /\ Checked'
      BY <3>4, RequestStep, RecordFacts
    <3> QED  BY <3>1, <3>4, <3>6, <3>7, <3>8, <1>a, <1>b
  <2> QED  BY <1>5, <2>1, <2>2, <2>3 DEF EditorStep
<1>6. CASE WfStarts \/ WfReturns
  <2>1. wf' \in Wfs
    BY <1>6, <1>c DEF WfStarts, WfReturns, Wf, Wfs, Waits
  <2> QED  BY <1>6, <2>1, <1>a, <1>b, <1>d, PipelineAssumption DEF WfStarts, WfReturns
<1>7. CASE WfCreates
  <2>1. wf' \in Wfs
    BY <1>7, <1>a DEF WfCreates, Wfs
  <2> QED  BY <1>7, <2>1, <1>2, <1>a, <1>b, <1>d DEF WfCreates
<1>8. CASE WfReads
  <2>1. wf' \in Wfs
    BY <1>8, <1>a, <1>c DEF WfReads, Wf, Wfs
  <2> QED  BY <1>8, <2>1, <1>a, <1>b, <1>d DEF WfReads
<1>9. CASE WfWrites
  <2>1. wf' \in Wfs /\ wf.seen \in StagesOrNone
    BY <1>9, <1>a DEF WfWrites, Wfs
  <2>2. Target[wf.at] \in Stages
    BY <1>c, StageFacts
  <2>3. Row(wf.seen, Target[wf.at], "workflow", NoEvent) \in Rows
    BY <2>1, <2>2, <1>c, RecordFacts
  <2> QED  BY <1>9, <2>1, <2>2, <2>3, RowAdded, <1>a, <1>b, <1>d, <1>c DEF WfWrites
<1>10. CASE WfRefused \/ WfCrashes
  <2>1. wf' \in Wfs /\ tries' \in 0..Retries
    BY <1>10, TriedAgain DEF WfRefused, WfCrashes
  <2> QED  BY <1>10, <2>1, <1>a, <1>b, <1>d, PipelineAssumption DEF WfRefused, WfCrashes
<1>11. ASSUME NEW ev \in EventNames, NEW keep \in BOOLEAN, EventArrives(ev, keep)
       PROVE  TypeOK' /\ Checked'
  <2>1. wf' \in Wfs
    BY <1>11, <1>a, WentOn DEF EventArrives
  <2> QED  BY <1>11, <2>1, <1>a, <1>b, <1>d, PipelineAssumption DEF EventArrives
<1>12. CASE WaitTimesOut
  BY <1>12, <1>a, <1>b, <1>d, WentOn DEF WaitTimesOut
<1> QED
  BY <1>1, <1>3, <1>4, <1>5, <1>6, <1>7, <1>8, <1>9, <1>10, <1>11, <1>12
     DEF Next, WorkflowStep

(* Stage, history, requests, workflow and events keep their types, for any *)
(* number of editors whose requests overlap.                               *)
LEMMA TypeInvariant == Spec => [](TypeOK /\ Checked)
<1>1. Init => Checked
  BY RecordFacts DEF Init, Checked
<1> QED  BY <1>1, TypeInit, TypeStep, PTL DEF Spec

(* Every reachable state is well typed.                                    *)
THEOREM TypeCorrect == Spec => []TypeOK
  BY TypeInvariant, PTL

-----------------------------------------------------------------------------
(* The history                                                             *)

Legal(h) ==
  \A i \in 1..Len(h) :
    IF i = 1 THEN h[i].from = NoStage
    ELSE /\ h[i].to \in ValidTo(h[i].from)
         /\ \E j \in 1..(i - 1) : h[j].to = h[i].from

Visited(h, s) == \E j \in 1..Len(h) : h[j].to = s

LEMMA LegalAppend ==
  ASSUME NEW h \in Seq(Rows), NEW r \in Rows, Legal(h),
         \/ h = <<>> /\ r.from = NoStage
         \/ h # <<>> /\ Visited(h, r.from) /\ r.to \in ValidTo(r.from)
  PROVE  Legal(Append(h, r))
<1> DEFINE g == Append(h, r)
           n == Len(h)
<1>1. /\ Len(g) = n + 1 /\ n \in Nat
      /\ \A i \in 1..n : g[i] = h[i]
      /\ g[n + 1] = r
  BY AppendFacts
<1> HIDE DEF g
<1> SUFFICES ASSUME NEW i \in 1..(n + 1)
             PROVE  IF i = 1 THEN g[i].from = NoStage
                    ELSE /\ g[i].to \in ValidTo(g[i].from)
                         /\ \E j \in 1..(i - 1) : g[j].to = g[i].from
  BY <1>1 DEF Legal, g
<1>2. CASE i \in 1..n
  <2>1. \A j \in 1..i : g[j] = h[j]
    BY <1>1, <1>2
  <2> QED  BY <1>1, <1>2, <2>1 DEF Legal
<1>3. CASE i = n + 1
  <2>1. CASE h = <<>>
    BY <1>1, <1>3, <2>1
  <2>2. CASE h # <<>>
    <3>1. n # 0
      BY <2>2
    <3>2. PICK j \in 1..n : h[j].to = r.from
      BY <2>2 DEF Visited
    <3> QED  BY <1>1, <1>3, <2>2, <3>1, <3>2
  <2> QED  BY <2>1, <2>2
<1> QED  BY <1>1, <1>2, <1>3

LEMMA VisitedAppend ==
  ASSUME NEW h \in Seq(Rows), NEW r \in Rows
  PROVE  /\ Visited(Append(h, r), r.to)
         /\ \A s : Visited(h, s) => Visited(Append(h, r), s)
         /\ Append(h, r) # <<>>
  BY AppendFacts DEF Visited

(* The stage of the item, and every stage a mover has read, is in the      *)
(* history; a mover about to write has checked its move from there.        *)
Past ==
  /\ stage = NoStage => history = <<>>
  /\ stage # NoStage => Visited(history, stage)
  /\ \A e \in Editors : req[e].pc = "write" => Visited(history, req[e].seen)
  /\ wf.pc = "write" => /\ Target[wf.at] \in ValidTo(wf.seen)
                        /\ Visited(history, wf.seen)

LEMMA PastStep ==
  ASSUME TypeOK, Checked, Past, Legal(history), [Next]_vars
  PROVE  Past' /\ Legal(history)'
<1>a. /\ stage \in StagesOrNone /\ history \in Seq(Rows)
      /\ req \in [Editors -> Reqs] /\ wf \in Wfs
  BY TypeMeans
<1>b. NoStage \in StagesOrNone /\ NoStage \notin Stages /\ ValidTo(NoStage) = {}
  BY StageFacts DEF StagesOrNone
<1> USE DEF item, outbox
<1>1. ASSUME NEW r \in Rows, history' = Append(history, r), stage' = r.to,
             r.to \in Stages,
             \/ history = <<>> /\ r.from = NoStage
             \/ history # <<>> /\ Visited(history, r.from) /\ r.to \in ValidTo(r.from)
      PROVE  /\ Legal(history')
             /\ stage' # NoStage /\ Visited(history', stage')
             /\ \A s : Visited(history, s) => Visited(history', s)
  BY <1>1, <1>a, <1>b, LegalAppend, VisitedAppend
<1>2. CASE UNCHANGED <<stage, history, req, wf>>
  BY <1>2 DEF Past
<1>3. ASSUME NEW by \in {"editor", "workflow"}, CreateItem(by)
      PROVE  /\ Legal(history')
             /\ stage' # NoStage /\ Visited(history', stage')
             /\ \A s : Visited(history, s) => Visited(history', s)
  <2> DEFINE r == Row(NoStage, "COPYEDIT_PENDING", by, NoEvent)
  <2>1. r \in Rows /\ r.from = NoStage /\ r.to = "COPYEDIT_PENDING"
    BY <1>b, RecordFacts, StageFacts
  <2>2. history = <<>> /\ history' = Append(history, r) /\ stage' = "COPYEDIT_PENDING"
    BY <1>3 DEF CreateItem, Past
  <2> HIDE DEF r
  <2> QED  BY <1>1, <2>1, <2>2, StageFacts
<1>4. CASE Create
  <2>1. /\ Legal(history') /\ stage' # NoStage /\ Visited(history', stage')
        /\ \A s : Visited(history, s) => Visited(history', s)
    BY <1>3, <1>4 DEF Create
  <2> QED  BY <1>4, <2>1 DEF Create, Past
<1>5. CASE WfCreates
  <2>1. /\ Legal(history') /\ stage' # NoStage /\ Visited(history', stage')
        /\ \A s : Visited(history, s) => Visited(history', s)
    BY <1>3, <1>5 DEF WfCreates
  <2>2. wf'.pc = "created" /\ req' = req
    BY <1>5, <1>a DEF WfCreates, Wfs
  <2> QED  BY <2>1, <2>2 DEF Past
<1>6. ASSUME NEW e \in Editors, MoveReads(e) \/ MoveEnds(e) PROVE Past' /\ Legal(history)'
  <2>1. PICK r \in Reqs : r.pc # "write" /\ req' = [req EXCEPT ![e] = r]
    BY <1>6, <1>a, <1>b, RecordFacts DEF MoveReads, MoveEnds
  <2>2. \A d \in Editors : req'[d].pc = "write" => req'[d] = req[d]
    BY <2>1, <1>a
  <2> QED  BY <1>6, <2>2 DEF MoveReads, MoveEnds, Past
<1>7. ASSUME NEW e \in Editors, NEW to \in Stages, MoveChecks(e, to)
      PROVE  Past' /\ Legal(history)'
  <2>1. req[e].prev \in StagesOrNone /\ to \in StagesOrNone
    BY <1>a DEF Reqs, StagesOrNone
  <2> DEFINE r == Req("write", req[e].prev, stage, to)
  <2>2. r \in Reqs /\ r.seen = stage
    BY <1>a, <2>1, RecordFacts
  <2>3. req' = [req EXCEPT ![e] = r] /\ stage # NoStage
    BY <1>7, <1>b DEF MoveChecks
  <2> HIDE DEF r
  <2>4. \A d \in Editors : req'[d] = IF d = e THEN r ELSE req[d]
    BY <2>3, <1>a
  <2> QED  BY <1>7, <2>2, <2>3, <2>4 DEF MoveChecks, Past
<1>8. ASSUME NEW e \in Editors, MoveWrites(e) PROVE Past' /\ Legal(history)'
  <2> DEFINE q == req[e]
             ev == EventFor(q.prev, q.to)
             r == Row(q.seen, q.to, "editor", ev)
  <2>1. q.seen \in StagesOrNone /\ q.prev \in StagesOrNone /\ q.to \in StagesOrNone
    BY <1>a DEF Reqs
  <2>2. q.to \in ValidTo(q.seen) /\ Visited(history, q.seen)
    BY <1>8 DEF MoveWrites, Checked, Past
  <2>3. q.to \in Stages /\ ev \in EventNames \cup {NoEvent}
    BY <2>1, <2>2, CheckedStage, StageFacts
  <2>4. r \in Rows /\ r.from = q.seen /\ r.to = q.to
    BY <2>1, <2>3, RecordFacts
  <2>5. /\ history' = Append(history, r) /\ stage' = q.to
        /\ req' = [req EXCEPT ![e] = Idle] /\ wf' = wf
    BY <1>8 DEF MoveWrites
  <2>6. \A d \in Editors : req'[d].pc = "write" => req'[d] = req[d]
    BY <2>5, <1>a, RecordFacts
  <2> HIDE DEF q, ev, r
  <2>7. history # <<>>
    BY <2>2 DEF Visited
  <2> QED  BY <1>1, <2>2, <2>3, <2>4, <2>5, <2>6, <2>7 DEF Past
<1>9. CASE WfReads
  <2>1. /\ wf'.pc = "write" /\ wf'.at = wf.at /\ wf'.seen = stage
        /\ Target[wf.at] \in ValidTo(stage) /\ UNCHANGED <<stage, history, req>>
    BY <1>9 DEF WfReads, Wf
  <2>2. stage # NoStage
    BY <2>1, <1>b
  <2> QED  BY <2>1, <2>2 DEF Past
<1>10. CASE WfWrites
  <2> DEFINE to == Target[wf.at]
             r == Row(wf.seen, to, "workflow", NoEvent)
  <2>1. to \in ValidTo(wf.seen) /\ Visited(history, wf.seen) /\ wf.seen \in StagesOrNone
    BY <1>10, <1>a DEF WfWrites, Past, Wfs
  <2>2. to \in Stages
    BY <2>1, CheckedStage
  <2>3. r \in Rows /\ r.from = wf.seen /\ r.to = to
    BY <2>1, <2>2, RecordFacts
  <2>4. history' = Append(history, r) /\ stage' = to /\ req' = req
    BY <1>10 DEF WfWrites
  <2>5. wf'.pc = "written"
    BY <1>10, <1>a DEF WfWrites, Wfs
  <2> HIDE DEF to, r
  <2>6. history # <<>>
    BY <2>1 DEF Visited
  <2> QED  BY <1>1, <2>1, <2>2, <2>3, <2>4, <2>5, <2>6 DEF Past
<1>11. CASE WfStarts \/ WfReturns \/ WfRefused \/ WfCrashes
  <2>1. wf'.pc # "write" /\ UNCHANGED <<stage, history, req>>
    BY <1>11 DEF WfStarts, WfReturns, WfRefused, WfCrashes, TryAgain, Wf
  <2> QED  BY <2>1 DEF Past
<1>12. CASE WaitTimesOut \/ \E ev \in EventNames, keep \in BOOLEAN : EventArrives(ev, keep)
  <2>1. (wf' = wf \/ wf'.pc # "write") /\ UNCHANGED <<stage, history, req>>
    BY <1>12 DEF WaitTimesOut, EventArrives, GoesOn, Wf
  <2> QED  BY <2>1 DEF Past
<1> QED
  BY <1>2, <1>4, <1>5, <1>6, <1>7, <1>8, <1>9, <1>10, <1>11, <1>12
     DEF Next, EditorStep, WorkflowStep, Assign, vars

(* However editors' requests and the workflow overtake each other, every   *)
(* row of the history is a valid move from a stage the piece was in.       *)
THEOREM HistoryIsLegal == Spec => []MovesLegal
<1>1. Init => Past /\ Legal(history)
  BY RecordFacts DEF Init, Past, Legal, Wf
<1>2. TypeOK /\ Checked /\ Past /\ Legal(history) /\ [Next]_vars
        => Past' /\ Legal(history)'
  BY PastStep
<1>3. Legal(history) => MovesLegal
  BY DEF Legal, MovesLegal
<1> QED  BY <1>1, <1>2, <1>3, TypeInvariant, PTL DEF Spec

-----------------------------------------------------------------------------
(* The author's approval                                                   *)

Approved == "approved" \in sent

ApprovedInv ==
  /\ \A i \in 1..Len(history) :
       history[i].by = "workflow" /\ history[i].to = "PROOFREAD" => Approved
  /\ wf.at = Review /\ wf.pc \in {"advance", "write", "written"} => Approved

LEMMA ApprovedStep ==
  ASSUME TypeOK, Checked, ApprovedInv, [Next]_vars
  PROVE  ApprovedInv'
<1>a. /\ history \in Seq(Rows) /\ req \in [Editors -> Reqs] /\ wf \in Wfs
      /\ pending \subseteq sent /\ NoStage \in StagesOrNone
  BY TypeMeans DEF StagesOrNone
<1> USE DEF item, outbox
<1>1. Approved => Approved'
  BY DEF Approved, Next, Create, Assign, EditorStep, WorkflowStep, MoveReads, MoveChecks,
         MoveWrites, MoveEnds, WfStarts, WfCreates, WfReads, WfWrites, WfReturns,
         WfRefused, WfCrashes, EventArrives, WaitTimesOut, CreateItem, Enqueue, vars
<1>2. ASSUME NEW r \in Rows, history' = Append(history, r),
             r.by = "workflow" /\ r.to = "PROOFREAD" => Approved
      PROVE  \A i \in 1..Len(history') :
               history'[i].by = "workflow" /\ history'[i].to = "PROOFREAD" => Approved'
  BY <1>1, <1>2, <1>a, AppendFacts DEF ApprovedInv
<1>3. CASE UNCHANGED <<history, wf>>
  BY <1>1, <1>3 DEF ApprovedInv
<1>4. ASSUME NEW by \in {"editor", "workflow"}, CreateItem(by)
      PROVE  \A i \in 1..Len(history') :
               history'[i].by = "workflow" /\ history'[i].to = "PROOFREAD" => Approved'
  <2> DEFINE r == Row(NoStage, "COPYEDIT_PENDING", by, NoEvent)
  <2>1. r \in Rows /\ r.to = "COPYEDIT_PENDING" /\ history' = Append(history, r)
    BY <1>4, <1>a, RecordFacts, StageFacts DEF CreateItem
  <2> HIDE DEF r
  <2> QED  BY <1>2, <2>1
<1>5. CASE Create
  BY <1>1, <1>4, <1>5 DEF Create, ApprovedInv
<1>6. CASE WfCreates
  <2>1. wf'.pc = "created"
    BY <1>6, <1>a DEF WfCreates, Wfs
  <2> QED  BY <1>4, <1>6, <2>1 DEF WfCreates, ApprovedInv
<1>7. ASSUME NEW e \in Editors, MoveWrites(e) PROVE ApprovedInv'
  <2> DEFINE q == req[e]
             ev == EventFor(q.prev, q.to)
             r == Row(q.seen, q.to, "editor", ev)
  <2>1. q.seen \in StagesOrNone /\ q.prev \in StagesOrNone /\ q.to \in StagesOrNone
    BY <1>a DEF Reqs
  <2>2. q.to \in Stages /\ ev \in EventNames \cup {NoEvent}
    BY <1>7, <2>1, CheckedStage, StageFacts DEF MoveWrites, Checked
  <2>3. r \in Rows /\ r.by = "editor"
    BY <2>1, <2>2, RecordFacts
  <2>4. history' = Append(history, r) /\ wf' = wf
    BY <1>7 DEF MoveWrites
  <2> HIDE DEF r
  <2> QED  BY <1>1, <1>2, <2>3, <2>4 DEF ApprovedInv
<1>8. CASE WfWrites
  <2> DEFINE to == Target[wf.at]
             r == Row(wf.seen, to, "workflow", NoEvent)
  <2>1. /\ wf.seen \in StagesOrNone /\ wf.at \in Waits
        /\ wf'.at = wf.at /\ wf.pc = "write"
    BY <1>8, <1>a DEF WfWrites, Wfs
  <2>2. to \in Stages /\ (to = "PROOFREAD" => wf.at = Review)
    BY <2>1, StageFacts
  <2>3. r \in Rows /\ r.to = to
    BY <2>1, <2>2, RecordFacts
  <2>4. history' = Append(history, r)
    BY <1>8 DEF WfWrites
  <2> HIDE DEF to, r
  <2> QED  BY <1>1, <1>2, <2>1, <2>2, <2>3, <2>4 DEF ApprovedInv
<1>9. CASE WfReads
  BY <1>1, <1>9 DEF WfReads, Wf, ApprovedInv
<1>10. CASE WfRefused \/ WfCrashes
  <2>1. /\ wf'.at = wf.at /\ history' = history
        /\ wf'.pc \in {"advance", "write", "written"}
             => wf.pc \in {"advance", "write", "written"}
    BY <1>10 DEF WfRefused, WfCrashes, TryAgain, Wf
  <2> QED  BY <1>1, <2>1 DEF ApprovedInv
<1>11. CASE WfStarts \/ WfReturns
  <2>1. wf'.pc \in {"create", "wait", "ready"} /\ history' = history
    BY <1>11 DEF WfStarts, WfReturns, Wf
  <2> QED  BY <1>1, <2>1 DEF ApprovedInv
<1>12. ASSUME NEW ev \in EventNames, NEW keep \in BOOLEAN, EventArrives(ev, keep)
       PROVE  ApprovedInv'
  <2>1. ev \in sent /\ history' = history /\ (wf' = wf \/ GoesOn(ev))
    BY <1>12, <1>a DEF EventArrives
  <2> QED  BY <1>1, <2>1 DEF GoesOn, Wf, ApprovedInv, Approved
<1>13. CASE WaitTimesOut
  BY <1>1, <1>13 DEF WaitTimesOut, GoesOn, Wf, NoEvent, ApprovedInv
<1> QED
  BY <1>3, <1>5, <1>6, <1>7, <1>8, <1>9, <1>10, <1>11, <1>12, <1>13
     DEF Next, EditorStep, WorkflowStep, Assign, MoveReads, MoveChecks, MoveEnds, vars

(* The workflow moves a piece to the proofreader only after an editor has  *)
(* reported the author's approval, whatever crashes, repeats or times out. *)
THEOREM ApprovalFirst == Spec => []ProofreadNeedsApproval
<1>1. Init => ApprovedInv
  BY DEF Init, ApprovedInv, Wf
<1>2. ApprovedInv => ProofreadNeedsApproval
  BY DEF ApprovedInv, Approved, ProofreadNeedsApproval
<1> QED  BY <1>1, <1>2, TypeInvariant, ApprovedStep, PTL DEF Spec
=============================================================================
