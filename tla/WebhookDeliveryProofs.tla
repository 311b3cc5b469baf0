------------------------ MODULE WebhookDeliveryProofs ------------------------
(***************************************************************************)
(* Proofs about WebhookDelivery, for any number of endpoints, deliveries,  *)
(* slots, attempts, requests and faults: types; statuses that tell what    *)
(* the endpoint answered; no disabling below the threshold; and a disable  *)
(* that takes effect on everything but the attempts under way.             *)
(***************************************************************************)
EXTENDS WebhookDelivery, FiniteSetTheorems, TLAPS

-----------------------------------------------------------------------------
(* Operators                                                               *)

LEMMA FreshFact == Unused # {} => Fresh \in Deliveries /\ row[Fresh] = "none"
  BY DEF Fresh, Unused

LEMMA StatusFacts ==
  /\ "QUEUED" \in DeliveryStatuses /\ "DELIVERING" \in DeliveryStatuses
  /\ "DELIVERED" \in DeliveryStatuses /\ "FAILED" \in DeliveryStatuses
  /\ "CANCELLED" \in DeliveryStatuses
  /\ "none" \notin DeliveryStatuses /\ "open" \notin DeliveryStatuses
  /\ "gone" \notin DeliveryStatuses
  /\ DeliveryStatuses \subseteq RowStates
  /\ "none" \in RowStates /\ "open" \in RowStates /\ "gone" \in RowStates
  BY DEF DeliveryStatuses, RowStates

LEMMA StepFacts ==
  /\ "idle" \in Steps /\ "check" \in Steps /\ "cancel" \in Steps /\ "mark" \in Steps
  /\ "post" \in Steps /\ "ok" \in Steps /\ "error" \in Steps
  /\ "done" \in Steps /\ "throw" \in Steps
  BY DEF Steps

-----------------------------------------------------------------------------
(* Types, and where rows, jobs, attempts and callbacks stand to each other  *)

FanOK ==
  /\ fan.pc = "list" => fan.next = 1
  /\ fan.pc # "failed" => fan.fails <= FanRetries
  /\ fan.pc \in {"create", "enqueue"} => fan.next \in 1..Len(fan.order)
  /\ fan.pc = "enqueue" => fan.new \in Deliveries /\ row[fan.new] # "none"

Placed ==
  \A d \in Deliveries :
    /\ row[d] # "none" => to[d] \in Endpoints
    /\ job[d].state # "none" => row[d] # "none"
    /\ job[d].state \in {"waiting", "active"} => job[d].made < Attempts
    /\ counted[d] # "no" => failing[d] > 0 /\ Exists(d)
    /\ d \in retrying => Exists(d)

(* A slot is idle, or at work on a delivery that has been made.            *)
SlotsOK ==
  \A w \in Slots :
    run[w] # NoRun =>
      run[w].pc # "idle" /\ run[w].of \in Deliveries /\ row[run[w].of] # "none"

LEMMA RunFacts ==
  /\ NoRun \in Runs /\ NoRun.pc = "idle"
  /\ \A w \in Idle : FreeSlot \in Slots /\ run[FreeSlot] = NoRun
  BY StepFacts DEF NoRun, Runs, Idle, FreeSlot

LEMMA JobFacts ==
  /\ NewJob \in Jobs /\ NoJob \in Jobs
  /\ NewJob.state = "waiting" /\ NewJob.made = 0 /\ NoJob.state = "none" /\ NewJob # NoJob
  BY WebhookAssumption DEF NewJob, NoJob, Job, Jobs

(* get-endpoints finds its endpoints in some order.                        *)
LEMMA OrderFacts ==
  ASSUME NEW S \in SUBSET Endpoints, NEW f \in Orders(S)
  PROVE  f \in Seq(Endpoints) /\ (S # {} => 1 \in 1..Len(f))
<1>1. IsFiniteSet(S) /\ Cardinality(S) \in Nat
  BY WebhookAssumption, FS_Subset, FS_CardinalityType
<1>2. S # {} => Cardinality(S) # 0
  BY <1>1, FS_EmptySet
<1>3. f \in [1..Cardinality(S) -> Endpoints]
  BY DEF Orders
<1> QED  BY <1>1, <1>2, <1>3

Sound == TypeOK /\ FanOK /\ Placed /\ SlotsOK

(* What an attempt does leaves the slots as they should be.                *)
LEMMA SlotMoves ==
  ASSUME TypeOK, SlotsOK, NEW w \in Slots, NEW next \in Steps \ {"idle"},
         run[w].pc # "idle", Leaves(w) \/ Goto(w, next),
         \A x \in Deliveries : row[x] # "none" => row'[x] # "none"
  PROVE  SlotsOK' /\ run' \in [Slots -> Runs]
<1>1. run[w] # NoRun /\ run[w] \in Runs
  BY RunFacts DEF TypeOK
<1>2. CASE Leaves(w)
  BY <1>2, RunFacts DEF Leaves, SlotsOK, TypeOK
<1>3. CASE Goto(w, next)
  <2>1. /\ run'[w].pc = next /\ run'[w].of = run[w].of
        /\ run'[w] \in Runs
        /\ \A x \in Slots \ {w} : run'[x] = run[x]
    BY <1>1, <1>3 DEF Goto, TypeOK, Runs
  <2>2. run' \in [Slots -> Runs]
    BY <1>1, <1>3 DEF Goto, TypeOK, Runs
  <2> QED  BY <1>1, <2>1, <2>2 DEF SlotsOK
<1> QED  BY <1>2, <1>3

LEMMA SoundStep == Sound /\ [Next]_vars => Sound'
<1> DEFINE Goal == TypeOK' /\ FanOK' /\ Placed' /\ SlotsOK'
<1> SUFFICES ASSUME Sound, [Next]_vars PROVE Goal
  BY DEF Sound
<1> USE WebhookAssumption, FreshFact, StatusFacts, StepFacts, JobFacts, RunFacts DEF Sound
<1>1. CASE FanLists
  <2>1. TypeOK'
    <3> DEFINE found == {e \in Endpoints : endpoint[e] = "ACTIVE" /\ e \in subscribed}
    <3>0. PICK order \in Orders(found) :
            fan' = [fan EXCEPT !.order = order,
                               !.pc = IF found = {} THEN "done" ELSE "create"]
      BY <1>1 DEF FanLists
    <3>1. order \in Seq(Endpoints) /\ (found # {} => 1 \in 1..Len(order))
      BY <3>0, OrderFacts
    <3>2. fan' \in Fans
      BY <3>0, <3>1 DEF TypeOK, Fans
    <3> QED
      BY <1>1, <3>2 DEF FanLists, TypeOK, rows, ghosts
  <2>2. FanOK'
    <3> DEFINE found == {e \in Endpoints : endpoint[e] = "ACTIVE" /\ e \in subscribed}
    <3>0. PICK order \in Orders(found) :
            fan' = [fan EXCEPT !.order = order,
                               !.pc = IF found = {} THEN "done" ELSE "create"]
      BY <1>1 DEF FanLists
    <3>1. order \in Seq(Endpoints) /\ (found # {} => 1 \in 1..Len(order))
      BY <3>0, OrderFacts
    <3> QED
      BY <1>1, <3>0, <3>1 DEF FanLists, FanOK, TypeOK, Fans
  <2>3. Placed'
    BY <1>1 DEF FanLists, Orders, TypeOK, FanOK, Placed, Exists, rows,
      ghosts
  <2>4. SlotsOK'
    BY <1>1 DEF FanLists, TypeOK, Exists, SlotsOK, NoRun, rows
  <2> QED  BY <2>1, <2>2, <2>3, <2>4
<1>2. CASE FanCreates
  <2>1. TypeOK'
    <3>1. fan.order[fan.next] \in Endpoints
      BY <1>2 DEF FanCreates, FanOK, TypeOK, Fans
    <3>2. to' \in [Deliveries -> Endpoints \cup {NoEndpoint}]
      BY <1>2, <3>1 DEF FanCreates, TypeOK
    <3>3. row' \in [Deliveries -> RowStates]
      BY <1>2 DEF FanCreates, TypeOK, RowStates
    <3>4. fan' \in Fans
      BY <1>2 DEF FanCreates, TypeOK, Fans
    <3> QED
      BY <1>2, <3>1, <3>2, <3>3, <3>4 DEF FanCreates, Unused, TypeOK, rows, ghosts
  <2>2. FanOK'
    BY <1>2 DEF FanCreates, Unused, TypeOK, FanOK, Exists, rows, ghosts
  <2>3. Placed'
    <3>1. fan.order[fan.next] \in Endpoints
      BY <1>2 DEF FanCreates, FanOK, TypeOK, Fans
    <3> QED
      BY <1>2, <3>1 DEF FanCreates, TypeOK, Placed, Exists
  <2>4. SlotsOK'
    BY <1>2 DEF FanCreates, Unused, TypeOK, Exists, SlotsOK, NoRun, rows
  <2> QED  BY <2>1, <2>2, <2>3, <2>4
<1>3. CASE FanEnqueues
  <2>1. TypeOK'
    <3>1. fan.next + 1 \in Nat \ {0} /\ NoDelivery \in Deliveries \cup {NoDelivery}
      BY <1>3 DEF TypeOK, Fans
    <3>2. fan' \in Fans
      BY <1>3, <3>1 DEF FanEnqueues, TypeOK, Fans
    <3>3. job' \in [Deliveries -> Jobs]
      BY <1>3 DEF FanEnqueues, Add, TypeOK
    <3> QED
      BY <1>3, <3>1, <3>2, <3>3 DEF FanEnqueues, Add, TypeOK, rows, ghosts
  <2>2. FanOK'
    BY SMTT(40), <1>3 DEF FanEnqueues, Add, TypeOK, FanOK, Exists, rows, ghosts
  <2>3. Placed'
    BY SMTT(40), <1>3 DEF FanEnqueues, Add, TypeOK, FanOK, Placed, Exists, rows,
      ghosts
  <2>4. SlotsOK'
    BY <1>3 DEF FanEnqueues, TypeOK, Exists, SlotsOK, NoRun, rows
  <2> QED  BY <2>1, <2>2, <2>3, <2>4
<1>4. CASE FanFails
  <2>1. TypeOK'
    <3>1. fan.fails + 1 \in 0..FanRetries + 1 /\ 1 \in Nat \ {0}
      BY SMTT(40), <1>4 DEF FanFails, FanOK, TypeOK, Fans
    <3>2. PICK next \in {"failed", "create"} :
            fan' = [fan EXCEPT !.next = 1, !.new = NoDelivery,
                               !.fails = fan.fails + 1, !.pc = next]
      BY <1>4 DEF FanFails
    <3>3. fan' \in Fans
      BY <3>1, <3>2 DEF TypeOK, Fans
    <3>4. faults' \in 0..MaxFaults
      BY <1>4 DEF FanFails, Fault, NoFault, TypeOK
    <3> QED
      BY <1>4, <3>3, <3>4 DEF FanFails, TypeOK, rows, ghosts
  <2>2. FanOK'
    <3>1. fan.fails \in Nat /\ (fan.fails # FanRetries => fan.fails + 1 <= FanRetries)
      BY <1>4 DEF FanFails, FanOK, TypeOK, Fans
    <3>2. 1 \in 1..Len(fan.order)
      BY <1>4 DEF FanFails, TypeOK, Fans
    <3>3. /\ fan'.pc = IF fan.fails = FanRetries THEN "failed" ELSE "create"
          /\ fan'.next = 1 /\ fan'.fails = fan.fails + 1 /\ fan'.order = fan.order
      BY <1>4 DEF FanFails, TypeOK, Fans
    <3> QED
      BY <3>1, <3>2, <3>3 DEF FanOK
  <2>3. Placed'
    BY <1>4 DEF FanFails, Fault, NoFault, TypeOK, FanOK, Placed, Exists,
      rows, ghosts
  <2>4. SlotsOK'
    BY <1>4 DEF FanFails, TypeOK, Exists, SlotsOK, NoRun, rows
  <2> QED  BY <2>1, <2>2, <2>3, <2>4
<1>5. ASSUME NEW e \in Endpoints, UpdateEndpoint(e) PROVE Goal
  <2>1. TypeOK'
    BY <1>5 DEF UpdateEndpoint, Request, Turn, TypeOK, Exists, rows, ghosts
  <2>2. FanOK'
    BY <1>5 DEF UpdateEndpoint, Request, Turn, TypeOK, FanOK, Exists, rows,
      ghosts
  <2>3. Placed'
    BY <1>5 DEF UpdateEndpoint, Request, Turn, TypeOK, FanOK, Placed,
      Exists, rows, ghosts
  <2>4. SlotsOK'
    BY <1>5 DEF UpdateEndpoint, TypeOK, Exists, SlotsOK, NoRun, rows
  <2> QED  BY <2>1, <2>2, <2>3, <2>4
<1>6. ASSUME NEW e \in Endpoints, DeleteEndpoint(e) PROVE Goal
  <2>1. TypeOK'
    BY <1>6 DEF DeleteEndpoint, Request, Of, Unlocked, TypeOK, Exists, rows,
      ghosts
  <2>2. FanOK'
    BY <1>6 DEF DeleteEndpoint, Request, Of, Unlocked, TypeOK, FanOK,
      Exists, rows, ghosts
  <2>3. Placed'
    BY <1>6 DEF DeleteEndpoint, Request, Of, Unlocked, TypeOK, FanOK,
      Placed, Exists, rows, ghosts
  <2>4. SlotsOK'
    BY <1>6 DEF DeleteEndpoint, TypeOK, Exists, SlotsOK, NoRun, rows
  <2> QED  BY <2>1, <2>2, <2>3, <2>4
<1>7. ASSUME NEW e \in Endpoints, SendTest(e) PROVE Goal
  <2>1. TypeOK'
    <3>1. to' \in [Deliveries -> Endpoints \cup {NoEndpoint}]
      BY <1>7 DEF SendTest, TypeOK
    <3>2. row' \in [Deliveries -> RowStates]
      BY <1>7 DEF SendTest, TypeOK, RowStates
    <3>3. job' \in [Deliveries -> Jobs]
      BY <1>7 DEF SendTest, Add, TypeOK
    <3>4. faults' \in 0..MaxFaults /\ requests' \in 0..MaxRequests
      BY <1>7 DEF SendTest, Request, Fault, NoFault, TypeOK
    <3> QED
      BY <1>7, <3>1, <3>2, <3>3, <3>4 DEF SendTest, Request, Unused, Add, Fault, NoFault, TypeOK, rows, ghosts
  <2>2. FanOK'
    BY <1>7 DEF SendTest, Request, Unused, Add, Fault, NoFault, TypeOK,
      FanOK, Exists, rows, ghosts
  <2>3. Placed'
    BY <1>7 DEF SendTest, Request, Unused, Add, Fault, NoFault, TypeOK,
      FanOK, Placed, Exists, rows, ghosts
  <2>4. SlotsOK'
    BY <1>7 DEF SendTest, Unused, TypeOK, Exists, SlotsOK, NoRun, rows
  <2> QED  BY <2>1, <2>2, <2>3, <2>4
<1>8. ASSUME NEW d \in Deliveries, TestCommits(d) PROVE Goal
  <2>1. TypeOK'
    BY <1>8 DEF TestCommits, TypeOK, Exists, rows, ghosts
  <2>2. FanOK'
    BY <1>8 DEF TestCommits, TypeOK, FanOK, Exists, rows, ghosts
  <2>3. Placed'
    BY <1>8 DEF TestCommits, TypeOK, FanOK, Placed, Exists, rows, ghosts
  <2>4. SlotsOK'
    BY <1>8 DEF TestCommits, TypeOK, Exists, SlotsOK, NoRun, rows
  <2> QED  BY <2>1, <2>2, <2>3, <2>4
<1>9. ASSUME NEW d \in Deliveries, Retry(d) PROVE Goal
  <2>1. TypeOK'
    <3>1. job' \in [Deliveries -> Jobs]
      BY <1>9 DEF Retry, TypeOK
    <3>2. faults' \in 0..MaxFaults /\ requests' \in 0..MaxRequests
      BY <1>9 DEF Retry, Request, Fault, NoFault, TypeOK
    <3> QED
      BY <1>9, <3>1, <3>2 DEF Retry, Request, Unlocked, Fault, NoFault, TypeOK, rows, ghosts
  <2>2. FanOK'
    BY <1>9 DEF Retry, Request, Unlocked, Fault, NoFault, TypeOK, FanOK,
      Exists, rows, ghosts
  <2>3. Placed'
    BY <1>9 DEF Retry, Request, Unlocked, Fault, NoFault, TypeOK, FanOK,
      Placed, Exists, rows, ghosts
  <2>4. SlotsOK'
    BY <1>9 DEF Retry, TypeOK, Exists, SlotsOK, NoRun, rows
  <2> QED  BY <2>1, <2>2, <2>3, <2>4
<1>10. ASSUME NEW d \in Deliveries, RetryCommits(d) PROVE Goal
  <2>1. TypeOK'
    BY <1>10 DEF RetryCommits, TypeOK, Exists, rows, ghosts
  <2>2. FanOK'
    BY <1>10 DEF RetryCommits, TypeOK, FanOK, Exists, rows, ghosts
  <2>3. Placed'
    BY <1>10 DEF RetryCommits, TypeOK, FanOK, Placed, Exists, rows, ghosts
  <2>4. SlotsOK'
    BY <1>10 DEF RetryCommits, TypeOK, Exists, SlotsOK, NoRun, rows
  <2> QED  BY <2>1, <2>2, <2>3, <2>4
<1>11. ASSUME NEW d \in Deliveries, RequestBreaks(d) PROVE Goal
  <2>1. TypeOK'
    <3>1. row' \in [Deliveries -> RowStates]
      BY <1>11 DEF RequestBreaks, TypeOK, RowStates
    <3>2. faults' \in 0..MaxFaults /\ retrying' \subseteq Deliveries
      BY <1>11 DEF RequestBreaks, Fault, TypeOK
    <3> QED
      BY <1>11, <3>1, <3>2 DEF RequestBreaks, Fault, TypeOK, rows, ghosts
  <2>2. FanOK'
    BY <1>11 DEF RequestBreaks, Fault, TypeOK, FanOK, Exists, rows, ghosts
  <2>3. Placed'
    BY SMTT(40), <1>11 DEF RequestBreaks, Fault, TypeOK, FanOK, Placed, Exists, rows,
      ghosts
  <2>4. SlotsOK'
    BY <1>11 DEF RequestBreaks, TypeOK, Exists, SlotsOK, NoRun, rows
  <2> QED  BY <2>1, <2>2, <2>3, <2>4
<1>12. ASSUME NEW d \in Deliveries, Take(d) PROVE Goal
  <2>0. FreeSlot \in Slots
    BY <1>12 DEF Take
  <2>1. TypeOK'
    <3>1. [job[d] EXCEPT !.state = "active", !.by = FreeSlot] \in Jobs
      BY <2>0 DEF TypeOK, Jobs
    <3>3. job' \in [Deliveries -> Jobs]
      BY <1>12, <3>1 DEF Take, TypeOK
    <3>2. run' \in [Slots -> Runs]
      BY <1>12, <2>0 DEF Take, TypeOK, Runs
    <3> QED
      BY <1>12, <3>2, <3>3 DEF Take, TypeOK, rows, ghosts
  <2>2. FanOK'
    BY <1>12 DEF Take, Idle, TypeOK, FanOK, Exists, rows, ghosts
  <2>3. Placed'
    BY <1>12 DEF Take, Idle, TypeOK, FanOK, Placed, Exists, rows, ghosts
  <2>4. SlotsOK'
    BY <1>12 DEF Take, Placed, TypeOK, SlotsOK, rows
  <2> QED  BY <2>1, <2>2, <2>3, <2>4
<1>13. ASSUME NEW w \in Slots, Complete(w) PROVE Goal
  <2> DEFINE d == run[w].of
  <2>0. d \in Deliveries /\ run[w] \in Runs /\ row[d] # "none"
    BY <1>13 DEF Complete, TypeOK, SlotsOK
  <2>1. TypeOK'
    <3>1. run' \in [Slots -> Runs]
      BY <1>13 DEF Complete, Goto, Leaves, TypeOK, Runs
    <3>2. job' \in [Deliveries -> Jobs]
      BY <1>13, <2>0 DEF Complete, TypeOK, Jobs
    <3> QED
      BY <1>13, <2>0, <3>1, <3>2 DEF Complete, TypeOK, rows, ghosts
  <2>2. FanOK'
    BY <1>13, <2>0 DEF Complete, TypeOK, FanOK, Exists, rows, ghosts
  <2>3. Placed'
    BY <1>13, <2>0 DEF Complete, TypeOK, Placed, Exists, rows, ghosts
  <2>4. SlotsOK'
    <3>1. Leaves(w)
      BY <1>13 DEF Complete
    <3>2. run[w].pc # "idle" /\ \A x \in Deliveries : row[x] # "none" => row'[x] # "none"
      BY <1>13, <2>0 DEF Complete, TypeOK, Exists, rows
    <3> QED  BY <3>1, <3>2, SlotMoves
  <2> QED  BY <2>1, <2>2, <2>3, <2>4
<1>14. ASSUME NEW w \in Slots, Throw(w) PROVE Goal
  <2> DEFINE d == run[w].of
  <2>0. d \in Deliveries /\ run[w] \in Runs /\ row[d] # "none"
    BY <1>14 DEF Throw, TypeOK, SlotsOK
  <2>1. TypeOK'
    <3>1. run' \in [Slots -> Runs]
      BY <1>14 DEF Throw, Goto, Leaves, TypeOK, Runs
    <3>2. Holds(w) => job[d].made + 1 \in 0..Attempts
      BY <1>14, <2>0 DEF Holds, Placed, TypeOK, Jobs
    <3>3. job' \in [Deliveries -> Jobs]
      BY <1>14, <2>0, <3>2 DEF Throw, Job, TypeOK, Jobs
    <3>4. failing' \in [Deliveries -> Nat]
      BY <1>14, <2>0 DEF Throw, TypeOK
    <3> QED
      BY <1>14, <2>0, <3>1, <3>3, <3>4 DEF Throw, TypeOK, rows, ghosts
  <2>2. FanOK'
    BY <1>14, <2>0 DEF Throw, TypeOK, FanOK, Exists, rows, ghosts
  <2>3. Placed'
    <3>1. CASE ~ Holds(w)
      BY <1>14, <3>1 DEF Throw, Placed, Exists, rows
    <3>2. CASE Holds(w)
      <4>1. /\ job'[d].state = IF job[d].made + 1 >= Attempts THEN "failed" ELSE "waiting"
            /\ job'[d].made = job[d].made + 1
            /\ \A x \in Deliveries \ {d} : job'[x] = job[x]
        BY <1>14, <2>0, <3>2 DEF Throw, Job, TypeOK
      <4>2. failing'[d] >= failing[d] /\ \A x \in Deliveries \ {d} : failing'[x] = failing[x]
        BY <1>14, <2>0, <3>2 DEF Throw, TypeOK
      <4>3. failing[d] \in Nat /\ failing'[d] \in Nat /\ job[d].made \in Nat
        BY <2>0, <2>1 DEF TypeOK, Jobs
      <4> QED
        BY <1>14, <2>0, <4>1, <4>2, <4>3 DEF Throw, Placed, Exists, rows
    <3> QED  BY <3>1, <3>2
  <2>4. SlotsOK'
    <3>1. Leaves(w)
      BY <1>14 DEF Throw
    <3>2. run[w].pc # "idle" /\ \A x \in Deliveries : row[x] # "none" => row'[x] # "none"
      BY <1>14, <2>0 DEF Throw, TypeOK, Exists, rows
    <3> QED  BY <3>1, <3>2, SlotMoves
  <2> QED  BY <2>1, <2>2, <2>3, <2>4
<1>15. ASSUME NEW w \in Slots, Die(w) PROVE Goal
  <2> DEFINE d == run[w].of
  <2>0. d \in Deliveries /\ run[w] \in Runs /\ row[d] # "none"
    BY <1>15 DEF Die, TypeOK, SlotsOK
  <2>1. TypeOK'
    <3>1. run' \in [Slots -> Runs]
      BY <1>15 DEF Die, Goto, Leaves, TypeOK, Runs
    <3> QED
      BY <1>15, <2>0, <3>1 DEF Die, Fault, TypeOK, rows, ghosts
  <2>2. FanOK'
    BY <1>15, <2>0 DEF Die, Fault, TypeOK, FanOK, Exists, rows, ghosts
  <2>3. Placed'
    BY <1>15, <2>0 DEF Die, Fault, TypeOK, Placed, Exists, rows, ghosts
  <2>4. SlotsOK'
    <3>1. Leaves(w)
      BY <1>15 DEF Die
    <3>2. run[w].pc # "idle" /\ \A x \in Deliveries : row[x] # "none" => row'[x] # "none"
      BY <1>15, <2>0 DEF Die, TypeOK, SlotsOK, rows
    <3> QED  BY <3>1, <3>2, SlotMoves
  <2> QED  BY <2>1, <2>2, <2>3, <2>4
<1>16. ASSUME NEW d \in Deliveries, Stall(d) PROVE Goal
  <2>0. job' \in [Deliveries -> Jobs]
    <3>1. CASE job[d].stalls < MaxStalls
      <4>1. job[d].stalls + 1 \in 0..MaxStalls /\ job[d].made \in 0..Attempts
        BY <3>1 DEF TypeOK, Jobs
      <4>2. Job("waiting", NoSlot, job[d].made, job[d].stalls + 1) \in Jobs
        BY <4>1 DEF Job, Jobs
      <4> QED  BY <1>16, <3>1, <4>2 DEF Stall, TypeOK
    <3>2. CASE ~ (job[d].stalls < MaxStalls)
      <4>1. job' = [job EXCEPT ![d].state = "failed", ![d].by = NoSlot]
        BY <1>16, <3>2 DEF Stall
      <4>2. [job[d] EXCEPT !.state = "failed", !.by = NoSlot] \in Jobs
        BY DEF TypeOK, Jobs
      <4> QED  BY <4>1, <4>2 DEF TypeOK
    <3> QED
      BY <3>1, <3>2
  <2>1. TypeOK'
    BY <1>16, <2>0 DEF Stall, Fault, NoFault, TypeOK, rows, ghosts
  <2>2. FanOK'
    BY <1>16 DEF Stall, Job, TypeOK, FanOK, Exists, rows, ghosts
  <2>3. Placed'
    <3>1. /\ job'[d].state \in {"waiting", "failed"} /\ job'[d].made = job[d].made
          /\ \A x \in Deliveries \ {d} : job'[x] = job[x]
      BY <1>16 DEF Stall, Job, TypeOK, Jobs
    <3> QED
      BY <1>16, <3>1 DEF Stall, Placed, Exists, rows
  <2>4. SlotsOK'
    BY <1>16 DEF Stall, TypeOK, Exists, SlotsOK, NoRun, rows
  <2> QED  BY <2>1, <2>2, <2>3, <2>4
<1>17. ASSUME NEW w \in Slots, Check(w) PROVE Goal
  <2> DEFINE d == run[w].of
  <2>0. d \in Deliveries /\ run[w] \in Runs /\ row[d] # "none"
    BY <1>17 DEF Check, TypeOK, SlotsOK
  <2>1. TypeOK'
    <3>1. run' \in [Slots -> Runs]
      BY <1>17 DEF Check, Goto, Leaves, TypeOK, Runs
    <3> QED
      BY <1>17, <2>0, <3>1 DEF Check, TypeOK, rows, ghosts
  <2>2. FanOK'
    BY <1>17, <2>0 DEF Check, TypeOK, FanOK, Exists, rows, ghosts
  <2>3. Placed'
    BY <1>17, <2>0 DEF Check, TypeOK, Placed, Exists, rows, ghosts
  <2>4. SlotsOK'
    <3>1. \E next \in Steps \ {"idle"} : Goto(w, next)
      BY <1>17 DEF Check
    <3>2. run[w].pc # "idle" /\ \A x \in Deliveries : row[x] # "none" => row'[x] # "none"
      BY <1>17, <2>0 DEF Check, TypeOK, Exists, rows
    <3> QED  BY <3>1, <3>2, SlotMoves
  <2> QED  BY <2>1, <2>2, <2>3, <2>4
<1>18. ASSUME NEW w \in Slots, Cancel(w) PROVE Goal
  <2> DEFINE d == run[w].of
  <2>0. d \in Deliveries /\ run[w] \in Runs /\ row[d] # "none"
    BY <1>18 DEF Cancel, TypeOK, SlotsOK
  <2>1. TypeOK'
    <3>1. run' \in [Slots -> Runs]
      BY <1>18 DEF Cancel, Goto, Leaves, TypeOK, Runs
    <3>2. row' \in [Deliveries -> RowStates]
      BY <1>18, <2>0 DEF Cancel, SetStatus, TypeOK
    <3> QED
      BY <1>18, <2>0, <3>1, <3>2 DEF Cancel, SetStatus, Unlocked, TypeOK, rows, ghosts
  <2>2. FanOK'
    BY <1>18, <2>0 DEF Cancel, SetStatus, Unlocked, TypeOK, FanOK, Exists, rows, ghosts
  <2>3. Placed'
    BY <1>18, <2>0 DEF Cancel, SetStatus, Unlocked, TypeOK, Placed, Exists, rows, ghosts
  <2>4. SlotsOK'
    <3>1. \E next \in Steps \ {"idle"} : Goto(w, next)
      BY <1>18 DEF Cancel
    <3>2. run[w].pc # "idle" /\ \A x \in Deliveries : row[x] # "none" => row'[x] # "none"
      BY <1>18, <2>0 DEF Cancel, SetStatus, TypeOK, Exists, rows
    <3> QED  BY <3>1, <3>2, SlotMoves
  <2> QED  BY <2>1, <2>2, <2>3, <2>4
<1>19. ASSUME NEW w \in Slots, Mark(w) PROVE Goal
  <2> DEFINE d == run[w].of
  <2>0. d \in Deliveries /\ run[w] \in Runs /\ row[d] # "none"
    BY <1>19 DEF Mark, TypeOK, SlotsOK
  <2>1. TypeOK'
    <3>1. run' \in [Slots -> Runs]
      BY <1>19 DEF Mark, Goto, Leaves, TypeOK, Runs
    <3>2. row' \in [Deliveries -> RowStates]
      BY <1>19, <2>0 DEF Mark, SetDelivering, SetStatus, TypeOK
    <3> QED
      BY <1>19, <2>0, <3>1, <3>2 DEF Mark, SetDelivering, SetStatus, Unlocked, TypeOK, rows, ghosts
  <2>2. FanOK'
    BY <1>19, <2>0 DEF Mark, SetDelivering, SetStatus, Unlocked, TypeOK, FanOK, Exists, rows, ghosts
  <2>3. Placed'
    BY <1>19, <2>0 DEF Mark, SetDelivering, SetStatus, Unlocked, TypeOK, Placed, Exists, rows, ghosts
  <2>4. SlotsOK'
    <3>1. \E next \in Steps \ {"idle"} : Goto(w, next)
      BY <1>19 DEF Mark
    <3>2. run[w].pc # "idle" /\ \A x \in Deliveries : row[x] # "none" => row'[x] # "none"
      BY <1>19, <2>0 DEF Mark, SetDelivering, SetStatus, TypeOK, Exists, rows
    <3> QED  BY <3>1, <3>2, SlotMoves
  <2> QED  BY <2>1, <2>2, <2>3, <2>4
<1>20. ASSUME NEW w \in Slots, Refuse(w) PROVE Goal
  <2> DEFINE d == run[w].of
  <2>0. d \in Deliveries /\ run[w] \in Runs /\ row[d] # "none"
    BY <1>20 DEF Refuse, TypeOK, SlotsOK
  <2>1. TypeOK'
    <3>1. run' \in [Slots -> Runs]
      BY <1>20 DEF Refuse, Goto, Leaves, TypeOK, Runs
    <3>2. row' \in [Deliveries -> RowStates]
      BY <1>20, <2>0 DEF Refuse, SetStatus, TypeOK
    <3> QED
      BY <1>20, <2>0, <3>1, <3>2 DEF Refuse, SetStatus, Unlocked, TypeOK, rows, ghosts
  <2>2. FanOK'
    BY <1>20, <2>0 DEF Refuse, SetStatus, Unlocked, TypeOK, FanOK, Exists, rows, ghosts
  <2>3. Placed'
    BY <1>20, <2>0 DEF Refuse, SetStatus, Unlocked, TypeOK, Placed, Exists, rows, ghosts
  <2>4. SlotsOK'
    <3>1. \E next \in Steps \ {"idle"} : Goto(w, next)
      BY <1>20 DEF Refuse
    <3>2. run[w].pc # "idle" /\ \A x \in Deliveries : row[x] # "none" => row'[x] # "none"
      BY <1>20, <2>0 DEF Refuse, SetStatus, TypeOK, Exists, rows
    <3> QED  BY <3>1, <3>2, SlotMoves
  <2> QED  BY <2>1, <2>2, <2>3, <2>4
<1>21. ASSUME NEW w \in Slots, Post(w) PROVE Goal
  <2> DEFINE d == run[w].of
  <2>0. d \in Deliveries /\ run[w] \in Runs /\ row[d] # "none"
    BY <1>21 DEF Post, TypeOK, SlotsOK
  <2>1. TypeOK'
    <3>1. run' \in [Slots -> Runs]
      BY <1>21 DEF Post, Goto, Leaves, TypeOK, Runs
    <3>2. late' \in [Endpoints -> Nat]
      BY <1>21, <2>0 DEF Post, TypeOK, Placed
    <3> QED
      BY <1>21, <2>0, <3>1, <3>2 DEF Post, TypeOK, rows, ghosts
  <2>2. FanOK'
    BY <1>21, <2>0 DEF Post, TypeOK, FanOK, Exists, rows, ghosts
  <2>3. Placed'
    BY <1>21, <2>0 DEF Post, TypeOK, Placed, Exists, rows, ghosts
  <2>4. SlotsOK'
    <3>1. \E next \in Steps \ {"idle"} : Goto(w, next)
      BY <1>21 DEF Post
    <3>2. run[w].pc # "idle" /\ \A x \in Deliveries : row[x] # "none" => row'[x] # "none"
      BY <1>21, <2>0 DEF Post, TypeOK, Exists, rows
    <3> QED  BY <3>1, <3>2, SlotMoves
  <2> QED  BY <2>1, <2>2, <2>3, <2>4
<1>22. ASSUME NEW w \in Slots, Answer(w) PROVE Goal
  <2> DEFINE d == run[w].of
  <2>0. d \in Deliveries /\ run[w] \in Runs /\ row[d] # "none"
    BY <1>22 DEF Answer, TypeOK, SlotsOK
  <2>1. TypeOK'
    <3>1. run' \in [Slots -> Runs]
      BY <1>22 DEF Answer, Goto, Leaves, TypeOK, Runs
    <3>2. row' \in [Deliveries -> RowStates]
      BY <1>22, <2>0 DEF Answer, SetDelivering, SetStatus, TypeOK
    <3> QED
      BY <1>22, <2>0, <3>1, <3>2 DEF Answer, SetDelivering, SetStatus, Unlocked, TypeOK, rows, ghosts
  <2>2. FanOK'
    BY <1>22, <2>0 DEF Answer, SetDelivering, SetStatus, Unlocked, TypeOK, FanOK, Exists, rows, ghosts
  <2>3. Placed'
    BY <1>22, <2>0 DEF Answer, SetDelivering, SetStatus, Unlocked, TypeOK, Placed, Exists, rows, ghosts
  <2>4. SlotsOK'
    <3>1. \E next \in Steps \ {"idle"} : Goto(w, next)
      BY <1>22 DEF Answer
    <3>2. run[w].pc # "idle" /\ \A x \in Deliveries : row[x] # "none" => row'[x] # "none"
      BY <1>22, <2>0 DEF Answer, SetDelivering, SetStatus, TypeOK, Exists, rows
    <3> QED  BY <3>1, <3>2, SlotMoves
  <2> QED  BY <2>1, <2>2, <2>3, <2>4
<1>23. ASSUME NEW w \in Slots, AttemptFails(w) PROVE Goal
  <2> DEFINE d == run[w].of
  <2>0. d \in Deliveries /\ run[w] \in Runs /\ row[d] # "none"
    BY <1>23 DEF AttemptFails, TypeOK, SlotsOK
  <2>1. TypeOK'
    <3>1. run' \in [Slots -> Runs]
      BY <1>23 DEF AttemptFails, Goto, Leaves, TypeOK, Runs
    <3> QED
      BY <1>23, <2>0, <3>1 DEF AttemptFails, Fault, TypeOK, rows, ghosts
  <2>2. FanOK'
    BY <1>23, <2>0 DEF AttemptFails, Fault, TypeOK, FanOK, Exists, rows, ghosts
  <2>3. Placed'
    BY <1>23, <2>0 DEF AttemptFails, Fault, TypeOK, Placed, Exists, rows, ghosts
  <2>4. SlotsOK'
    <3>1. \E next \in Steps \ {"idle"} : Goto(w, next)
      BY <1>23 DEF AttemptFails
    <3>2. run[w].pc # "idle" /\ \A x \in Deliveries : row[x] # "none" => row'[x] # "none"
      BY <1>23, <2>0 DEF AttemptFails, TypeOK, Exists, rows
    <3> QED  BY <3>1, <3>2, SlotMoves
  <2> QED  BY <2>1, <2>2, <2>3, <2>4
<1>24. ASSUME NEW d \in Deliveries, FailureCounts(d) PROVE Goal
  <2>1. TypeOK'
    BY <1>24 DEF FailureCounts, Unlocked, TypeOK, Exists, rows, ghosts
  <2>2. FanOK'
    BY <1>24 DEF FailureCounts, Unlocked, TypeOK, FanOK, Exists, rows,
      ghosts
  <2>3. Placed'
    BY <1>24 DEF FailureCounts, Unlocked, TypeOK, FanOK, Placed, Exists,
      rows, ghosts
  <2>4. SlotsOK'
    BY <1>24 DEF FailureCounts, TypeOK, Exists, SlotsOK, NoRun, rows
  <2> QED  BY <2>1, <2>2, <2>3, <2>4
<1>25. ASSUME NEW d \in Deliveries, FailureCommits(d) PROVE Goal
  <2>1. TypeOK'
    <3>1. late' \in [Endpoints -> Nat] /\ endpoint' \in [Endpoints -> {"ACTIVE", "DISABLED", "deleted"}]
      BY <1>25 DEF FailureCommits, Turn, TypeOK
    <3>2. failing' \in [Deliveries -> Nat]
      BY <1>25 DEF FailureCommits, Placed, TypeOK
    <3>3. row' \in [Deliveries -> RowStates]
      BY <1>25 DEF FailureCommits, TypeOK
    <3>4. auto' \subseteq Endpoints
      BY <1>25 DEF FailureCommits, Placed, Exists, TypeOK
    <3> QED
      BY <1>25, <3>1, <3>2, <3>3, <3>4 DEF FailureCommits, Turn, TypeOK, rows, ghosts
  <2>2. FanOK'
    BY <1>25 DEF FailureCommits, Turn, TypeOK, FanOK, Exists, rows, ghosts
  <2>3. Placed'
    BY <1>25 DEF FailureCommits, Turn, TypeOK, FanOK, Placed, Exists, rows,
      ghosts
  <2>4. SlotsOK'
    BY <1>25 DEF FailureCommits, TypeOK, Exists, SlotsOK, NoRun, rows
  <2> QED  BY <2>1, <2>2, <2>3, <2>4
<1>26. ASSUME NEW d \in Deliveries, FailureFindsNothing(d) PROVE Goal
  <2>1. TypeOK'
    BY <1>26 DEF FailureFindsNothing, TypeOK, Exists, rows, ghosts
  <2>2. FanOK'
    BY <1>26 DEF FailureFindsNothing, TypeOK, FanOK, Exists, rows, ghosts
  <2>3. Placed'
    BY <1>26 DEF FailureFindsNothing, TypeOK, FanOK, Placed, Exists, rows,
      ghosts
  <2>4. SlotsOK'
    BY <1>26 DEF FailureFindsNothing, TypeOK, Exists, SlotsOK, NoRun, rows
  <2> QED  BY <2>1, <2>2, <2>3, <2>4
<1>27. ASSUME NEW d \in Deliveries, FailureLost(d) PROVE Goal
  <2>1. TypeOK'
    <3>1. failing' \in [Deliveries -> Nat]
      BY <1>27 DEF FailureLost, TypeOK
    <3>2. faults' \in 0..MaxFaults
      BY <1>27 DEF FailureLost, Fault, TypeOK
    <3> QED
      BY <1>27, <3>1, <3>2 DEF FailureLost, Fault, TypeOK, rows, ghosts
  <2>2. FanOK'
    BY <1>27 DEF FailureLost, Fault, TypeOK, FanOK, Exists, rows, ghosts
  <2>3. Placed'
    BY <1>27 DEF FailureLost, Fault, TypeOK, FanOK, Placed, Exists, rows,
      ghosts
  <2>4. SlotsOK'
    BY <1>27 DEF FailureLost, TypeOK, Exists, SlotsOK, NoRun, rows
  <2> QED  BY <2>1, <2>2, <2>3, <2>4
<1>28. CASE UNCHANGED vars
  BY <1>28 DEF vars, rows, ghosts, TypeOK, Exists, FanOK, Placed, SlotsOK
<1> QED
  BY <1>1, <1>2, <1>3, <1>4, <1>5, <1>6, <1>7, <1>8, <1>9, <1>10, <1>11,
     <1>12, <1>13, <1>14, <1>15, <1>16, <1>17, <1>18, <1>19, <1>20, <1>21,
     <1>22, <1>23, <1>24, <1>25, <1>26, <1>27, <1>28 DEF Next, FanStep,
     AdminStep, RequestEnds, AttemptStep, FailureStep, FaultStep

(* What a delivery that nobody has retried and no fault has hit looks      *)
(* like: its job is active exactly when one slot, the lock's holder, is at *)
(* work on it; an accepted one is not sent again and has no onFailed to    *)
(* come.                                                                   *)
Undisturbed(d) ==
  /\ job[d].state = "active" => job[d].by \in Slots /\ run[job[d].by].of = d
                                /\ run[job[d].by] # NoRun
  /\ \A w \in Slots :
       run[w] # NoRun /\ run[w].of = d =>
         /\ job[d].state = "active" /\ job[d].by = w
         /\ run[w].pc \in {"post", "ok", "error"} => row[d] \notin {"FAILED", "CANCELLED"}
  /\ failing[d] > 0 => job[d].state = "failed"
  /\ d \in accepted =>
       /\ row[d] \notin {"FAILED", "CANCELLED"}
       /\ \/ job[d].state = "active" /\ run[job[d].by].pc \in {"ok", "done"}
          \/ job[d].state = "completed"

HonestInv ==
  /\ \A d \in Deliveries : row[d] = "DELIVERED" => d \in accepted
  /\ \A w \in Slots : run[w].pc = "ok" => run[w].of \in accepted
  /\ \A d \in Deliveries \ rerun : Undisturbed(d)

(* An attempt disturbs no delivery but its own.                            *)
LEMMA OthersUndisturbed ==
  ASSUME Sound, NEW w \in Slots, run[w].pc # "idle", NEW next \in Steps \ {"idle"},
         Leaves(w) \/ Goto(w, next),
         NEW x \in Deliveries \ {run[w].of}, Undisturbed(x),
         job'[x] = job[x], row'[x] = row[x], failing'[x] = failing[x],
         x \in accepted' => x \in accepted
  PROVE  Undisturbed(x)'
<1>1. \A v \in Slots \ {w} : run'[v] = run[v]
  BY DEF Sound, TypeOK, Leaves, Goto
<1>2. run'[w] = NoRun \/ run'[w].of # x
  BY DEF Sound, TypeOK, Leaves, Goto, Runs
<1>3. job[x].state = "active" => job[x].by \in Slots \ {w}
  BY DEF Undisturbed
<1> QED
  BY <1>1, <1>2, <1>3 DEF Undisturbed

LEMMA HonestStep == Sound /\ HonestInv /\ [Next]_vars => HonestInv'
<1> SUFFICES ASSUME Sound, HonestInv, [Next]_vars PROVE HonestInv'
  OBVIOUS
<1> USE FreshFact, StatusFacts, StepFacts, JobFacts, RunFacts DEF Sound
<1>1. CASE FanLists
  BY <1>1 DEF FanLists, Orders, HonestInv, Undisturbed, TypeOK, Placed, FanOK, Exists,
    rows, ghosts
<1>2. CASE FanCreates
  BY <1>2 DEF FanCreates, Unused, HonestInv, Undisturbed, TypeOK, Placed, FanOK, Exists,
    rows, ghosts
<1>3. CASE FanEnqueues
  BY <1>3 DEF FanEnqueues, Add, HonestInv, Undisturbed, TypeOK, Placed, FanOK, Exists,
    rows, ghosts
<1>4. CASE FanFails
  BY <1>4 DEF FanFails, Fault, NoFault, HonestInv, Undisturbed, TypeOK, Placed, FanOK,
    Exists, rows, ghosts
<1>5. ASSUME NEW e \in Endpoints, UpdateEndpoint(e) PROVE HonestInv'
  BY <1>5 DEF UpdateEndpoint, Request, Turn, HonestInv, Undisturbed, TypeOK, Placed,
    FanOK, Exists, rows, ghosts
<1>6. ASSUME NEW e \in Endpoints, DeleteEndpoint(e) PROVE HonestInv'
  BY <1>6 DEF DeleteEndpoint, Request, Of, Unlocked, HonestInv, Undisturbed, TypeOK,
    Placed, FanOK, Exists, rows, ghosts
<1>7. ASSUME NEW e \in Endpoints, SendTest(e) PROVE HonestInv'
  BY <1>7 DEF SendTest, Request, Unused, Add, Fault, NoFault, HonestInv, Undisturbed,
    TypeOK, Placed, FanOK, Exists, rows, ghosts
<1>8. ASSUME NEW d \in Deliveries, TestCommits(d) PROVE HonestInv'
  BY <1>8 DEF TestCommits, HonestInv, Undisturbed, TypeOK, Placed, FanOK, Exists, rows,
    ghosts
<1>9. ASSUME NEW d \in Deliveries, Retry(d) PROVE HonestInv'
  BY <1>9 DEF Retry, Request, Unlocked, Fault, NoFault, HonestInv, Undisturbed, TypeOK,
    Placed, FanOK, Exists, rows, ghosts
<1>10. ASSUME NEW d \in Deliveries, RetryCommits(d) PROVE HonestInv'
  BY <1>10 DEF RetryCommits, HonestInv, Undisturbed, TypeOK, Placed, FanOK, Exists, rows,
    ghosts
<1>11. ASSUME NEW d \in Deliveries, RequestBreaks(d) PROVE HonestInv'
  BY <1>11 DEF RequestBreaks, Fault, HonestInv, Undisturbed, TypeOK, Placed, FanOK,
    Exists, rows, ghosts
<1>12. ASSUME NEW d \in Deliveries, Take(d) PROVE HonestInv'
  BY <1>12 DEF Take, Idle, HonestInv, Undisturbed, TypeOK, Placed, FanOK, Exists, rows,
    ghosts
<1>13. ASSUME NEW w \in Slots, Complete(w) PROVE HonestInv'
  <2>0. PICK d \in Deliveries : d = run[w].of
    BY <1>13 DEF Complete, TypeOK, SlotsOK
  <2>1. d = run[w].of /\ run[w] \in Runs /\ run[w] # NoRun /\ run[w].pc # "idle"
    BY <2>0, <1>13 DEF Complete, TypeOK, SlotsOK
  <2>2. Leaves(w) /\ "done" \in Steps \ {"idle"}
    BY <1>13 DEF Complete
  <2>3. /\ run'[w] = NoRun
        /\ \A v \in Slots \ {w} : run'[v] = run[v]
    BY <2>1, <2>2 DEF Leaves, Goto, TypeOK, Runs
  <2>4. ASSUME NEW x \in Deliveries \ rerun', x # d PROVE Undisturbed(x)'
    <3>1. /\ job'[x] = job[x] /\ row'[x] = row[x] /\ failing'[x] = failing[x]
          /\ x \in accepted' => x \in accepted
          /\ x \notin rerun
      BY <1>13, <2>1, <2>4 DEF Complete, Holds, TypeOK, rows, ghosts
    <3> QED  BY <2>1, <2>2, <2>4, <3>1, OthersUndisturbed DEF HonestInv
  <2>5. ASSUME d \notin rerun' PROVE Undisturbed(d)'
    BY <1>13, <2>1, <2>3, <2>5 DEF Complete, Holds, Goto, HonestInv, Undisturbed, TypeOK, Exists, Runs, rows, ghosts
  <2>6. \A x \in Deliveries : row'[x] = "DELIVERED" => x \in accepted'
    BY <1>13, <2>1 DEF Complete, Holds, HonestInv, TypeOK, rows, ghosts
  <2>7. \A v \in Slots : run'[v].pc = "ok" => run'[v].of \in accepted'
    BY <1>13, <2>1, <2>3 DEF Complete, Holds, Goto, HonestInv, TypeOK, Runs, rows, ghosts
  <2> QED  BY <2>4, <2>5, <2>6, <2>7 DEF HonestInv
<1>14. ASSUME NEW w \in Slots, Throw(w) PROVE HonestInv'
  <2>0. PICK d \in Deliveries : d = run[w].of
    BY <1>14 DEF Throw, TypeOK, SlotsOK
  <2>1. d = run[w].of /\ run[w] \in Runs /\ run[w] # NoRun /\ run[w].pc # "idle"
    BY <2>0, <1>14 DEF Throw, TypeOK, SlotsOK
  <2>2. Leaves(w) /\ "done" \in Steps \ {"idle"}
    BY <1>14 DEF Throw
  <2>3. /\ run'[w] = NoRun
        /\ \A v \in Slots \ {w} : run'[v] = run[v]
    BY <2>1, <2>2 DEF Leaves, Goto, TypeOK, Runs
  <2>4. ASSUME NEW x \in Deliveries \ rerun', x # d PROVE Undisturbed(x)'
    <3>1. /\ job'[x] = job[x] /\ row'[x] = row[x] /\ failing'[x] = failing[x]
          /\ x \in accepted' => x \in accepted
          /\ x \notin rerun
      BY <1>14, <2>1, <2>4 DEF Throw, Holds, Job, TypeOK, rows, ghosts
    <3> QED  BY <2>1, <2>2, <2>4, <3>1, OthersUndisturbed DEF HonestInv
  <2>5. ASSUME d \notin rerun' PROVE Undisturbed(d)'
    BY <1>14, <2>1, <2>3, <2>5 DEF Throw, Holds, Job, Goto, HonestInv, Undisturbed, TypeOK, Exists, Runs, rows, ghosts
  <2>6. \A x \in Deliveries : row'[x] = "DELIVERED" => x \in accepted'
    BY <1>14, <2>1 DEF Throw, Holds, Job, HonestInv, TypeOK, rows, ghosts
  <2>7. \A v \in Slots : run'[v].pc = "ok" => run'[v].of \in accepted'
    BY <1>14, <2>1, <2>3 DEF Throw, Holds, Job, Goto, HonestInv, TypeOK, Runs, rows, ghosts
  <2> QED  BY <2>4, <2>5, <2>6, <2>7 DEF HonestInv
<1>15. ASSUME NEW w \in Slots, Die(w) PROVE HonestInv'
  <2>0. PICK d \in Deliveries : d = run[w].of
    BY <1>15 DEF Die, TypeOK, SlotsOK
  <2>1. d = run[w].of /\ run[w] \in Runs /\ run[w] # NoRun /\ run[w].pc # "idle"
    BY <2>0, <1>15 DEF Die, TypeOK, SlotsOK
  <2>2. Leaves(w) /\ "done" \in Steps \ {"idle"}
    BY <1>15 DEF Die
  <2>3. /\ run'[w] = NoRun
        /\ \A v \in Slots \ {w} : run'[v] = run[v]
    BY <2>1, <2>2 DEF Leaves, Goto, TypeOK, Runs
  <2>4. ASSUME NEW x \in Deliveries \ rerun', x # d PROVE Undisturbed(x)'
    <3>1. /\ job'[x] = job[x] /\ row'[x] = row[x] /\ failing'[x] = failing[x]
          /\ x \in accepted' => x \in accepted
          /\ x \notin rerun
      BY <1>15, <2>1, <2>4 DEF Die, Fault, TypeOK, rows, ghosts
    <3> QED  BY <2>1, <2>2, <2>4, <3>1, OthersUndisturbed DEF HonestInv
  <2>5. ASSUME d \notin rerun' PROVE Undisturbed(d)'
    BY <1>15, <2>1, <2>3, <2>5 DEF Die, Fault, Goto, HonestInv, Undisturbed, TypeOK, Exists, Runs, rows, ghosts
  <2>6. \A x \in Deliveries : row'[x] = "DELIVERED" => x \in accepted'
    BY <1>15, <2>1 DEF Die, Fault, HonestInv, TypeOK, rows, ghosts
  <2>7. \A v \in Slots : run'[v].pc = "ok" => run'[v].of \in accepted'
    BY <1>15, <2>1, <2>3 DEF Die, Fault, Goto, HonestInv, TypeOK, Runs, rows, ghosts
  <2> QED  BY <2>4, <2>5, <2>6, <2>7 DEF HonestInv
<1>16. ASSUME NEW d \in Deliveries, Stall(d) PROVE HonestInv'
  <2>1. /\ rerun' = rerun \cup {d} /\ UNCHANGED <<row, run, failing, accepted>>
        /\ \A x \in Deliveries \ {d} : job'[x] = job[x]
    BY <1>16 DEF Stall, TypeOK, rows
  <2> QED  BY <2>1 DEF HonestInv, Undisturbed
<1>17. ASSUME NEW w \in Slots, Check(w) PROVE HonestInv'
  <2>0. PICK d \in Deliveries : d = run[w].of
    BY <1>17 DEF Check, TypeOK, SlotsOK
  <2>1. d = run[w].of /\ run[w] \in Runs /\ run[w] # NoRun /\ run[w].pc # "idle"
    BY <2>0, <1>17 DEF Check, TypeOK, SlotsOK
  <2>2. \E next \in Steps \ {"idle"} : Goto(w, next)
    BY <1>17 DEF Check
  <2>3. /\ run'[w].of = d /\ run'[w] # NoRun
        /\ \A v \in Slots \ {w} : run'[v] = run[v]
    BY <2>1, <2>2 DEF Leaves, Goto, TypeOK, Runs
  <2>4. ASSUME NEW x \in Deliveries \ rerun', x # d PROVE Undisturbed(x)'
    <3>1. /\ job'[x] = job[x] /\ row'[x] = row[x] /\ failing'[x] = failing[x]
          /\ x \in accepted' => x \in accepted
          /\ x \notin rerun
      BY <1>17, <2>1, <2>4 DEF Check, TypeOK, rows, ghosts
    <3> QED  BY <2>1, <2>2, <2>4, <3>1, OthersUndisturbed DEF HonestInv
  <2>5. ASSUME d \notin rerun' PROVE Undisturbed(d)'
    BY <1>17, <2>1, <2>3, <2>5 DEF Check, Goto, HonestInv, Undisturbed, TypeOK, Exists, Runs, rows, ghosts
  <2>6. \A x \in Deliveries : row'[x] = "DELIVERED" => x \in accepted'
    BY <1>17, <2>1 DEF Check, HonestInv, TypeOK, rows, ghosts
  <2>7. \A v \in Slots : run'[v].pc = "ok" => run'[v].of \in accepted'
    BY <1>17, <2>1, <2>3 DEF Check, Goto, HonestInv, TypeOK, Runs, rows, ghosts
  <2> QED  BY <2>4, <2>5, <2>6, <2>7 DEF HonestInv
<1>18. ASSUME NEW w \in Slots, Cancel(w) PROVE HonestInv'
  <2>0. PICK d \in Deliveries : d = run[w].of
    BY <1>18 DEF Cancel, TypeOK, SlotsOK
  <2>1. d = run[w].of /\ run[w] \in Runs /\ run[w] # NoRun /\ run[w].pc # "idle"
    BY <2>0, <1>18 DEF Cancel, TypeOK, SlotsOK
  <2>2. \E next \in Steps \ {"idle"} : Goto(w, next)
    BY <1>18 DEF Cancel
  <2>3. /\ run'[w].of = d /\ run'[w] # NoRun
        /\ \A v \in Slots \ {w} : run'[v] = run[v]
    BY <2>1, <2>2 DEF Leaves, Goto, TypeOK, Runs
  <2>4. ASSUME NEW x \in Deliveries \ rerun', x # d PROVE Undisturbed(x)'
    <3>1. /\ job'[x] = job[x] /\ row'[x] = row[x] /\ failing'[x] = failing[x]
          /\ x \in accepted' => x \in accepted
          /\ x \notin rerun
      BY <1>18, <2>1, <2>4 DEF Cancel, SetStatus, TypeOK, rows, ghosts
    <3> QED  BY <2>1, <2>2, <2>4, <3>1, OthersUndisturbed DEF HonestInv
  <2>5. ASSUME d \notin rerun' PROVE Undisturbed(d)'
    BY <1>18, <2>1, <2>3, <2>5 DEF Cancel, SetStatus, Goto, HonestInv, Undisturbed, TypeOK, Exists, Runs, rows, ghosts
  <2>6. \A x \in Deliveries : row'[x] = "DELIVERED" => x \in accepted'
    BY <1>18, <2>1 DEF Cancel, SetStatus, HonestInv, TypeOK, rows, ghosts
  <2>7. \A v \in Slots : run'[v].pc = "ok" => run'[v].of \in accepted'
    BY <1>18, <2>1, <2>3 DEF Cancel, SetStatus, Goto, HonestInv, TypeOK, Runs, rows, ghosts
  <2> QED  BY <2>4, <2>5, <2>6, <2>7 DEF HonestInv
<1>19. ASSUME NEW w \in Slots, Mark(w) PROVE HonestInv'
  <2>0. PICK d \in Deliveries : d = run[w].of
    BY <1>19 DEF Mark, TypeOK, SlotsOK
  <2>1. d = run[w].of /\ run[w] \in Runs /\ run[w] # NoRun /\ run[w].pc # "idle"
    BY <2>0, <1>19 DEF Mark, TypeOK, SlotsOK
  <2>2. \E next \in Steps \ {"idle"} : Goto(w, next)
    BY <1>19 DEF Mark
  <2>3. /\ run'[w].of = d /\ run'[w] # NoRun
        /\ \A v \in Slots \ {w} : run'[v] = run[v]
    BY <2>1, <2>2 DEF Leaves, Goto, TypeOK, Runs
  <2>4. ASSUME NEW x \in Deliveries \ rerun', x # d PROVE Undisturbed(x)'
    <3>1. /\ job'[x] = job[x] /\ row'[x] = row[x] /\ failing'[x] = failing[x]
          /\ x \in accepted' => x \in accepted
          /\ x \notin rerun
      BY <1>19, <2>1, <2>4 DEF Mark, SetDelivering, SetStatus, TypeOK, rows, ghosts
    <3> QED  BY <2>1, <2>2, <2>4, <3>1, OthersUndisturbed DEF HonestInv
  <2>5. ASSUME d \notin rerun' PROVE Undisturbed(d)'
    BY <1>19, <2>1, <2>3, <2>5 DEF Mark, SetDelivering, SetStatus, Goto, HonestInv, Undisturbed, TypeOK, Exists, Runs, rows, ghosts
  <2>6. \A x \in Deliveries : row'[x] = "DELIVERED" => x \in accepted'
    BY <1>19, <2>1 DEF Mark, SetDelivering, SetStatus, HonestInv, TypeOK, rows, ghosts
  <2>7. \A v \in Slots : run'[v].pc = "ok" => run'[v].of \in accepted'
    BY <1>19, <2>1, <2>3 DEF Mark, SetDelivering, SetStatus, Goto, HonestInv, TypeOK, Runs, rows, ghosts
  <2> QED  BY <2>4, <2>5, <2>6, <2>7 DEF HonestInv
<1>20. ASSUME NEW w \in Slots, Refuse(w) PROVE HonestInv'
  <2>0. PICK d \in Deliveries : d = run[w].of
    BY <1>20 DEF Refuse, TypeOK, SlotsOK
  <2>1. d = run[w].of /\ run[w] \in Runs /\ run[w] # NoRun /\ run[w].pc # "idle"
    BY <2>0, <1>20 DEF Refuse, TypeOK, SlotsOK
  <2>2. \E next \in Steps \ {"idle"} : Goto(w, next)
    BY <1>20 DEF Refuse
  <2>3. /\ run'[w].of = d /\ run'[w] # NoRun
        /\ \A v \in Slots \ {w} : run'[v] = run[v]
    BY <2>1, <2>2 DEF Leaves, Goto, TypeOK, Runs
  <2>4. ASSUME NEW x \in Deliveries \ rerun', x # d PROVE Undisturbed(x)'
    <3>1. /\ job'[x] = job[x] /\ row'[x] = row[x] /\ failing'[x] = failing[x]
          /\ x \in accepted' => x \in accepted
          /\ x \notin rerun
      BY <1>20, <2>1, <2>4 DEF Refuse, SetStatus, TypeOK, rows, ghosts
    <3> QED  BY <2>1, <2>2, <2>4, <3>1, OthersUndisturbed DEF HonestInv
  <2>5. ASSUME d \notin rerun' PROVE Undisturbed(d)'
    BY <1>20, <2>1, <2>3, <2>5 DEF Refuse, SetStatus, Goto, HonestInv, Undisturbed, TypeOK, Exists, Runs, rows, ghosts
  <2>6. \A x \in Deliveries : row'[x] = "DELIVERED" => x \in accepted'
    BY <1>20, <2>1 DEF Refuse, SetStatus, HonestInv, TypeOK, rows, ghosts
  <2>7. \A v \in Slots : run'[v].pc = "ok" => run'[v].of \in accepted'
    BY <1>20, <2>1, <2>3 DEF Refuse, SetStatus, Goto, HonestInv, TypeOK, Runs, rows, ghosts
  <2> QED  BY <2>4, <2>5, <2>6, <2>7 DEF HonestInv
<1>21. ASSUME NEW w \in Slots, Post(w) PROVE HonestInv'
  <2>0. PICK d \in Deliveries : d = run[w].of
    BY <1>21 DEF Post, TypeOK, SlotsOK
  <2>1. d = run[w].of /\ run[w] \in Runs /\ run[w] # NoRun /\ run[w].pc # "idle"
    BY <2>0, <1>21 DEF Post, TypeOK, SlotsOK
  <2>2. \E next \in Steps \ {"idle"} : Goto(w, next)
    BY <1>21 DEF Post
  <2>3. /\ run'[w].of = d /\ run'[w] # NoRun
        /\ \A v \in Slots \ {w} : run'[v] = run[v]
    BY <2>1, <2>2 DEF Leaves, Goto, TypeOK, Runs
  <2>4. ASSUME NEW x \in Deliveries \ rerun', x # d PROVE Undisturbed(x)'
    <3>1. /\ job'[x] = job[x] /\ row'[x] = row[x] /\ failing'[x] = failing[x]
          /\ x \in accepted' => x \in accepted
          /\ x \notin rerun
      BY <1>21, <2>1, <2>4 DEF Post, TypeOK, rows, ghosts
    <3> QED  BY <2>1, <2>2, <2>4, <3>1, OthersUndisturbed DEF HonestInv
  <2>5. ASSUME d \notin rerun' PROVE Undisturbed(d)'
    BY <1>21, <2>1, <2>3, <2>5 DEF Post, Goto, HonestInv, Undisturbed, TypeOK, Exists, Runs, rows, ghosts
  <2>6. \A x \in Deliveries : row'[x] = "DELIVERED" => x \in accepted'
    BY <1>21, <2>1 DEF Post, HonestInv, TypeOK, rows, ghosts
  <2>7. \A v \in Slots : run'[v].pc = "ok" => run'[v].of \in accepted'
    BY <1>21, <2>1, <2>3 DEF Post, Goto, HonestInv, TypeOK, Runs, rows, ghosts
  <2> QED  BY <2>4, <2>5, <2>6, <2>7 DEF HonestInv
<1>22. ASSUME NEW w \in Slots, Answer(w) PROVE HonestInv'
  <2>0. PICK d \in Deliveries : d = run[w].of
    BY <1>22 DEF Answer, TypeOK, SlotsOK
  <2>1. d = run[w].of /\ run[w] \in Runs /\ run[w] # NoRun /\ run[w].pc # "idle"
    BY <2>0, <1>22 DEF Answer, TypeOK, SlotsOK
  <2>2. \E next \in Steps \ {"idle"} : Goto(w, next)
    BY <1>22 DEF Answer
  <2>3. /\ run'[w].of = d /\ run'[w] # NoRun
        /\ \A v \in Slots \ {w} : run'[v] = run[v]
    BY <2>1, <2>2 DEF Leaves, Goto, TypeOK, Runs
  <2>4. ASSUME NEW x \in Deliveries \ rerun', x # d PROVE Undisturbed(x)'
    <3>1. /\ job'[x] = job[x] /\ row'[x] = row[x] /\ failing'[x] = failing[x]
          /\ x \in accepted' => x \in accepted
          /\ x \notin rerun
      BY <1>22, <2>1, <2>4 DEF Answer, SetDelivering, SetStatus, TypeOK, rows, ghosts
    <3> QED  BY <2>1, <2>2, <2>4, <3>1, OthersUndisturbed DEF HonestInv
  <2>5. ASSUME d \notin rerun' PROVE Undisturbed(d)'
    BY <1>22, <2>1, <2>3, <2>5 DEF Answer, SetDelivering, SetStatus, Goto, HonestInv, Undisturbed, TypeOK, Exists, Runs, rows, ghosts
  <2>6. \A x \in Deliveries : row'[x] = "DELIVERED" => x \in accepted'
    BY <1>22, <2>1 DEF Answer, SetDelivering, SetStatus, HonestInv, TypeOK, rows, ghosts
  <2>7. \A v \in Slots : run'[v].pc = "ok" => run'[v].of \in accepted'
    BY <1>22, <2>1, <2>3 DEF Answer, SetDelivering, SetStatus, Goto, HonestInv, TypeOK, Runs, rows, ghosts
  <2> QED  BY <2>4, <2>5, <2>6, <2>7 DEF HonestInv
<1>23. ASSUME NEW w \in Slots, AttemptFails(w) PROVE HonestInv'
  <2>0. PICK d \in Deliveries : d = run[w].of
    BY <1>23 DEF AttemptFails, TypeOK, SlotsOK
  <2>1. d = run[w].of /\ run[w] \in Runs /\ run[w] # NoRun /\ run[w].pc # "idle"
    BY <2>0, <1>23 DEF AttemptFails, TypeOK, SlotsOK
  <2>2. \E next \in Steps \ {"idle"} : Goto(w, next)
    BY <1>23 DEF AttemptFails
  <2>3. /\ run'[w].of = d /\ run'[w] # NoRun
        /\ \A v \in Slots \ {w} : run'[v] = run[v]
    BY <2>1, <2>2 DEF Leaves, Goto, TypeOK, Runs
  <2>4. ASSUME NEW x \in Deliveries \ rerun', x # d PROVE Undisturbed(x)'
    <3>1. /\ job'[x] = job[x] /\ row'[x] = row[x] /\ failing'[x] = failing[x]
          /\ x \in accepted' => x \in accepted
          /\ x \notin rerun
      BY <1>23, <2>1, <2>4 DEF AttemptFails, Fault, TypeOK, rows, ghosts
    <3> QED  BY <2>1, <2>2, <2>4, <3>1, OthersUndisturbed DEF HonestInv
  <2>5. ASSUME d \notin rerun' PROVE Undisturbed(d)'
    BY <1>23, <2>1, <2>3, <2>5 DEF AttemptFails, Fault, Goto, HonestInv, Undisturbed, TypeOK, Exists, Runs, rows, ghosts
  <2>6. \A x \in Deliveries : row'[x] = "DELIVERED" => x \in accepted'
    BY <1>23, <2>1 DEF AttemptFails, Fault, HonestInv, TypeOK, rows, ghosts
  <2>7. \A v \in Slots : run'[v].pc = "ok" => run'[v].of \in accepted'
    BY <1>23, <2>1, <2>3 DEF AttemptFails, Fault, Goto, HonestInv, TypeOK, Runs, rows, ghosts
  <2> QED  BY <2>4, <2>5, <2>6, <2>7 DEF HonestInv
<1>24. ASSUME NEW d \in Deliveries, FailureCounts(d) PROVE HonestInv'
  BY <1>24 DEF FailureCounts, Unlocked, HonestInv, Undisturbed, TypeOK, Placed, FanOK,
    Exists, rows, ghosts
<1>25. ASSUME NEW d \in Deliveries, FailureCommits(d) PROVE HonestInv'
  BY <1>25 DEF FailureCommits, Turn, HonestInv, Undisturbed, TypeOK, Placed, FanOK,
    Exists, rows, ghosts
<1>26. ASSUME NEW d \in Deliveries, FailureFindsNothing(d) PROVE HonestInv'
  BY <1>26 DEF FailureFindsNothing, HonestInv, Undisturbed, TypeOK, Placed, FanOK,
    Exists, rows, ghosts
<1>27. ASSUME NEW d \in Deliveries, FailureLost(d) PROVE HonestInv'
  BY <1>27 DEF FailureLost, Fault, HonestInv, Undisturbed, TypeOK, Placed, FanOK, Exists,
    rows, ghosts
<1>28. CASE UNCHANGED vars
  BY <1>28 DEF vars, rows, ghosts, HonestInv, Undisturbed
<1> QED
  BY <1>1, <1>2, <1>3, <1>4, <1>5, <1>6, <1>7, <1>8, <1>9, <1>10, <1>11,
     <1>12, <1>13, <1>14, <1>15, <1>16, <1>17, <1>18, <1>19, <1>20, <1>21,
     <1>22, <1>23, <1>24, <1>25, <1>26, <1>27, <1>28 DEF Next, FanStep,
     AdminStep, RequestEnds, AttemptStep, FailureStep, FaultStep

LEMMA CardFacts ==
  ASSUME NEW B \in SUBSET Deliveries, NEW C \in SUBSET B
  PROVE  /\ IsFiniteSet(B) /\ Cardinality(B) \in Nat /\ Cardinality(C) \in Nat
         /\ Cardinality(C) <= Cardinality(B)
         /\ \A d \in B : Cardinality(B \ {d}) = Cardinality(B) - 1
         /\ \A d \in Deliveries \ B : Cardinality(B \cup {d}) = Cardinality(B) + 1
<1>1. IsFiniteSet(B)
  BY WebhookAssumption, FS_Subset
<1> QED
  BY <1>1, FS_Subset, FS_CardinalityType, FS_RemoveElement, FS_AddElement

(* The failures of e among the deliveries of S.                            *)
Fallen(S, e) == {x \in S : to[x] = e}

JustInv ==
  /\ \A d \in Deliveries : row[d] = "FAILED" => d \in everFailed
  /\ \A d \in everFailed : row[d] # "none"
  /\ \A d \in Deliveries :
       counted[d] = "disable" => Cardinality(Fallen(everFailed \cup {d}, to[d])) >= Threshold
  /\ \A e \in auto : Cardinality(Fallen(everFailed, e)) >= Threshold

(* A step after which no delivery has moved and none is forgotten keeps    *)
(* the counts.                                                             *)
JustKeeps ==
  /\ everFailed \subseteq everFailed' /\ everFailed' \subseteq Deliveries
  /\ \A x \in Deliveries : row[x] # "none" => to'[x] = to[x] /\ row'[x] # "none"
  /\ \A x \in Deliveries : row'[x] = "FAILED" => x \in everFailed'
  /\ \A x \in everFailed' : row[x] # "none"

LEMMA JustKept ==
  ASSUME Sound, JustInv, JustKeeps
  PROVE  /\ \A d \in Deliveries : counted[d] = "disable" =>
                Cardinality(Fallen(everFailed \cup {d}, to[d])') >= Threshold
         /\ \A e \in auto : Cardinality(Fallen(everFailed, e)') >= Threshold
<1>1. ASSUME NEW d \in Deliveries, counted[d] = "disable"
      PROVE  Cardinality(Fallen(everFailed \cup {d}, to[d])') >= Threshold
  <2>1. row[d] # "none"
    BY <1>1, StatusFacts DEF Sound, Placed, Exists
  <2>2. Fallen(everFailed \cup {d}, to[d]) \subseteq Fallen(everFailed \cup {d}, to[d])'
    BY <2>1 DEF JustKeeps, JustInv, Fallen, Sound, TypeOK
  <2>3. Fallen(everFailed \cup {d}, to[d])' \subseteq Deliveries
    BY DEF JustKeeps, Fallen
  <2>4. /\ Cardinality(Fallen(everFailed \cup {d}, to[d])) <= Cardinality(Fallen(everFailed \cup {d}, to[d])')
        /\ Cardinality(Fallen(everFailed \cup {d}, to[d])) \in Nat
        /\ Cardinality(Fallen(everFailed \cup {d}, to[d])') \in Nat
    BY <2>2, <2>3, CardFacts
  <2>5. Cardinality(Fallen(everFailed \cup {d}, to[d])) >= Threshold
    BY <1>1 DEF JustInv
  <2> QED
    BY <2>4, <2>5, WebhookAssumption
<1>2. ASSUME NEW e \in auto
      PROVE  Cardinality(Fallen(everFailed, e)') >= Threshold
  <2>1. Fallen(everFailed, e) \subseteq Fallen(everFailed, e)'
    BY DEF JustKeeps, JustInv, Fallen, Sound, TypeOK
  <2>2. Fallen(everFailed, e)' \subseteq Deliveries
    BY DEF JustKeeps, Fallen
  <2> QED
    BY <2>1, <2>2, CardFacts, WebhookAssumption DEF JustInv
<1> QED  BY <1>1, <1>2

LEMMA JustStep == Sound /\ JustInv /\ [Next]_vars => JustInv'
<1> SUFFICES ASSUME Sound, JustInv, [Next]_vars PROVE JustInv'
  OBVIOUS
<1> DEFINE Fewer == /\ \A d \in Deliveries : counted'[d] = "disable" => counted[d] = "disable"
                    /\ auto' \subseteq auto
<1>0. ASSUME JustKeeps, Fewer PROVE JustInv'
  BY <1>0, JustKept DEF JustInv, JustKeeps, Fallen, Sound, TypeOK
<1> USE FreshFact, StatusFacts DEF Sound
<1>1. CASE FanLists
  <2>1. JustKeeps /\ Fewer
    BY <1>1 DEF FanLists, Orders, JustKeeps, JustInv, TypeOK, Placed, FanOK,
      Exists, rows, ghosts
  <2> QED  BY <2>1, <1>0
<1>2. CASE FanCreates
  <2>1. JustKeeps /\ Fewer
    BY <1>2 DEF FanCreates, Unused, JustKeeps, JustInv, TypeOK, Placed,
      FanOK, Exists, rows, ghosts
  <2> QED  BY <2>1, <1>0
<1>3. CASE FanEnqueues
  <2>1. JustKeeps /\ Fewer
    BY <1>3 DEF FanEnqueues, Add, JustKeeps, JustInv, TypeOK, Placed, FanOK,
      Exists, rows, ghosts
  <2> QED  BY <2>1, <1>0
<1>4. CASE FanFails
  <2>1. JustKeeps /\ Fewer
    BY <1>4 DEF FanFails, Fault, NoFault, JustKeeps, JustInv, TypeOK,
      Placed, FanOK, Exists, rows, ghosts
  <2> QED  BY <2>1, <1>0
<1>5. ASSUME NEW e \in Endpoints, UpdateEndpoint(e) PROVE JustInv'
  <2>1. JustKeeps /\ Fewer
    BY <1>5 DEF UpdateEndpoint, Request, Turn, JustKeeps, JustInv, TypeOK,
      Placed, FanOK, Exists, rows, ghosts
  <2> QED  BY <2>1, <1>0
<1>6. ASSUME NEW e \in Endpoints, DeleteEndpoint(e) PROVE JustInv'
  <2>1. JustKeeps /\ Fewer
    BY <1>6 DEF DeleteEndpoint, Request, Of, Unlocked, JustKeeps, JustInv,
      TypeOK, Placed, FanOK, Exists, rows, ghosts
  <2> QED  BY <2>1, <1>0
<1>7. ASSUME NEW e \in Endpoints, SendTest(e) PROVE JustInv'
  <2>1. JustKeeps /\ Fewer
    BY <1>7 DEF SendTest, Request, Unused, Add, Fault, NoFault, JustKeeps,
      JustInv, TypeOK, Placed, FanOK, Exists, rows, ghosts
  <2> QED  BY <2>1, <1>0
<1>8. ASSUME NEW d \in Deliveries, TestCommits(d) PROVE JustInv'
  <2>1. JustKeeps /\ Fewer
    BY <1>8 DEF TestCommits, JustKeeps, JustInv, TypeOK, Placed, FanOK,
      Exists, rows, ghosts
  <2> QED  BY <2>1, <1>0
<1>9. ASSUME NEW d \in Deliveries, Retry(d) PROVE JustInv'
  <2>1. JustKeeps /\ Fewer
    BY <1>9 DEF Retry, Request, Unlocked, Fault, NoFault, JustKeeps,
      JustInv, TypeOK, Placed, FanOK, Exists, rows, ghosts
  <2> QED  BY <2>1, <1>0
<1>10. ASSUME NEW d \in Deliveries, RetryCommits(d) PROVE JustInv'
  <2>1. JustKeeps /\ Fewer
    BY <1>10 DEF RetryCommits, JustKeeps, JustInv, TypeOK, Placed, FanOK,
      Exists, rows, ghosts
  <2> QED  BY <2>1, <1>0
<1>11. ASSUME NEW d \in Deliveries, RequestBreaks(d) PROVE JustInv'
  <2>1. JustKeeps /\ Fewer
    BY <1>11 DEF RequestBreaks, Fault, JustKeeps, JustInv, TypeOK, Placed,
      FanOK, Exists, rows, ghosts
  <2> QED  BY <2>1, <1>0
<1>12. ASSUME NEW d \in Deliveries, Take(d) PROVE JustInv'
  <2>1. JustKeeps /\ Fewer
    BY <1>12 DEF Take, Idle, JustKeeps, JustInv, TypeOK, Placed, FanOK,
      Exists, rows, ghosts
  <2> QED  BY <2>1, <1>0
<1>13. ASSUME NEW w \in Slots, Complete(w) PROVE JustInv'
  <2>1. JustKeeps /\ Fewer
    BY <1>13 DEF Complete, Holds, Leaves, JustKeeps, JustInv, TypeOK, Placed, FanOK,
      Exists, rows, ghosts
  <2> QED  BY <2>1, <1>0
<1>14. ASSUME NEW w \in Slots, Throw(w) PROVE JustInv'
  <2>1. JustKeeps /\ Fewer
    BY <1>14 DEF Throw, Holds, Leaves, Job, JustKeeps, JustInv, TypeOK, Placed,
      FanOK, Exists, rows, ghosts
  <2> QED  BY <2>1, <1>0
<1>15. ASSUME NEW w \in Slots, Die(w) PROVE JustInv'
  <2>1. JustKeeps /\ Fewer
    BY <1>15 DEF Die, Leaves, Fault, JustKeeps, JustInv, TypeOK, Placed,
      FanOK, Exists, rows, ghosts
  <2> QED  BY <2>1, <1>0
<1>16. ASSUME NEW d \in Deliveries, Stall(d) PROVE JustInv'
  <2>1. JustKeeps /\ Fewer
    BY <1>16 DEF Stall, Job, JustKeeps, JustInv, TypeOK, Placed, FanOK,
      Exists, rows, ghosts
  <2> QED  BY <2>1, <1>0
<1>17. ASSUME NEW w \in Slots, Check(w) PROVE JustInv'
  <2>1. JustKeeps /\ Fewer
    BY <1>17 DEF Check, Goto, JustKeeps, JustInv, TypeOK, Placed, FanOK,
      Exists, rows, ghosts
  <2> QED  BY <2>1, <1>0
<1>18. ASSUME NEW w \in Slots, Cancel(w) PROVE JustInv'
  <2>1. JustKeeps /\ Fewer
    BY <1>18 DEF Cancel, SetStatus, Unlocked, Goto, JustKeeps, JustInv,
      TypeOK, Placed, FanOK, Exists, rows, ghosts
  <2> QED  BY <2>1, <1>0
<1>19. ASSUME NEW w \in Slots, Mark(w) PROVE JustInv'
  <2>1. JustKeeps /\ Fewer
    BY <1>19 DEF Mark, SetDelivering, SetStatus, Unlocked, Goto, JustKeeps, JustInv,
      TypeOK, Placed, FanOK, Exists, rows, ghosts
  <2> QED  BY <2>1, <1>0
<1>20. ASSUME NEW w \in Slots, Refuse(w) PROVE JustInv'
  <2>0. run[w].of \in Deliveries /\ row[run[w].of] # "none"
    BY <1>20, RunFacts DEF Refuse, SlotsOK
  <2>1. JustKeeps /\ Fewer
    BY <1>20, <2>0 DEF Refuse, SetStatus, Unlocked, Goto, JustKeeps, JustInv,
      TypeOK, Placed, FanOK, Exists, rows, ghosts
  <2> QED  BY <2>1, <1>0
<1>21. ASSUME NEW w \in Slots, Post(w) PROVE JustInv'
  <2>1. JustKeeps /\ Fewer
    BY <1>21 DEF Post, Goto, JustKeeps, JustInv, TypeOK, Placed, FanOK,
      Exists, rows, ghosts
  <2> QED  BY <2>1, <1>0
<1>22. ASSUME NEW w \in Slots, Answer(w) PROVE JustInv'
  <2>1. JustKeeps /\ Fewer
    BY <1>22 DEF Answer, SetDelivering, SetStatus, Unlocked, Goto, JustKeeps, JustInv,
      TypeOK, Placed, FanOK, Exists, rows, ghosts
  <2> QED  BY <2>1, <1>0
<1>23. ASSUME NEW w \in Slots, AttemptFails(w) PROVE JustInv'
  <2>1. JustKeeps /\ Fewer
    BY <1>23 DEF AttemptFails, Goto, Fault, JustKeeps, JustInv, TypeOK,
      Placed, FanOK, Exists, rows, ghosts
  <2> QED  BY <2>1, <1>0
<1>24. ASSUME NEW d \in Deliveries, FailureCounts(d) PROVE JustInv'
  <2>1. JustKeeps
    BY <1>24 DEF FailureCounts, JustKeeps, JustInv, TypeOK, rows, ghosts
  <2>2. counted'[d] = "disable" => Failures(d) >= Threshold
    BY <1>24 DEF FailureCounts, TypeOK
  <2>3. {x \in Of(to[d]) : row[x] = "FAILED"} \cup {d} \subseteq Fallen(everFailed \cup {d}, to[d])
    BY DEF Of, Fallen, JustInv
  <2>4. Fallen(everFailed \cup {d}, to[d]) \subseteq Deliveries
    BY DEF Fallen, TypeOK
  <2>5. Failures(d) <= Cardinality(Fallen(everFailed \cup {d}, to[d])) /\ Failures(d) \in Nat
        /\ Cardinality(Fallen(everFailed \cup {d}, to[d])) \in Nat
    BY <2>3, <2>4, CardFacts DEF Failures
  <2>6. counted'[d] = "disable" => Cardinality(Fallen(everFailed \cup {d}, to[d])) >= Threshold
    BY <2>2, <2>5, WebhookAssumption
  <2>7. /\ \A x \in Deliveries \ {d} : counted'[x] = counted[x]
        /\ UNCHANGED <<to, everFailed, auto, row>>
    BY <1>24 DEF FailureCounts, TypeOK, rows, ghosts
  <2> QED
    BY <2>6, <2>7 DEF JustInv, Fallen
<1>25. ASSUME NEW d \in Deliveries, FailureCommits(d) PROVE JustInv'
  <2>1. JustKeeps
    BY <1>25 DEF FailureCommits, JustKeeps, JustInv, TypeOK, Placed, Exists
  <2>2. /\ counted'[d] = "no" /\ \A x \in Deliveries \ {d} : counted'[x] = counted[x]
        /\ everFailed' = everFailed \cup {d} /\ to' = to
        /\ auto' \subseteq auto \cup {to[d]}
        /\ counted[d] # "disable" => auto' = auto
    BY <1>25 DEF FailureCommits, TypeOK
  <2>3. \A x \in Deliveries : counted'[x] = "disable" =>
          Cardinality(Fallen(everFailed \cup {x}, to[x])') >= Threshold
    BY <2>1, <2>2, JustKept
  <2>4. Fallen(everFailed, to[d])' = Fallen(everFailed \cup {d}, to[d])
    BY <2>2 DEF Fallen
  <2>5. counted[d] = "disable" => Cardinality(Fallen(everFailed, to[d])') >= Threshold
    BY <2>4 DEF JustInv
  <2>6. \A e \in auto' : Cardinality(Fallen(everFailed, e)') >= Threshold
    BY <2>1, <2>2, <2>5, JustKept DEF Fallen
  <2> QED
    BY <2>1, <2>2, <2>3, <2>6 DEF JustInv, JustKeeps, Fallen, TypeOK
<1>26. ASSUME NEW d \in Deliveries, FailureFindsNothing(d) PROVE JustInv'
  <2>1. JustKeeps /\ Fewer
    BY <1>26 DEF FailureFindsNothing, JustKeeps, JustInv, TypeOK, Placed,
      FanOK, Exists, rows, ghosts
  <2> QED  BY <2>1, <1>0
<1>27. ASSUME NEW d \in Deliveries, FailureLost(d) PROVE JustInv'
  <2>1. JustKeeps /\ Fewer
    BY <1>27 DEF FailureLost, Fault, JustKeeps, JustInv, TypeOK, Placed,
      FanOK, Exists, rows, ghosts
  <2> QED  BY <2>1, <1>0
<1>28. CASE UNCHANGED vars
  <2>1. JustKeeps /\ Fewer
    BY <1>28 DEF vars, rows, ghosts, JustKeeps, JustInv, TypeOK, Placed,
      FanOK, Exists
  <2> QED  BY <2>1, <1>0
<1> QED
  BY <1>1, <1>2, <1>3, <1>4, <1>5, <1>6, <1>7, <1>8, <1>9, <1>10, <1>11,
     <1>12, <1>13, <1>14, <1>15, <1>16, <1>17, <1>18, <1>19, <1>20, <1>21,
     <1>22, <1>23, <1>24, <1>25, <1>26, <1>27, <1>28 DEF Next, FanStep,
     AdminStep, RequestEnds, AttemptStep, FailureStep, FaultStep

(* Slots whose attempt has passed its check and has not sent yet.          *)
Aimed(e) == {w \in Slots : run[w].pc \in {"mark", "post"} /\ to[run[w].of] = e}

LateInv ==
  \A e \in Endpoints :
    endpoint[e] = "DISABLED" => late[e] + Cardinality(Aimed(e)) <= Cardinality(Slots)

LateKeeps ==
  \A e \in Endpoints : endpoint'[e] = "DISABLED" =>
    endpoint[e] = "DISABLED" /\ late'[e] = late[e] /\ Aimed(e)' \subseteq Aimed(e)

LEMMA SlotFacts ==
  ASSUME NEW B \in SUBSET Slots, NEW C \in SUBSET B
  PROVE  /\ Cardinality(B) \in Nat /\ Cardinality(C) \in Nat
         /\ Cardinality(C) <= Cardinality(B)
         /\ Cardinality(B) <= Cardinality(Slots) /\ Cardinality(Slots) \in Nat
         /\ \A w \in B : Cardinality(B \ {w}) = Cardinality(B) - 1
<1>1. IsFiniteSet(Slots) /\ IsFiniteSet(B)
  BY WebhookAssumption, FS_Subset
<1> QED
  BY <1>1, FS_Subset, FS_CardinalityType, FS_RemoveElement

LEMMA LateKept ==
  ASSUME Sound, LateInv, LateKeeps
  PROVE  LateInv'
<1> SUFFICES ASSUME NEW e \in Endpoints, endpoint'[e] = "DISABLED"
             PROVE  late'[e] + Cardinality(Aimed(e)') <= Cardinality(Slots)
  BY DEF LateInv
<1>1. endpoint[e] = "DISABLED" /\ late'[e] = late[e] /\ Aimed(e)' \subseteq Aimed(e)
  BY DEF LateKeeps
<1>2. Aimed(e) \in SUBSET Slots
  BY DEF Aimed
<1>3. Cardinality(Aimed(e)') <= Cardinality(Aimed(e)) /\ Cardinality(Aimed(e)) \in Nat
      /\ Cardinality(Aimed(e)') \in Nat /\ Cardinality(Slots) \in Nat /\ late[e] \in Nat
  BY <1>1, <1>2, SlotFacts DEF Sound, TypeOK
<1> QED  BY <1>1, <1>3 DEF LateInv

(* Turning an endpoint DISABLED starts its count at the attempts on the    *)
(* way, which are not more than the slots.                                 *)
LEMMA LateTurned ==
  ASSUME Sound, LateInv, UNCHANGED <<run, to>>, NEW e \in Endpoints,
         NEW status \in {"ACTIVE", "DISABLED"}, Turn(e, status)
  PROVE  LateInv'
<1>1. \A x \in Endpoints : Aimed(x)' = Aimed(x) /\ Aimed(x) \in SUBSET Slots
  BY DEF Aimed
<1>2. \A x \in Endpoints \ {e} : endpoint'[x] = endpoint[x] /\ late'[x] = late[x]
  BY DEF Turn, Sound, TypeOK
<1>3. ASSUME endpoint'[e] = "DISABLED"
      PROVE  late'[e] + Cardinality(Aimed(e)) <= Cardinality(Slots)
  <2>1. CASE endpoint[e] = "DISABLED"
    BY <1>3, <2>1 DEF Turn, LateInv, Sound, TypeOK
  <2>2. CASE endpoint[e] # "DISABLED"
    <3>1. late'[e] = 0
      BY <1>3, <2>2 DEF Turn, Sound, TypeOK
    <3> QED  BY <1>1, <3>1, SlotFacts
  <2> QED  BY <2>1, <2>2
<1> QED  BY <1>1, <1>2, <1>3 DEF LateInv

LEMMA LateStep == Sound /\ LateInv /\ [Next]_vars => LateInv'
<1> SUFFICES ASSUME Sound, LateInv, [Next]_vars PROVE LateInv'
  OBVIOUS
<1> USE FreshFact, StatusFacts, RunFacts DEF Sound
<1>1. CASE FanLists
  <2>1. LateKeeps
    BY <1>1 DEF FanLists, Orders, LateKeeps, Aimed, TypeOK, Placed,
      FanOK, Exists, rows, ghosts
  <2> QED  BY <2>1, LateKept
<1>2. CASE FanCreates
  <2>0. \A w \in Slots : run[w].pc \in {"mark", "post"} => to'[run[w].of] = to[run[w].of]
    BY <1>2 DEF FanCreates, SlotsOK, TypeOK
  <2>1. LateKeeps
    BY <1>2, <2>0 DEF FanCreates, LateKeeps, Aimed, ghosts
  <2> QED  BY <2>1, LateKept
<1>3. CASE FanEnqueues
  <2>1. LateKeeps
    BY <1>3 DEF FanEnqueues, Add, LateKeeps, Aimed, TypeOK, Placed,
      FanOK, Exists, rows, ghosts
  <2> QED  BY <2>1, LateKept
<1>4. CASE FanFails
  <2>1. LateKeeps
    BY <1>4 DEF FanFails, Fault, NoFault, LateKeeps, Aimed, TypeOK,
      Placed, FanOK, Exists, rows, ghosts
  <2> QED  BY <2>1, LateKept
<1>5. ASSUME NEW e \in Endpoints, UpdateEndpoint(e) PROVE LateInv'
  <2>1. UNCHANGED <<run, to>> /\ \E status \in {"ACTIVE", "DISABLED"} : Turn(e, status)
    BY <1>5 DEF UpdateEndpoint, rows
  <2> QED  BY <2>1, LateTurned
<1>6. ASSUME NEW e \in Endpoints, DeleteEndpoint(e) PROVE LateInv'
  <2>1. LateKeeps
    BY <1>6 DEF DeleteEndpoint, Request, Of, Unlocked, LateKeeps, Aimed, TypeOK, Placed, FanOK, Exists, rows, ghosts
  <2> QED  BY <2>1, LateKept
<1>7. ASSUME NEW e \in Endpoints, SendTest(e) PROVE LateInv'
  <2>1. LateKeeps
    BY <1>7 DEF SendTest, Request, Unused, Add, Fault, NoFault, LateKeeps,
      Aimed, TypeOK, Placed, FanOK, Exists, rows, ghosts
  <2> QED  BY <2>1, LateKept
<1>8. ASSUME NEW d \in Deliveries, TestCommits(d) PROVE LateInv'
  <2>1. LateKeeps
    BY <1>8 DEF TestCommits, LateKeeps, Aimed, TypeOK, Placed, FanOK,
      Exists, rows, ghosts
  <2> QED  BY <2>1, LateKept
<1>9. ASSUME NEW d \in Deliveries, Retry(d) PROVE LateInv'
  <2>1. LateKeeps
    BY <1>9 DEF Retry, Request, Unlocked, Fault, NoFault, LateKeeps, Aimed, TypeOK, Placed, FanOK, Exists, rows, ghosts
  <2> QED  BY <2>1, LateKept
<1>10. ASSUME NEW d \in Deliveries, RetryCommits(d) PROVE LateInv'
  <2>1. LateKeeps
    BY <1>10 DEF RetryCommits, LateKeeps, Aimed, TypeOK, Placed,
      FanOK, Exists, rows, ghosts
  <2> QED  BY <2>1, LateKept
<1>11. ASSUME NEW d \in Deliveries, RequestBreaks(d) PROVE LateInv'
  <2>1. LateKeeps
    BY <1>11 DEF RequestBreaks, Fault, LateKeeps, Aimed, TypeOK,
      Placed, FanOK, Exists, rows, ghosts
  <2> QED  BY <2>1, LateKept
<1>12. ASSUME NEW d \in Deliveries, Take(d) PROVE LateInv'
  <2>1. FreeSlot \in Slots /\ run' = [run EXCEPT ![FreeSlot] = [pc |-> "check", of |-> d]]
        /\ UNCHANGED <<to, endpoint, late>>
    BY <1>12 DEF Take, rows, ghosts
  <2>2. LateKeeps
    BY <2>1 DEF LateKeeps, Aimed, TypeOK, Runs
  <2> QED  BY <2>2, LateKept
<1>13. ASSUME NEW w \in Slots, Complete(w) PROVE LateInv'
  <2>1. LateKeeps
    BY <1>13 DEF Complete, Holds, Leaves, LateKeeps, Aimed, TypeOK, Placed,
      FanOK, Exists, rows, ghosts
  <2> QED  BY <2>1, LateKept
<1>14. ASSUME NEW w \in Slots, Throw(w) PROVE LateInv'
  <2>1. LateKeeps
    BY <1>14 DEF Throw, Holds, Leaves, Job, LateKeeps, Aimed, TypeOK, Placed,
      FanOK, Exists, rows, ghosts
  <2> QED  BY <2>1, LateKept
<1>15. ASSUME NEW w \in Slots, Die(w) PROVE LateInv'
  <2>1. LateKeeps
    BY <1>15 DEF Die, Leaves, Fault, LateKeeps, Aimed, TypeOK, Placed,
      FanOK, Exists, rows, ghosts
  <2> QED  BY <2>1, LateKept
<1>16. ASSUME NEW d \in Deliveries, Stall(d) PROVE LateInv'
  <2>1. LateKeeps
    BY <1>16 DEF Stall, Job, LateKeeps, Aimed, TypeOK, Placed, FanOK,
      Exists, rows, ghosts
  <2> QED  BY <2>1, LateKept
<1>17. ASSUME NEW w \in Slots, Check(w) PROVE LateInv'
  <2>1. LateKeeps
    BY <1>17 DEF Check, Goto, LateKeeps, Aimed, TypeOK, Placed, FanOK,
      Exists, rows, ghosts
  <2> QED  BY <2>1, LateKept
<1>18. ASSUME NEW w \in Slots, Cancel(w) PROVE LateInv'
  <2>1. LateKeeps
    BY <1>18 DEF Cancel, SetStatus, Unlocked, Goto, LateKeeps, Aimed,
      TypeOK, Placed, FanOK, Exists, rows, ghosts
  <2> QED  BY <2>1, LateKept
<1>19. ASSUME NEW w \in Slots, Mark(w) PROVE LateInv'
  <2>1. LateKeeps
    BY <1>19 DEF Mark, SetDelivering, SetStatus, Unlocked, Goto, LateKeeps, Aimed,
      TypeOK, Placed, FanOK, Exists, rows, ghosts
  <2> QED  BY <2>1, LateKept
<1>20. ASSUME NEW w \in Slots, Refuse(w) PROVE LateInv'
  <2>1. LateKeeps
    BY <1>20 DEF Refuse, SetStatus, Unlocked, Goto, LateKeeps, Aimed,
      TypeOK, Placed, FanOK, Exists, rows, ghosts
  <2> QED  BY <2>1, LateKept
<1>21. ASSUME NEW w \in Slots, Post(w) PROVE LateInv'
  <2> DEFINE e == to[run[w].of]
  <2>1. /\ run[w].pc = "post" /\ UNCHANGED <<to, endpoint>> /\ e \in Endpoints
        /\ run'[w].pc \in {"ok", "error"} /\ run'[w].of = run[w].of
        /\ \A x \in Slots \ {w} : run'[x] = run[x]
        /\ late' = IF endpoint[e] = "DISABLED" THEN [late EXCEPT ![e] = late[e] + 1] ELSE late
    BY <1>21 DEF Post, Goto, Placed, SlotsOK, TypeOK, Runs, rows
  <2>2. Aimed(e)' = Aimed(e) \ {w} /\ w \in Aimed(e) /\ Aimed(e) \in SUBSET Slots
    BY <2>1 DEF Aimed
  <2>3. \A x \in Endpoints \ {e} : Aimed(x)' = Aimed(x) /\ late'[x] = late[x]
    BY <2>1 DEF Aimed, TypeOK
  <2>4. Cardinality(Aimed(e)') = Cardinality(Aimed(e)) - 1 /\ Cardinality(Aimed(e)) \in Nat
        /\ Cardinality(Slots) \in Nat
    BY <2>2, SlotFacts
  <2>5. endpoint[e] = "DISABLED" => late'[e] = late[e] + 1 /\ late[e] \in Nat
    BY <2>1 DEF TypeOK
  <2> QED  BY <2>1, <2>3, <2>4, <2>5 DEF LateInv
<1>22. ASSUME NEW w \in Slots, Answer(w) PROVE LateInv'
  <2>1. /\ run'[w].pc \in {"done", "throw"} /\ \A x \in Slots \ {w} : run'[x] = run[x]
        /\ UNCHANGED <<to, endpoint, late>>
    BY <1>22 DEF Answer, SetDelivering, SetStatus, Goto, TypeOK, Runs
  <2>2. LateKeeps
    BY <2>1 DEF LateKeeps, Aimed
  <2> QED  BY <2>2, LateKept
<1>23. ASSUME NEW w \in Slots, AttemptFails(w) PROVE LateInv'
  <2>1. LateKeeps
    BY <1>23 DEF AttemptFails, Goto, Fault, LateKeeps, Aimed, TypeOK,
      Placed, FanOK, Exists, rows, ghosts
  <2> QED  BY <2>1, LateKept
<1>24. ASSUME NEW d \in Deliveries, FailureCounts(d) PROVE LateInv'
  <2>1. LateKeeps
    BY <1>24 DEF FailureCounts, Unlocked, LateKeeps, Aimed, TypeOK,
      Placed, FanOK, Exists, rows, ghosts
  <2> QED  BY <2>1, LateKept
<1>25. ASSUME NEW d \in Deliveries, FailureCommits(d) PROVE LateInv'
  <2>1. UNCHANGED <<run, to>> /\ to[d] \in Endpoints
    BY <1>25 DEF FailureCommits, Placed, Exists
  <2>2. CASE counted[d] = "disable"
    BY <1>25, <2>1, <2>2, LateTurned DEF FailureCommits
  <2>3. CASE counted[d] # "disable"
    <3>1. LateKeeps
      BY <1>25, <2>1, <2>3 DEF FailureCommits, LateKeeps, Aimed
    <3> QED  BY <3>1, LateKept
  <2> QED  BY <2>2, <2>3
<1>26. ASSUME NEW d \in Deliveries, FailureFindsNothing(d) PROVE LateInv'
  <2>1. LateKeeps
    BY <1>26 DEF FailureFindsNothing, LateKeeps, Aimed, TypeOK,
      Placed, FanOK, Exists, rows, ghosts
  <2> QED  BY <2>1, LateKept
<1>27. ASSUME NEW d \in Deliveries, FailureLost(d) PROVE LateInv'
  <2>1. LateKeeps
    BY <1>27 DEF FailureLost, Fault, LateKeeps, Aimed, TypeOK, Placed,
      FanOK, Exists, rows, ghosts
  <2> QED  BY <2>1, LateKept
<1>28. CASE UNCHANGED vars
  <2>1. LateKeeps
    BY <1>28 DEF vars, rows, ghosts, LateKeeps, Aimed, TypeOK, Placed,
      FanOK, Exists
  <2> QED  BY <2>1, LateKept
<1> QED
  BY <1>1, <1>2, <1>3, <1>4, <1>5, <1>6, <1>7, <1>8, <1>9, <1>10, <1>11,
     <1>12, <1>13, <1>14, <1>15, <1>16, <1>17, <1>18, <1>19, <1>20, <1>21,
     <1>22, <1>23, <1>24, <1>25, <1>26, <1>27, <1>28 DEF Next, FanStep,
     AdminStep, RequestEnds, AttemptStep, FailureStep, FaultStep

-----------------------------------------------------------------------------
LEMMA InitHolds == Init => Sound /\ HonestInv /\ JustInv /\ LateInv
<1> SUFFICES ASSUME Init PROVE Sound /\ HonestInv /\ JustInv /\ LateInv
  OBVIOUS
<1>1. Sound
  <2>1. fan \in Fans
    BY WebhookAssumption DEF Init, Fans
  <2> QED
    BY <2>1, WebhookAssumption, StatusFacts, StepFacts, JobFacts, RunFacts
    DEF Init, Sound, TypeOK, FanOK, Placed, SlotsOK
<1>2. HonestInv
  BY JobFacts, RunFacts DEF Init, HonestInv, Undisturbed
<1>3. JustInv
  BY DEF Init, JustInv
<1>4. LateInv
  <2>1. \A e \in Endpoints : endpoint[e] # "DISABLED"
    BY DEF Init
  <2> QED  BY <2>1 DEF LateInv
<1> QED  BY <1>1, <1>2, <1>3, <1>4

(* Types hold in every reachable state.                                    *)
THEOREM TypeCorrect == Spec => []TypeOK
<1>1. Sound => TypeOK
  BY DEF Sound
<1> QED
  BY InitHolds, SoundStep, <1>1, PTL DEF Spec

(* DELIVERED was accepted by the endpoint, and what was FAILED or          *)
(* CANCELLED without a retry or a fault was not: the worker's last write   *)
(* of updateDeliveryStatus is never out of step with the answer.           *)
THEOREM AnswersRecorded == Spec => []OutcomeHonest
<1>1. HonestInv => OutcomeHonest
  BY DEF HonestInv, Undisturbed, OutcomeHonest
<1> QED
  BY InitHolds, SoundStep, HonestStep, <1>1, PTL DEF Spec

(* The auto-disabling of onFailed never acts on fewer failures than the    *)
(* threshold, however its counts and the admin's retries interleave.       *)
THEOREM DisablingJustified == Spec => []DisableJustified
<1>1. JustInv => DisableJustified
  BY DEF JustInv, DisableJustified, Fallen
<1> QED
  BY InitHolds, SoundStep, JustStep, <1>1, PTL DEF Spec

(* A disabled endpoint gets at most as many requests more as the worker    *)
(* has slots: phase 1 of every attempt looks at the endpoint again.        *)
THEOREM DisableTakesEffect == Spec => []LateBounded
<1>1. Sound /\ LateInv => LateBounded
  <2> SUFFICES ASSUME Sound, LateInv, NEW e \in Endpoints, endpoint[e] = "DISABLED"
               PROVE  late[e] <= Cardinality(Slots)
    BY DEF LateBounded
  <2>1. Cardinality(Aimed(e)) \in Nat /\ Cardinality(Slots) \in Nat /\ late[e] \in Nat
    BY SlotFacts DEF Aimed, Sound, TypeOK
  <2> QED  BY <2>1 DEF LateInv
<1> QED
  BY InitHolds, SoundStep, LateStep, <1>1, PTL DEF Spec
=============================================================================
