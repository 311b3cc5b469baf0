---------------------------- MODULE OutboxProofs ----------------------------
(***************************************************************************)
(* Proofs about the outbox for any number of pollers, any batch size and   *)
(* any bounds: types, exclusive work on young events, and delivery.        *)
(***************************************************************************)
EXTENDS Outbox, TLAPS

(* A job works on a row exactly between the claim and the mark or unclaim. *)
CurInv ==
  \A p \in Pollers : cur[p] # 0 <=> pc[p] \in {"send", "mark", "unclaim"}

(* The claim of a young row outlives every statement but its holder's.     *)
YoungHeldIsClaimed ==
  \A e \in Events, p \in Pollers :
    Young(e) /\ Holds(p, e) => row[e] = "claimed"

(* Copies against errors, by the place an attempt has reached.             *)
YoungCount ==
  \A e \in Events : Young(e) =>
    /\ sends[e] <= failures[e] + 1
    /\ row[e] \in {"absent", "null"} => sends[e] <= failures[e]
    /\ \A p \in Pollers :
         Holds(p, e) /\ pc[p] \in {"send", "unclaim"} => sends[e] <= failures[e]

(* A job that is about to mark has sent.                                   *)
SentInv ==
  /\ DoneWasSent
  /\ \A p \in Pollers, e \in Events :
       Holds(p, e) /\ pc[p] = "mark" => sends[e] > 0

(* The inductive invariant.                                                *)
ExclusiveInv == TypeOK /\ CurInv /\ YoungHeldIsClaimed /\ YoungExclusive
IInv == ExclusiveInv /\ YoungCount /\ SentInv

USE OutboxAssumption DEF Events, OutboxAssumption

-----------------------------------------------------------------------------
(* Every reachable state is well typed.                                    *)
THEOREM TypeCorrect == Spec => []TypeOK
<1>1. Init => TypeOK
  BY DEF Init, TypeOK
<1>2. TypeOK /\ [Next]_vars => TypeOK'
  <2> SUFFICES ASSUME TypeOK, [Next]_vars PROVE TypeOK'
    OBVIOUS
  <2> USE DEF TypeOK
  <2>1. ASSUME NEW e \in Events, EnqueueOutboxEvent(e) PROVE TypeOK'
    BY <2>1 DEF EnqueueOutboxEvent
  <2>2. CASE Age
    BY <2>2 DEF Age
  <2>3. ASSUME NEW p \in Pollers, RecoverStaleClaims(p) PROVE TypeOK'
    BY <2>3 DEF RecoverStaleClaims
  <2>4. ASSUME NEW p \in Pollers, FetchBatch(p) PROVE TypeOK'
    <3>1. OldestFirst \in SUBSET Events
      BY DEF OldestFirst, Unclaimed
    <3>2. Resume(OldestFirst) \in {"idle", "claim"}
      BY DEF Resume
    <3>3. QED
      BY <2>4, <3>1, <3>2 DEF FetchBatch
  <2>5. ASSUME NEW p \in Pollers, NEW e \in Events,
               \/ Claim(p, e) \/ SkipClaimed(p, e) \/ SendOk(p, e)
               \/ SendFails(p, e) \/ MarkProcessed(p, e) \/ MarkFails(p, e)
               \/ Unclaim(p, e)
        PROVE  TypeOK'
    <3>1. CASE Claim(p, e)
      BY <3>1 DEF Claim
    <3>2. CASE SkipClaimed(p, e)
      BY <3>2 DEF SkipClaimed, Resume
    <3>3. CASE SendOk(p, e)
      BY <3>3 DEF SendOk
    <3>4. CASE SendFails(p, e)
      <4>1. sends' \in [Events -> Nat] /\ failures' \in [Events -> Nat]
        <5>1. CASE UNCHANGED <<sends, failures>>
          BY <5>1
        <5>2. CASE failures' = [failures EXCEPT ![e] = @ + 1] /\ UNCHANGED sends
          BY <5>2
        <5>3. CASE /\ failures' = [failures EXCEPT ![e] = @ + 1]
                   /\ sends' = [sends EXCEPT ![e] = @ + 1]
          BY SMTT(40), <5>3
        <5>4. QED
          BY <3>4, <5>1, <5>2, <5>3 DEF SendFails
      <4>2. pc' = [pc EXCEPT ![p] = "unclaim"]
            /\ UNCHANGED <<row, horizon, batch, cur, crashes>>
        BY <3>4 DEF SendFails
      <4>3. QED
        BY <4>1, <4>2
    <3>5. CASE MarkProcessed(p, e)
      BY <3>5 DEF MarkProcessed, Resume
    <3>6. CASE MarkFails(p, e)
      BY <3>6 DEF MarkFails
    <3>7. CASE Unclaim(p, e)
      BY <3>7 DEF Unclaim, Resume
    <3>8. QED
      BY <2>5, <3>1, <3>2, <3>3, <3>4, <3>5, <3>6, <3>7
  <2>6. ASSUME NEW p \in Pollers, Crash(p) PROVE TypeOK'
    BY <2>6 DEF Crash
  <2>7. CASE UNCHANGED vars
    BY <2>7 DEF vars
  <2>8. QED
    BY <2>1, <2>2, <2>3, <2>4, <2>5, <2>6, <2>7 DEF Next, Job
<1>3. QED
  BY <1>1, <1>2, PTL DEF Spec

-----------------------------------------------------------------------------
(* No two instances work on the same young event, whatever crashes,        *)
(* recoveries and failures come between the statements of their jobs.      *)
LEMMA ExclusiveStep == ExclusiveInv /\ [Next]_vars => (CurInv /\ YoungHeldIsClaimed /\ YoungExclusive)'
<1> SUFFICES ASSUME ExclusiveInv, [Next]_vars
             PROVE  (CurInv /\ YoungHeldIsClaimed /\ YoungExclusive)'
  OBVIOUS
<1> USE DEF ExclusiveInv, TypeOK, CurInv, YoungHeldIsClaimed, YoungExclusive, Young, Holds
<1>1. ASSUME NEW e \in Events, EnqueueOutboxEvent(e)
      PROVE  (CurInv /\ YoungHeldIsClaimed /\ YoungExclusive)'
  BY <1>1 DEF EnqueueOutboxEvent
<1>2. CASE Age
  BY <1>2 DEF Age
<1>3. ASSUME NEW p \in Pollers, RecoverStaleClaims(p)
      PROVE  (CurInv /\ YoungHeldIsClaimed /\ YoungExclusive)'
  BY <1>3 DEF RecoverStaleClaims
<1>4. ASSUME NEW p \in Pollers, FetchBatch(p)
      PROVE  (CurInv /\ YoungHeldIsClaimed /\ YoungExclusive)'
  BY <1>4 DEF FetchBatch, Resume
<1>5. ASSUME NEW p \in Pollers, NEW e \in Events, Claim(p, e)
      PROVE  (CurInv /\ YoungHeldIsClaimed /\ YoungExclusive)'
  <2>1. CurInv'
    BY <1>5 DEF Claim
  <2>2. YoungHeldIsClaimed'
    BY <1>5 DEF Claim
  <2>3. YoungExclusive'
    BY ZenonT(60), <1>5 DEF Claim
  <2>4. QED
    BY <2>1, <2>2, <2>3
<1>6. ASSUME NEW p \in Pollers, NEW e \in Events, SkipClaimed(p, e)
      PROVE  (CurInv /\ YoungHeldIsClaimed /\ YoungExclusive)'
  BY <1>6 DEF SkipClaimed, Resume
<1>7. ASSUME NEW p \in Pollers, NEW e \in Events,
             SendOk(p, e) \/ SendFails(p, e) \/ MarkFails(p, e)
      PROVE  (CurInv /\ YoungHeldIsClaimed /\ YoungExclusive)'
  <2>1. CurInv'
    BY <1>7 DEF SendOk, SendFails, MarkFails
  <2>2. YoungHeldIsClaimed'
    BY <1>7 DEF SendOk, SendFails, MarkFails
  <2>3. YoungExclusive'
    BY <1>7 DEF SendOk, SendFails, MarkFails
  <2>4. QED
    BY <2>1, <2>2, <2>3
<1>8. ASSUME NEW p \in Pollers, NEW e \in Events,
             MarkProcessed(p, e) \/ Unclaim(p, e)
      PROVE  (CurInv /\ YoungHeldIsClaimed /\ YoungExclusive)'
  <2>1. CurInv'
    BY ZenonT(60), <1>8 DEF MarkProcessed, Unclaim, Resume
  <2>2. YoungHeldIsClaimed'
    BY SMTT(40), <1>8 DEF MarkProcessed, Unclaim, Resume
  <2>3. YoungExclusive'
    <3>1. cur' = [cur EXCEPT ![p] = 0] /\ horizon' = horizon
      BY <1>8 DEF MarkProcessed, Unclaim
    <3>2. QED
      BY <3>1
  <2>4. QED
    BY <2>1, <2>2, <2>3
<1>9. ASSUME NEW p \in Pollers, Crash(p)
      PROVE  (CurInv /\ YoungHeldIsClaimed /\ YoungExclusive)'
  BY <1>9 DEF Crash
<1>10. CASE UNCHANGED vars
  BY <1>10 DEF vars
<1>11. QED
  BY <1>1, <1>2, <1>3, <1>4, <1>5, <1>6, <1>7, <1>8, <1>9, <1>10 DEF Next, Job

THEOREM ExclusiveWork == Spec => []YoungExclusive
<1>1. Init => CurInv /\ YoungHeldIsClaimed /\ YoungExclusive
  BY DEF Init, CurInv, YoungHeldIsClaimed, YoungExclusive, Holds
<1>2. QED
  BY <1>1, TypeCorrect, ExclusiveStep, PTL DEF Spec, ExclusiveInv

-----------------------------------------------------------------------------
(* A young event reaches Inngest at most once more than its attempts       *)
(* reported errors, and a row is marked done only after it was sent.       *)
LEMMA CountStep == IInv /\ [Next]_vars => (YoungCount /\ SentInv)'
<1> SUFFICES ASSUME IInv, [Next]_vars PROVE YoungCount' /\ SentInv'
  OBVIOUS
<1> USE DEF IInv, ExclusiveInv, TypeOK, CurInv, YoungHeldIsClaimed, YoungExclusive,
            Young, Holds, DoneWasSent
<1>1. ASSUME NEW e \in Events, EnqueueOutboxEvent(e)
      PROVE  YoungCount' /\ SentInv'
  BY <1>1 DEF EnqueueOutboxEvent, YoungCount, SentInv
<1>2. CASE Age
  BY <1>2 DEF Age, YoungCount, SentInv
<1>3. ASSUME NEW p \in Pollers, RecoverStaleClaims(p)
      PROVE  YoungCount' /\ SentInv'
  <2>1. YoungCount'
    BY <1>3 DEF RecoverStaleClaims, YoungCount
  <2>2. SentInv'
    BY <1>3 DEF RecoverStaleClaims, SentInv
  <2>3. QED
    BY <2>1, <2>2
<1>4. ASSUME NEW p \in Pollers, FetchBatch(p)
      PROVE  YoungCount' /\ SentInv'
  <2>1. YoungCount'
    BY <1>4 DEF FetchBatch, Resume, YoungCount
  <2>2. SentInv'
    BY <1>4 DEF FetchBatch, Resume, SentInv
  <2>3. QED
    BY <2>1, <2>2
<1>5. ASSUME NEW p \in Pollers, NEW e \in Events, Claim(p, e)
      PROVE  YoungCount' /\ SentInv'
  <2>1. YoungCount'
    BY <1>5 DEF Claim, YoungCount
  <2>2. SentInv'
    BY <1>5 DEF Claim, SentInv
  <2>3. QED
    BY <2>1, <2>2
<1>6. ASSUME NEW p \in Pollers, NEW e \in Events, SkipClaimed(p, e)
      PROVE  YoungCount' /\ SentInv'
  <2>1. YoungCount'
    BY <1>6 DEF SkipClaimed, Resume, YoungCount
  <2>2. SentInv'
    BY <1>6 DEF SkipClaimed, Resume, SentInv
  <2>3. QED
    BY <2>1, <2>2
<1>7. ASSUME NEW p \in Pollers, NEW e \in Events, SendOk(p, e)
      PROVE  YoungCount' /\ SentInv'
  <2>1. YoungCount'
    BY <1>7 DEF SendOk, YoungCount
  <2>2. SentInv'
    BY <1>7 DEF SendOk, SentInv
  <2>3. QED
    BY <2>1, <2>2
<1>8. ASSUME NEW p \in Pollers, NEW e \in Events, SendFails(p, e)
      PROVE  YoungCount' /\ SentInv'
  <2>1. /\ pc[p] = "send" /\ Holds(p, e)
        /\ pc' = [pc EXCEPT ![p] = "unclaim"]
        /\ UNCHANGED <<row, horizon, cur>>
    BY <1>8 DEF SendFails
  <2>2. CASE UNCHANGED <<sends, failures>>
    BY <2>1, <2>2 DEF YoungCount, SentInv
  <2>3. CASE failures' = [failures EXCEPT ![e] = @ + 1] /\ UNCHANGED sends
    BY <2>1, <2>3 DEF YoungCount, SentInv
  <2>4. CASE /\ failures' = [failures EXCEPT ![e] = @ + 1]
             /\ sends' = [sends EXCEPT ![e] = @ + 1]
    <3>1. YoungCount'
      <4>1. SUFFICES ASSUME NEW f \in Events, Young(f)
                     PROVE  /\ sends'[f] <= failures'[f] + 1
                            /\ row[f] \in {"absent", "null"} => sends'[f] <= failures'[f]
                            /\ \A q \in Pollers :
                                 Holds(q, f) /\ pc'[q] \in {"send", "unclaim"}
                                   => sends'[f] <= failures'[f]
        BY <2>1 DEF YoungCount
      <4>2. CASE f = e
        <5>1. sends[e] <= failures[e]
          BY <2>1, <4>1, <4>2 DEF YoungCount
        <5>2. sends'[f] = sends[f] + 1 /\ failures'[f] = failures[f] + 1
          BY <2>4, <4>2
        <5>3. QED
          BY <5>1, <5>2, <4>2
      <4>3. CASE f # e
        <5>1. sends'[f] = sends[f] /\ failures'[f] = failures[f]
          BY <2>4, <4>3
        <5>2. \A q \in Pollers : Holds(q, f) => pc'[q] = pc[q]
          BY <2>1, <4>3
        <5>3. QED
          BY <4>1, <5>1, <5>2 DEF YoungCount
      <4>4. QED
        BY <4>2, <4>3
    <3>2. SentInv'
      BY <2>1, <2>4 DEF SentInv
    <3>3. QED
      BY <3>1, <3>2
  <2>5. QED
    BY <1>8, <2>2, <2>3, <2>4 DEF SendFails
<1>9. ASSUME NEW p \in Pollers, NEW e \in Events, MarkFails(p, e)
      PROVE  YoungCount' /\ SentInv'
  <2>1. YoungCount'
    BY <1>9 DEF MarkFails, YoungCount
  <2>2. SentInv'
    BY <1>9 DEF MarkFails, SentInv
  <2>3. QED
    BY <2>1, <2>2
<1>10. ASSUME NEW p \in Pollers, NEW e \in Events, MarkProcessed(p, e)
       PROVE  YoungCount' /\ SentInv'
  <2>1. YoungCount'
    BY <1>10 DEF MarkProcessed, Resume, YoungCount
  <2>2. SentInv'
    BY <1>10 DEF MarkProcessed, Resume, SentInv
  <2>3. QED
    BY <2>1, <2>2
<1>11. ASSUME NEW p \in Pollers, NEW e \in Events, Unclaim(p, e)
       PROVE  YoungCount' /\ SentInv'
  <2>1. YoungCount'
    BY <1>11 DEF Unclaim, Resume, YoungCount
  <2>2. SentInv'
    BY <1>11 DEF Unclaim, Resume, SentInv
  <2>3. QED
    BY <2>1, <2>2
<1>12. ASSUME NEW p \in Pollers, Crash(p)
       PROVE  YoungCount' /\ SentInv'
  <2>1. YoungCount'
    BY <1>12 DEF Crash, YoungCount
  <2>2. SentInv'
    BY <1>12 DEF Crash, SentInv
  <2>3. QED
    BY <2>1, <2>2
<1>13. CASE UNCHANGED vars
  BY <1>13 DEF vars, YoungCount, SentInv
<1>14. QED
  BY <1>1, <1>2, <1>3, <1>4, <1>5, <1>6, <1>7, <1>8, <1>9, <1>10, <1>11, <1>12,
     <1>13 DEF Next, Job

THEOREM DeliveryCount == Spec => [](YoungSentOnce /\ DoneWasSent)
<1>1. Init => YoungCount /\ SentInv /\ CurInv /\ YoungHeldIsClaimed /\ YoungExclusive
  BY DEF Init, CurInv, YoungHeldIsClaimed, YoungExclusive, YoungCount, SentInv,
         DoneWasSent, Holds
<1>2. YoungCount /\ SentInv => YoungSentOnce /\ DoneWasSent
  BY DEF YoungCount, SentInv, YoungSentOnce
<1>3. QED
  BY <1>1, <1>2, TypeCorrect, ExclusiveStep, CountStep, PTL
  DEF Spec, IInv, ExclusiveInv

(* A row is done only when Inngest has taken its event: no recovery, no    *)
(* late mark of another instance and no reopening loses an event.          *)
THEOREM NothingLost == Spec => []DoneWasSent
<1> QED  BY DeliveryCount, PTL

(* A young event that is done is not reopened: only the holder of a row    *)
(* unclaims it, a recovery leaves young rows alone, and the holder of a    *)
(* young row finds it claimed.                                             *)
THEOREM DoneStays == Spec => YoungDoneStays
<1> DEFINE Stays == \A e \in Events : Young(e) /\ row[e] = "done" => row'[e] = "done"
<1>1. ExclusiveInv /\ [Next]_vars => [Stays]_vars
  <2> SUFFICES ASSUME ExclusiveInv, Next PROVE Stays
    BY DEF vars
  <2> USE DEF ExclusiveInv, TypeOK, YoungHeldIsClaimed, Young, Holds
  <2>1. ASSUME NEW e \in Events, EnqueueOutboxEvent(e) PROVE Stays
    BY <2>1 DEF EnqueueOutboxEvent
  <2>2. CASE Age
    BY <2>2 DEF Age
  <2>3. ASSUME NEW p \in Pollers, RecoverStaleClaims(p) PROVE Stays
    BY <2>3 DEF RecoverStaleClaims
  <2>4. ASSUME NEW p \in Pollers, FetchBatch(p) \/ Crash(p) PROVE Stays
    BY <2>4 DEF FetchBatch, Crash
  <2>5. ASSUME NEW p \in Pollers, NEW e \in Events,
               Claim(p, e) \/ MarkProcessed(p, e) \/ Unclaim(p, e)
        PROVE  Stays
    BY <2>5 DEF Claim, MarkProcessed, Unclaim
  <2>6. ASSUME NEW p \in Pollers, NEW e \in Events,
               SkipClaimed(p, e) \/ SendOk(p, e) \/ SendFails(p, e) \/ MarkFails(p, e)
        PROVE  Stays
    BY <2>6 DEF SkipClaimed, SendOk, SendFails, MarkFails
  <2>7. QED
    BY <2>1, <2>2, <2>3, <2>4, <2>5, <2>6 DEF Next, Job
<1>2. Init => CurInv /\ YoungHeldIsClaimed /\ YoungExclusive
  BY DEF Init, CurInv, YoungHeldIsClaimed, YoungExclusive, Holds
<1>3. QED
  BY <1>1, <1>2, TypeCorrect, ExclusiveStep, PTL DEF Spec, ExclusiveInv, YoungDoneStays
=============================================================================
