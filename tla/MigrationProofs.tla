-------------------------- MODULE MigrationProofs --------------------------
(***************************************************************************)
(* Proofs about Trust and Migration: capabilities are only held by         *)
(* agreement of both instances, and a writer's account is only left when   *)
(* the work has arrived -- for any instances, organizations, messages and  *)
(* requests in flight, migrations, approvals, pieces and faults.           *)
(***************************************************************************)
EXTENDS Migration, TLAPS

(* What TrustAgreed rests on: accepts on their way were granted, and apply *)
(* to rows that were asked for from here; admins accept what came from     *)
(* outside.                                                                *)
MailGranted ==
  \A m \in mail :
    /\ m.kind # "request" => <<m.by, m.to, m.caps>> \in granted
    /\ m.kind = "applying" =>
         \A o \in m.todo : Home[o] = m.to /\ peer[o][Home[m.by]].by = "local"

RowsAskedFor ==
  \A o \in Orgs, i \in Instances :
    /\ peer[o][i].state = "pending_outbound" => peer[o][i].by = "local"
    /\ peer[o][i].state = "pending_inbound" => peer[o][i].by = "remote"

ActsOnInbound ==
  \A a \in acts : a.kind = "accept" => peer[a.org][a.inst].by = "remote"

TrustInv ==
  TrustTypeOK /\ MailGranted /\ RowsAskedFor /\ ActsOnInbound /\ TrustAgreed

-----------------------------------------------------------------------------
(* The types.                                                              *)
LEMMA TypedRow ==
  ASSUME TrustTypeOK, NEW o \in Orgs, NEW i \in Instances
  PROVE  /\ peer[o] \in [Instances -> Peers]
         /\ peer[o][i] \in Peers
         /\ peer[o][i].state \in PeerStates
         /\ peer[o][i].by \in {"none", "local", "remote"}
         /\ peer[o][i].caps \in SUBSET Capabilities
  BY DEF TrustTypeOK, Peers

LEMMA TypedMail ==
  ASSUME TrustTypeOK, NEW m \in mail
  PROVE  /\ m \in Messages /\ m.by \in Orgs /\ m.to \in Instances
         /\ m.caps \in SUBSET Capabilities /\ m.todo \in SUBSET Orgs
         /\ Home[m.by] \in Instances
  BY TrustAssumption DEF TrustTypeOK, Messages

(* A state change of a row, as an admin or an accept makes it.             *)
LEMMA RowTyped ==
  ASSUME NEW state \in PeerStates, NEW by \in {"none", "local", "remote"},
         NEW caps \in SUBSET Capabilities
  PROVE  /\ Peer(state, by, caps) \in Peers
         /\ Peer(state, by, caps).state = state
         /\ Peer(state, by, caps).by = by
         /\ Peer(state, by, caps).caps = caps
         /\ NoPeer \in Peers /\ NoPeer.state = "none"
  BY DEF Peer, Peers, NoPeer, PeerStates

(* One row is replaced, or some columns of it.                             *)
RowNow(o, i, row) ==
  /\ peer' \in [Orgs -> [Instances -> Peers]]
  /\ peer'[o][i] = row
  /\ \A q \in Orgs, j \in Instances : q # o \/ j # i => peer'[q][j] = peer[q][j]

LEMMA RowReplaced ==
  ASSUME TrustTypeOK, NEW o \in Orgs, NEW i \in Instances, NEW row \in Peers,
         peer' = [peer EXCEPT ![o][i] = row]
  PROVE  RowNow(o, i, row)
  BY DEF TrustTypeOK, RowNow

LEMMA ActivatedRow ==
  ASSUME TrustTypeOK, NEW o \in Orgs, NEW i \in Instances,
         NEW caps \in SUBSET Capabilities,
         peer' = [peer EXCEPT ![o][i].state = "active", ![o][i].caps = caps]
  PROVE  RowNow(o, i, Peer("active", peer[o][i].by, caps))
<1>1. peer \in [Orgs -> [Instances -> Peers]] /\ peer[o][i] \in Peers
  BY DEF TrustTypeOK
<1>2. peer'[o][i] = [[peer[o][i] EXCEPT !.state = "active"] EXCEPT !.caps = caps]
  BY <1>1
<1>3. peer'[o][i] = Peer("active", peer[o][i].by, caps)
  BY <1>1, <1>2 DEF Peer, Peers
<1>4. Peer("active", peer[o][i].by, caps) \in Peers
  BY <1>1 DEF Peer, Peers, PeerStates
<1> QED  BY ZenonT(60), <1>1, <1>3, <1>4 DEF RowNow

LEMMA ClosedRow ==
  ASSUME TrustTypeOK, NEW o \in Orgs, NEW i \in Instances, NEW state \in PeerStates,
         SetState(o, i, state)
  PROVE  RowNow(o, i, Peer(state, peer[o][i].by, peer[o][i].caps))
<1>1. peer \in [Orgs -> [Instances -> Peers]] /\ peer[o][i] \in Peers
  BY DEF TrustTypeOK
<1>2. peer'[o][i] = [peer[o][i] EXCEPT !.state = state]
  BY <1>1 DEF SetState
<1>3. peer'[o][i] = Peer(state, peer[o][i].by, peer[o][i].caps)
  BY <1>1, <1>2 DEF Peer, Peers
<1>4. Peer(state, peer[o][i].by, peer[o][i].caps) \in Peers
  BY <1>1 DEF Peer, Peers
<1> QED  BY <1>1, <1>3, <1>4 DEF RowNow, SetState

(* A handled message is gone, or has fewer organizations to go.            *)
LEMMA HandledMail ==
  ASSUME TrustTypeOK, NEW m \in mail, NEW o
  PROVE  /\ Handled(m, o) \in SUBSET Messages
         /\ \A n \in Handled(m, o) :
              \/ n \in mail
              \/ /\ n.kind = m.kind /\ n.by = m.by /\ n.to = m.to /\ n.caps = m.caps
                 /\ n.todo \subseteq m.todo
<1> DEFINE left == [m EXCEPT !.todo = @ \ {o}]
<1>1. m \in Messages /\ mail \subseteq Messages
  BY DEF TrustTypeOK
<1>2. /\ left \in Messages /\ left.kind = m.kind /\ left.by = m.by
      /\ left.to = m.to /\ left.caps = m.caps /\ left.todo = m.todo \ {o}
  BY <1>1 DEF Messages
<1>3. \A n \in Handled(m, o) : n \in mail \/ n = left
  BY DEF Handled
<1> QED
  BY <1>1, <1>2, <1>3

(* granted only grows, and the two arguments of the invariant that are     *)
(* about rows need only be looked at where a row changed.                  *)
LEMMA RowChanged ==
  ASSUME TrustInv, NEW o \in Orgs, NEW i \in Instances, NEW row \in Peers,
         RowNow(o, i, row),
         granted \subseteq granted',
         row.state = "pending_outbound" => row.by = "local",
         row.state = "pending_inbound" => row.by = "remote",
         row.state = "active" =>
           \/ row.by = "local"
              /\ \E r \in Residents(i) : <<r, Home[o], row.caps>> \in granted'
           \/ row.by = "remote" /\ <<o, i, row.caps>> \in granted'
  PROVE  RowsAskedFor' /\ TrustAgreed'
<1>1. \A q \in Orgs, j \in Instances :
        \/ q = o /\ j = i /\ peer'[q][j] = row
        \/ peer'[q][j] = peer[q][j]
  BY DEF RowNow
<1>2. RowsAskedFor'
  BY <1>1 DEF TrustInv, RowsAskedFor
<1>3. ASSUME NEW q \in Orgs, NEW j \in Instances, peer'[q][j].state = "active"
      PROVE  \/ /\ peer'[q][j].by = "local"
                /\ \E r \in Residents(j) : <<r, Home[q], peer'[q][j].caps>> \in granted'
             \/ /\ peer'[q][j].by = "remote"
                /\ <<q, j, peer'[q][j].caps>> \in granted'
  <2>1. CASE q = o /\ j = i /\ peer'[q][j] = row
    BY <2>1, <1>3
  <2>2. CASE peer'[q][j] = peer[q][j]
    BY <2>2, <1>3 DEF TrustInv, TrustAgreed
  <2> QED  BY <2>1, <2>2, <1>1
<1>4. TrustAgreed'
  BY <1>3 DEF TrustAgreed, Residents
<1> QED  BY <1>2, <1>4

(* Where no row that was asked for changes who asked for it, messages and  *)
(* acts stay sound.                                                        *)
Askers(old, new) ==
  \A o \in Orgs, i \in Instances : old[o][i] # NoPeer => new[o][i].by = old[o][i].by

LEMMA StillGranted ==
  ASSUME TrustInv, Askers(peer, peer'), granted \subseteq granted', NEW n \in mail
  PROVE  /\ n.kind # "request" => <<n.by, n.to, n.caps>> \in granted'
         /\ n.kind = "applying" =>
              \A o \in n.todo : Home[o] = n.to /\ peer'[o][Home[n.by]].by = "local"
  BY TypedMail DEF TrustInv, MailGranted, Askers, NoPeer

LEMMA HandledGranted ==
  ASSUME TrustInv, Askers(peer, peer'), granted \subseteq granted',
         NEW m \in mail, NEW o, mail' = Handled(m, o)
  PROVE  MailGranted'
<1> SUFFICES ASSUME NEW n \in mail'
             PROVE  /\ n.kind # "request" => <<n.by, n.to, n.caps>> \in granted'
                    /\ n.kind = "applying" =>
                         \A q \in n.todo : Home[q] = n.to /\ peer'[q][Home[n.by]].by = "local"
  BY DEF MailGranted
<1>1. CASE n \in mail
  BY <1>1, StillGranted
<1>2. CASE /\ n.kind = m.kind /\ n.by = m.by /\ n.to = m.to /\ n.caps = m.caps
           /\ n.todo \subseteq m.todo
  BY <1>2, StillGranted
<1> QED
  BY <1>1, <1>2, HandledMail DEF TrustInv

LEMMA StillInbound ==
  ASSUME TrustInv, Askers(peer, peer'), NEW a \in acts
  PROVE  a.kind = "accept" => peer'[a.org][a.inst].by = "remote"
<1>1. a.org \in Orgs /\ a.inst \in Instances
  BY DEF TrustInv, TrustTypeOK, Acts
<1> QED
  BY <1>1 DEF TrustInv, ActsOnInbound, Askers, NoPeer

-----------------------------------------------------------------------------
(* The steps of Trust, one action each.                                    *)
LEMMA InitiateStep ==
  ASSUME TrustInv, NEW o \in Orgs, NEW i \in Instances,
         NEW caps \in SUBSET Capabilities, InitiateTrust(o, i, caps)
  PROVE  TrustInv'
<1> DEFINE row == Peer("pending_outbound", "local", {})
           request == [kind |-> "request", by |-> o, to |-> i, caps |-> caps,
                       todo |-> Residents(i)]
<1>1. /\ row \in Peers /\ row.state = "pending_outbound" /\ row.by = "local"
      /\ SetPeer(o, i, row) /\ peer[o][i] = NoPeer
      /\ mail' = mail \cup {request} /\ UNCHANGED <<acts, granted>>
      /\ admin < MaxAdmin /\ admin' = admin + 1
  BY RowTyped DEF InitiateTrust, AdminAsks, PeerStates
<1>r. RowNow(o, i, row)
  BY <1>1, RowReplaced DEF SetPeer, TrustInv
<1>2. request \in Messages /\ request.kind = "request"
  BY DEF Messages, Residents
<1>3. TrustTypeOK'
  BY <1>1, <1>2, <1>r, TrustAssumption DEF RowNow, TrustInv, TrustTypeOK
<1>4. RowsAskedFor' /\ TrustAgreed'
  BY <1>1, <1>r, RowChanged
<1>5. Askers(peer, peer')
  BY <1>1, <1>r DEF Askers, RowNow
<1>6. MailGranted'
  BY <1>1, <1>2, <1>5, StillGranted DEF MailGranted
<1>7. ActsOnInbound'
  BY <1>1, <1>5, StillInbound DEF ActsOnInbound
<1> QED  BY <1>3, <1>4, <1>6, <1>7 DEF TrustInv

LEMMA RequestStep ==
  ASSUME TrustInv, NEW m \in mail, NEW o \in m.todo, ReceiveRequest(m, o)
  PROVE  TrustInv'
<1> DEFINE i == Home[m.by]
           open == m.to \in OpenInstances
           row == Requested(peer[o][i], open, m.caps)
<1>1. /\ m.kind = "request" /\ mail' = Handled(m, o)
      /\ peer' = [peer EXCEPT ![o][i] = row]
      /\ granted' = IF open /\ peer[o][i] = NoPeer THEN granted \cup {<<o, i, m.caps>>}
                    ELSE granted
      /\ UNCHANGED <<acts, admin>>
  BY DEF ReceiveRequest, SetPeer
<1>2. o \in Orgs /\ i \in Instances /\ m.caps \in SUBSET Capabilities
  BY TypedMail DEF TrustInv
<1>3. peer[o][i] \in Peers
  BY <1>2, TypedRow DEF TrustInv
<1>4. CASE peer[o][i] # NoPeer
  <2>1. row = peer[o][i] /\ granted' = granted
    BY <1>1, <1>4 DEF Requested
  <2>2. peer' = peer
    BY <1>1, <1>2, <2>1 DEF TrustInv, TrustTypeOK
  <2>3. TrustTypeOK'
    BY <1>1, <2>1, <2>2, HandledMail DEF TrustInv, TrustTypeOK
  <2>4. MailGranted'
    BY <1>1, <2>1, <2>2, HandledGranted DEF Askers
  <2>5. peer' = peer /\ granted' = granted /\ acts' = acts
    BY <1>1, <2>1, <2>2
  <2>6. RowsAskedFor' /\ ActsOnInbound' /\ TrustAgreed'
    BY ONLY TrustInv, <2>5 DEF TrustInv, RowsAskedFor, ActsOnInbound, TrustAgreed, Residents
  <2> QED
    BY <2>3, <2>4, <2>6 DEF TrustInv
<1>5. CASE peer[o][i] = NoPeer
  <2>1. /\ row \in Peers /\ row.by = "remote"
        /\ row.state = IF open THEN "active" ELSE "pending_inbound"
        /\ open => row.caps = m.caps
    BY <1>2, <1>5, RowTyped DEF Requested, PeerStates
  <2>2. granted \subseteq granted' /\ (open => <<o, i, m.caps>> \in granted')
        /\ granted' \in SUBSET (Orgs \X Instances \X SUBSET Capabilities)
    BY <1>1, <1>2, <1>5 DEF TrustInv, TrustTypeOK
  <2>r. RowNow(o, i, row)
    BY <1>1, <1>2, <2>1, RowReplaced DEF TrustInv
  <2>3. TrustTypeOK'
    BY <1>1, <2>2, <2>r, HandledMail DEF TrustInv, TrustTypeOK, RowNow
  <2>4. RowsAskedFor' /\ TrustAgreed'
    BY <1>2, <2>1, <2>2, <2>r, RowChanged
  <2>5. Askers(peer, peer')
    BY <1>2, <1>5, <2>1, <2>r DEF Askers, RowNow
  <2>6. MailGranted'
    BY <1>1, <2>2, <2>5, HandledGranted
  <2>7. ActsOnInbound'
    BY <1>1, <2>5, StillInbound DEF ActsOnInbound
  <2> QED  BY <2>3, <2>4, <2>6, <2>7 DEF TrustInv
<1> QED  BY <1>4, <1>5

LEMMA ReadStep ==
  ASSUME TrustInv, NEW kind \in {"accept", "reject", "revoke"}, NEW o \in Orgs,
         NEW i \in Instances, ActReads(kind, o, i)
  PROVE  TrustInv'
<1> DEFINE act == [kind |-> kind, org |-> o, inst |-> i]
<1>1. /\ acts' = acts \cup {act} /\ act \in Acts /\ UNCHANGED <<peer, mail, granted>>
      /\ peer[o][i].state = Required(kind)
      /\ admin < MaxAdmin /\ admin' = admin + 1
  BY DEF ActReads, AdminAsks, Acts
<1>2. TrustTypeOK'
  BY <1>1, TrustAssumption DEF TrustInv, TrustTypeOK
<1>3. ActsOnInbound'
  BY <1>1 DEF TrustInv, ActsOnInbound, RowsAskedFor, Required
<1> QED
  BY <1>1, <1>2, <1>3 DEF TrustInv, MailGranted, RowsAskedFor, TrustAgreed, Residents

LEMMA WriteStep ==
  ASSUME TrustInv, NEW a \in acts, NEW caps \in SUBSET Capabilities,
         ActWrites(a, caps)
  PROVE  TrustInv'
<1> DEFINE o == a.org
           i == a.inst
           old == peer[o][i]
<1>1. o \in Orgs /\ i \in Instances /\ acts' = acts \ {a} /\ admin' = admin
  BY DEF ActWrites, TrustInv, TrustTypeOK, Acts
<1>2. old \in Peers /\ old.by \in {"none", "local", "remote"}
      /\ old.caps \in SUBSET Capabilities
  BY <1>1, TypedRow DEF TrustInv
<1>4. CASE a.kind = "accept"
  <2> DEFINE row == Peer("active", "remote", caps)
             accept == [kind |-> "accept", by |-> o, to |-> i, caps |-> caps, todo |-> {}]
  <2>1. old.by = "remote"
    BY <1>4 DEF TrustInv, ActsOnInbound
  <2>2. /\ row \in Peers /\ row.state = "active" /\ row.by = "remote" /\ row.caps = caps
    BY RowTyped DEF PeerStates
  <2>3. /\ peer' = [peer EXCEPT ![o][i].state = "active", ![o][i].caps = caps]
        /\ mail' = mail \cup {accept}
        /\ granted' = granted \cup {<<o, i, caps>>}
    BY <1>4 DEF ActWrites
  <2>4. RowNow(o, i, row)
    BY <1>1, <2>1, <2>3, ActivatedRow DEF TrustInv
  <2>5. TrustTypeOK'
    <3>1. accept \in Messages
      BY <1>1 DEF Messages
    <3>2. granted' \in SUBSET (Orgs \X Instances \X SUBSET Capabilities)
      BY <1>1, <2>3 DEF TrustInv, TrustTypeOK
    <3> QED  BY <1>1, <2>3, <2>4, <3>1, <3>2 DEF RowNow, TrustInv, TrustTypeOK
  <2>6. RowsAskedFor' /\ TrustAgreed'
    BY <1>1, <2>2, <2>3, <2>4, RowChanged
  <2>7. Askers(peer, peer')
    BY <1>1, <2>1, <2>2, <2>4 DEF Askers, RowNow
  <2>8. MailGranted'
    <3>1. accept.kind = "accept" /\ accept.by = o /\ accept.to = i /\ accept.caps = caps
      OBVIOUS
    <3> QED  BY <2>3, <2>7, <3>1, StillGranted DEF MailGranted
  <2>9. ActsOnInbound'
    BY <1>1, <2>3, <2>7, StillInbound DEF ActsOnInbound
  <2> QED  BY <2>5, <2>6, <2>8, <2>9 DEF TrustInv
<1>5. CASE a.kind # "accept"
  <2> DEFINE state == IF a.kind = "reject" THEN "rejected" ELSE "revoked"
             row == Peer(state, old.by, old.caps)
  <2>1. row \in Peers /\ row.state = state /\ row.by = old.by
    BY <1>2, RowTyped DEF PeerStates
  <2>2. SetState(o, i, state) /\ UNCHANGED <<mail, granted>>
    BY <1>5 DEF ActWrites
  <2>3. RowNow(o, i, row)
    BY <1>1, <2>1, <2>2, ClosedRow DEF TrustInv, PeerStates
  <2>4. TrustTypeOK'
    BY <1>1, <2>1, <2>2, <2>3 DEF RowNow, TrustInv, TrustTypeOK
  <2>5. RowsAskedFor' /\ TrustAgreed'
    BY <1>1, <2>1, <2>2, <2>3, RowChanged
  <2>6. Askers(peer, peer')
    BY <1>1, <2>1, <2>3 DEF Askers, RowNow
  <2>7. MailGranted'
    BY <2>2, <2>6, StillGranted DEF MailGranted
  <2>8. ActsOnInbound'
    BY <1>1, <2>6, StillInbound DEF ActsOnInbound
  <2> QED  BY <2>4, <2>5, <2>7, <2>8 DEF TrustInv
<1> QED  BY <1>4, <1>5

LEMMA AcceptStep ==
  ASSUME TrustInv, NEW m \in mail, ReceiveAccept(m)
  PROVE  TrustInv'
<1> DEFINE found == AwaitingAccept(m.to, Home[m.by])
           applying == [m EXCEPT !.kind = "applying", !.todo = found]
<1>1. /\ m.kind = "accept" /\ UNCHANGED <<peer, acts, admin, granted>>
      /\ \A n \in mail' : n \in mail \/ n = applying
  BY DEF ReceiveAccept
<1>2. /\ applying \in Messages /\ applying.by = m.by /\ applying.to = m.to
      /\ applying.caps = m.caps /\ applying.todo = found
  BY TypedMail DEF TrustInv, Messages, AwaitingAccept, Residents
<1>3. \A o \in found : Home[o] = m.to /\ peer[o][Home[m.by]].by = "local"
  BY TypedMail DEF TrustInv, RowsAskedFor, AwaitingAccept, Residents
<1>4. TrustTypeOK'
  BY <1>1, <1>2 DEF TrustInv, TrustTypeOK
<1>5. MailGranted'
  BY ZenonT(90), <1>1, <1>2, <1>3 DEF TrustInv, MailGranted
<1> QED
  BY <1>1, <1>4, <1>5 DEF TrustInv, RowsAskedFor, ActsOnInbound, TrustAgreed, Residents

LEMMA ApplyStep ==
  ASSUME TrustInv, NEW m \in mail, NEW o \in m.todo, ApplyAccept(m, o)
  PROVE  TrustInv'
<1> DEFINE i == Home[m.by]
           row == Peer("active", "local", m.caps)
<1>1. /\ m.kind = "applying" /\ mail' = Handled(m, o)
      /\ peer' = [peer EXCEPT ![o][i].state = "active", ![o][i].caps = m.caps]
      /\ UNCHANGED <<acts, admin, granted>>
  BY DEF ApplyAccept
<1>2. /\ o \in Orgs /\ i \in Instances /\ m.caps \in SUBSET Capabilities
      /\ m.by \in Orgs
  BY TypedMail DEF TrustInv
<1>3. Home[o] = m.to /\ peer[o][i].by = "local" /\ <<m.by, m.to, m.caps>> \in granted
  BY <1>1 DEF TrustInv, MailGranted
<1>4. /\ row \in Peers /\ row.state = "active" /\ row.by = "local" /\ row.caps = m.caps
  BY <1>2, RowTyped DEF PeerStates
<1>5. RowNow(o, i, row)
  BY <1>1, <1>2, <1>3, ActivatedRow DEF TrustInv
<1>6. TrustTypeOK'
  BY <1>1, <1>2, <1>4, <1>5, HandledMail DEF RowNow, TrustInv, TrustTypeOK
<1>7. m.by \in Residents(i) /\ <<m.by, Home[o], row.caps>> \in granted'
  BY <1>1, <1>2, <1>3, <1>4 DEF Residents
<1>8. RowsAskedFor' /\ TrustAgreed'
  BY <1>1, <1>2, <1>4, <1>5, <1>7, RowChanged
<1>9. Askers(peer, peer')
  BY <1>2, <1>3, <1>4, <1>5 DEF Askers, RowNow
<1>10. MailGranted'
  BY <1>1, <1>9, HandledGranted
<1>11. ActsOnInbound'
  BY <1>1, <1>9, StillInbound DEF ActsOnInbound
<1> QED  BY <1>6, <1>8, <1>10, <1>11 DEF TrustInv

LEMMA TrustStep ==
  ASSUME TrustInv, TrustNext \/ UNCHANGED trustVars
  PROVE  TrustInv'
<1> DEFINE Same == UNCHANGED <<peer, granted>> /\ mail' \subseteq mail /\ acts' \subseteq acts
                   /\ admin' = admin
<1>1. ASSUME Same PROVE TrustInv'
  BY <1>1 DEF TrustInv, TrustTypeOK, MailGranted, RowsAskedFor, ActsOnInbound,
              TrustAgreed, Residents
<1>2. CASE \E m \in mail : Lose(m)
  BY <1>1, <1>2 DEF Lose
<1>3. CASE \E a \in acts : ActFails(a)
  BY <1>1, <1>3 DEF ActFails
<1>4. CASE UNCHANGED trustVars
  BY <1>1, <1>4 DEF trustVars
<1> QED
  BY <1>2, <1>3, <1>4, InitiateStep, RequestStep, ReadStep, WriteStep, AcceptStep,
     ApplyStep DEF TrustNext

LEMMA TrustBegins == TrustInit => TrustInv
  BY TrustAssumption DEF TrustInit, TrustInv, TrustTypeOK, MailGranted, RowsAskedFor,
     ActsOnInbound, TrustAgreed, NoPeer, Peers, PeerStates

(* However requests, accepts, rejections and revocations of any number of  *)
(* organizations interleave and get lost, an active row carries what the   *)
(* other side, or this one, has granted (trust.service.ts).                *)
THEOREM TrustIsAgreed == TrustSpec => []TrustAgreed
<1>1. TrustInv /\ [TrustNext]_trustVars => TrustInv'
  BY TrustStep
<1>2. TrustInv => TrustAgreed
  BY DEF TrustInv
<1> QED
  BY <1>1, <1>2, TrustBegins, PTL DEF TrustSpec

-----------------------------------------------------------------------------
(* The types of Migration's own variables.                                 *)
MigTypeOK ==
  /\ work \in [Pieces -> {"absent", "closed", "active", "revise"}]
  /\ out \in [Migrations -> OutStatuses]
  /\ inn \in [Migrations -> InStatuses]
  /\ asks \in SUBSET Requests
  /\ run \in [Approvals -> Runs]
  /\ deciding \in SUBSET Decisions
  /\ imported \in SUBSET Pieces
  /\ notices \in SUBSET Migrations /\ leaving \in SUBSET Migrations
  /\ moved \in BOOLEAN /\ disturbances \in 0..MaxDisturbances
  /\ packed \in [Migrations -> SUBSET Bundles]
  /\ lost \in SUBSET Migrations

LEMMA Statuses ==
  /\ {"PENDING_APPROVAL", "BUNDLE_SENT", "COMPLETED", "FAILED", "REJECTED", "CANCELLED"}
       \subseteq OutStatuses
  /\ {"PENDING", "PROCESSING", "CANCELLED"} \subseteq InStatuses
  BY DEF OutStatuses, InStatuses

Stages == {"idle", "pack", "post", "acked", "refused", "closed", "active", "mark"}

LEMMA TypedRun ==
  ASSUME NEW r \in Runs
  PROVE  /\ r.pc \in Stages /\ r.m \in Migrations /\ r.waiting \in BOOLEAN
         /\ r.bundle \in Bundles
         /\ r.bundle["closed"] \in SUBSET Pieces /\ r.bundle["active"] \in SUBSET Pieces
  BY DEF Runs, Importing, Kinds, Bundles, Stages

LEMMA IdleTyped == Idle \in Runs /\ Idle.pc = "idle" /\ Idle.waiting = FALSE
<1>1. (CHOOSE m \in Migrations : TRUE) \in Migrations
  BY MigrationAssumption
<1>2. NoBundle \in Bundles
  BY DEF NoBundle, Bundles
<1> QED  BY <1>1, <1>2 DEF Idle, Runs

LEMMA NextStage ==
  ASSUME NEW r \in Runs, NEW pc \in Stages
  PROVE  /\ [r EXCEPT !.pc = pc] \in Runs
         /\ [r EXCEPT !.pc = pc].pc = pc
         /\ [r EXCEPT !.pc = pc].m = r.m
         /\ [r EXCEPT !.pc = pc].bundle = r.bundle
         /\ [r EXCEPT !.waiting = FALSE] \in Runs
         /\ [r EXCEPT !.waiting = FALSE].pc = r.pc
         /\ [r EXCEPT !.waiting = FALSE].m = r.m
         /\ [r EXCEPT !.waiting = FALSE].bundle = r.bundle
  BY DEF Runs, Importing, Kinds, Stages

LEMMA Answered ==
  ASSUME NEW r \in Runs, NEW pc \in Stages
  PROVE  /\ Answer(r, pc) \in Runs
         /\ \/ Answer(r, pc).pc = "idle"
            \/ /\ Answer(r, pc).pc = pc /\ Answer(r, pc).m = r.m
               /\ Answer(r, pc).bundle = r.bundle
  BY NextStage, IdleTyped DEF Answer

(* One approval goes on with r.                                            *)
RunNow(p, r) ==
  /\ run' \in [Approvals -> Runs]
  /\ run'[p] = r
  /\ \A q \in Approvals : q # p => run'[q] = run[q]

LEMMA RunSet ==
  ASSUME MigTypeOK, NEW p \in Approvals, NEW r \in Runs, Set(p, r)
  PROVE  RunNow(p, r)
  BY DEF MigTypeOK, Set, RunNow

LEMMA RunGoes ==
  ASSUME MigTypeOK, NEW p \in Approvals, NEW pc \in Stages, Goto(p, pc)
  PROVE  RunNow(p, [run[p] EXCEPT !.pc = pc])
<1>1. run[p] \in Runs /\ run \in [Approvals -> Runs]
  BY DEF MigTypeOK
<1> QED
  BY <1>1, NextStage DEF Goto, RunNow

(* What WorkArrived rests on: an approval knows a bundle that was          *)
(* assembled for its migration and imports all of it before the mark; what *)
(* says that a migration is done at the destination says so of one whose   *)
(* work has arrived.                                                       *)
Honest(p) ==
  /\ run[p].pc \notin {"idle", "pack"} => run[p].bundle \in packed[run[p].m]
  /\ run[p].pc \in {"active", "mark"} => run[p].bundle["closed"] \subseteq imported
  /\ run[p].pc = "mark" => run[p].bundle["active"] \subseteq imported
  /\ run[p].pc = "acked" => Arrived(run[p].m)

RunsHonest == \A p \in Approvals : Honest(p)

ReportsTrue ==
  \A m \in Migrations :
    inn[m] = "PROCESSING" \/ m \in notices \/ m \in leaving => Arrived(m)

MigInv == MigTypeOK /\ RunsHonest /\ ReportsTrue /\ WorkArrived

Grows ==
  /\ \A m \in Migrations : packed[m] \subseteq packed'[m]
  /\ imported \subseteq imported'

LEMMA ArrivedStays ==
  ASSUME Grows, NEW m \in Migrations, Arrived(m)
  PROVE  Arrived(m)'
  BY DEF Grows, Arrived

LEMMA HonestStays ==
  ASSUME MigInv, Grows, NEW p \in Approvals, run'[p] = run[p]
  PROVE  Honest(p)'
<1>1. run[p].m \in Migrations
  BY TypedRun DEF MigInv, MigTypeOK
<1>2. run[p].pc = "acked" => Arrived(run[p].m)'
  BY <1>1, ArrivedStays DEF MigInv, RunsHonest, Honest, Arrived
<1> QED
  BY <1>1, <1>2 DEF MigInv, RunsHonest, Honest, Grows, Arrived

LEMMA RunMoves ==
  ASSUME MigInv, Grows, NEW p \in Approvals, NEW r \in Runs, RunNow(p, r),
         r.pc \notin {"idle", "pack"} => r.bundle \in packed'[r.m],
         r.pc \in {"active", "mark"} => r.bundle["closed"] \subseteq imported',
         r.pc = "mark" => r.bundle["active"] \subseteq imported',
         r.pc = "acked" => \E b \in packed'[r.m] : Contents(b) \subseteq imported'
  PROVE  RunsHonest'
<1> SUFFICES ASSUME NEW q \in Approvals PROVE Honest(q)'
  BY DEF RunsHonest
<1>1. CASE q = p
  BY <1>1 DEF RunNow, Honest, Arrived
<1>2. CASE q # p
  BY <1>2, HonestStays DEF RunNow
<1> QED  BY <1>1, <1>2

LEMMA RunsStay ==
  ASSUME MigInv, Grows, run' = run
  PROVE  RunsHonest'
  BY HonestStays DEF RunsHonest

LEMMA ReportsStay ==
  ASSUME MigInv, Grows,
         \A m \in Migrations :
           inn'[m] = "PROCESSING" \/ m \in notices' \/ m \in leaving' =>
             \/ inn[m] = "PROCESSING" \/ m \in notices \/ m \in leaving
             \/ Arrived(m)'
  PROVE  ReportsTrue'
  BY ArrivedStays DEF MigInv, ReportsTrue, Arrived

LEMMA WorkStays ==
  ASSUME MigInv, Grows,
         \A m \in Migrations :
           out'[m] \in {"BUNDLE_SENT", "COMPLETED"} =>
             out[m] \in {"BUNDLE_SENT", "COMPLETED"} \/ Arrived(m)',
         moved' => moved \/ \E m \in Migrations : Arrived(m)'
  PROVE  WorkArrived'
  BY ArrivedStays DEF MigInv, WorkArrived, Arrived

(* Steps that neither import, nor report, nor move an approval: the writer,*)
(* the request, and decisions against the migration.                       *)
LEMMA AskingStep ==
  ASSUME MigInv, NEW m \in Migrations, AskChecks(m) \/ AskInserts(m) \/ AskAnswered(m) \/ CompleteDies(m)
  PROVE  MigInv'
<1>1. MigTypeOK'
  <2>1. CASE AskChecks(m)
    <3>1. disturbances' \in 0..MaxDisturbances
      BY <2>1, MigrationAssumption DEF AskChecks, Disturbance, MigInv, MigTypeOK
    <3>2. asks' \in SUBSET Requests
      BY <2>1 DEF AskChecks, Requests, MigInv, MigTypeOK
    <3> QED  BY <2>1, <3>1, <3>2 DEF AskChecks, MigInv, MigTypeOK
  <2>2. CASE AskInserts(m) \/ AskAnswered(m) \/ CompleteDies(m)
    BY <2>2, Statuses DEF MigInv, MigTypeOK, Requests, AskInserts, AskAnswered,
       CompleteDies, SetOut, SetIn
  <2> QED  BY <2>1, <2>2
<1>2. Grows /\ UNCHANGED <<run, moved, packed, imported>>
  BY DEF Grows, AskChecks, AskInserts, AskAnswered, CompleteDies
<1>3. RunsHonest'
  BY <1>2, RunsStay
<1>4. ReportsTrue'
  BY <1>2, ReportsStay DEF MigInv, MigTypeOK, AskChecks, AskInserts, AskAnswered, CompleteDies, SetIn
<1>5. WorkArrived'
  BY <1>2, WorkStays DEF MigInv, MigTypeOK, AskChecks, AskInserts, AskAnswered, CompleteDies, SetOut
<1> QED  BY <1>1, <1>3, <1>4, <1>5 DEF MigInv

LEMMA WorksStep ==
  ASSUME MigInv, NEW s \in Pieces, Works(s)
  PROVE  MigInv'
<1>1. MigTypeOK'
  BY MigrationAssumption DEF MigInv, MigTypeOK, Works, Disturbance
<1>2. Grows /\ UNCHANGED <<run, out, inn, notices, leaving, moved>>
  BY DEF Grows, Works
<1> QED  BY <1>1, <1>2, RunsStay, ReportsStay, WorkStays DEF MigInv

LEMMA DecideStep ==
  ASSUME MigInv, NEW kind \in {"reject", "cancel", "cancel_inbound"},
         NEW m \in Migrations, DecideReads(kind, m) \/ DecideWrites(kind, m)
  PROVE  MigInv'
<1>1. MigTypeOK'
  <2>1. CASE DecideReads(kind, m)
    BY <2>1, MigrationAssumption
       DEF MigInv, MigTypeOK, DecideReads, Disturbance, Decisions
  <2>2. CASE DecideWrites(kind, m)
    BY <2>2, Statuses DEF MigInv, MigTypeOK, DecideWrites, SetOut, SetIn
  <2> QED  BY <2>1, <2>2
<1>2. Grows /\ UNCHANGED <<run, notices, leaving, moved>>
  BY DEF Grows, DecideReads, DecideWrites
<1>3. /\ \A n \in Migrations : inn'[n] = "PROCESSING" => inn[n] = "PROCESSING"
      /\ \A n \in Migrations : out'[n] \in {"BUNDLE_SENT", "COMPLETED"} => out'[n] = out[n]
  BY DEF MigInv, MigTypeOK, DecideReads, DecideWrites, SetOut, SetIn
<1> QED  BY <1>1, <1>2, <1>3, RunsStay, ReportsStay, WorkStays DEF MigInv

-----------------------------------------------------------------------------
(* The approvals.                                                          *)
LEMMA PackStep ==
  ASSUME MigInv, NEW p \in Approvals,
         Pack(p) \/ \E m \in Migrations : Approve(p, m)
  PROVE  MigInv'
<1>t. run[p] \in Runs /\ run \in [Approvals -> Runs] /\ run[p].m \in Migrations
  BY TypedRun DEF MigInv, MigTypeOK
<1>1. ASSUME NEW m \in Migrations, Approve(p, m) PROVE MigInv'
  <2> DEFINE r == [Idle EXCEPT !.pc = "pack", !.m = m, !.waiting = TRUE]
  <2>1. r \in Runs /\ r.pc = "pack"
    BY IdleTyped DEF Runs
  <2>2. RunNow(p, r)
    BY <1>1, <2>1, RunSet DEF Approve, MigInv
  <2>3. Grows /\ UNCHANGED <<out, inn, notices, leaving, moved>>
    BY <1>1 DEF Grows, Approve
  <2>4. MigTypeOK'
    BY <1>1, <2>2 DEF MigInv, MigTypeOK, Approve, RunNow
  <2> HIDE DEF r
  <2> QED  BY <2>1, <2>2, <2>3, <2>4, RunMoves, ReportsStay, WorkStays DEF MigInv
<1>2. CASE Pack(p)
  <2> DEFINE r == [run[p] EXCEPT !.pc = "post", !.bundle = Assembled]
  <2>1. Assembled \in Bundles
    BY DEF Assembled, Bundles
  <2>2. r \in Runs /\ r.pc = "post" /\ r.m = run[p].m /\ r.bundle = Assembled
    BY <1>t, <2>1 DEF Runs
  <2>3. RunNow(p, r)
    BY <1>t, <1>2, <2>2 DEF Pack, RunNow
  <2>4. packed' = [packed EXCEPT ![run[p].m] = @ \cup {Assembled}]
    BY <1>2 DEF Pack
  <2>5. Assembled \in packed'[run[p].m]
    BY <1>t, <2>4 DEF MigInv, MigTypeOK
  <2>6. Grows /\ UNCHANGED <<out, inn, notices, leaving, moved>>
    BY <1>2, <2>4 DEF Grows, Pack, MigInv, MigTypeOK
  <2>7. MigTypeOK'
    BY <1>2, <1>t, <2>1, <2>3, <2>4 DEF MigInv, MigTypeOK, Pack, RunNow
  <2> HIDE DEF r
  <2> QED  BY <2>2, <2>3, <2>5, <2>6, <2>7, RunMoves, ReportsStay, WorkStays DEF MigInv
<1> QED  BY <1>1, <1>2

LEMMA DeliverStep ==
  ASSUME MigInv, NEW p \in Approvals, Deliver(p)
  PROVE  MigInv'
<1> DEFINE r == run[p]
           next == DeliveryAnswer(r.m)
           to == IF next = "closed" THEN [r EXCEPT !.pc = next] ELSE Answer(r, next)
<1>t. r \in Runs /\ r.m \in Migrations
  BY TypedRun DEF MigInv, MigTypeOK
<1>1. /\ r.pc = "post" /\ Set(p, to)
      /\ UNCHANGED <<work, out, inn, asks, deciding, imported, notices, leaving, moved,
                     disturbances, packed, lost>>
  BY DEF Deliver
<1>2. /\ next \in {"refused", "closed", "acked"}
      /\ next = "acked" => inn[r.m] = "PROCESSING"
  BY DEF DeliveryAnswer
<1>3. /\ to \in Runs
      /\ to.pc \in {"idle", "refused", "closed", "acked"}
      /\ to.pc = "acked" => next = "acked"
      /\ to.pc # "idle" => to.m = r.m /\ to.bundle = r.bundle
  <2> HIDE DEF next
  <2>1. next \in Stages
    BY <1>2 DEF Stages
  <2> QED  BY ZenonT(60), <1>t, <1>2, <2>1, NextStage, Answered
<1> HIDE DEF to
<1>4. RunNow(p, to)
  BY <1>1, <1>3, RunSet DEF MigInv
<1>5. Grows
  BY <1>1 DEF Grows
<1>6. to.pc \notin {"idle", "pack"} => to.bundle \in packed'[to.m]
  BY <1>1, <1>3 DEF MigInv, RunsHonest, Honest
<1>7. to.pc = "acked" => \E b \in packed'[to.m] : Contents(b) \subseteq imported'
  BY <1>t, <1>1, <1>2, <1>3 DEF MigInv, ReportsTrue, Arrived
<1>8. RunsHonest'
  BY <1>3, <1>4, <1>5, <1>6, <1>7, RunMoves
<1>9. MigTypeOK'
  BY <1>1, <1>4 DEF MigInv, MigTypeOK, RunNow
<1> QED  BY <1>1, <1>5, <1>8, <1>9, ReportsStay, WorkStays DEF MigInv

LEMMA ImportStep ==
  ASSUME MigInv, NEW p \in Approvals, Import(p)
  PROVE  MigInv'
<1> DEFINE r == run[p]
           next == IF r.pc = "closed" THEN "active" ELSE "mark"
           to == [r EXCEPT !.pc = next]
<1>t. r \in Runs /\ r.bundle["closed"] \in SUBSET Pieces /\ r.bundle["active"] \in SUBSET Pieces
  BY TypedRun DEF MigInv, MigTypeOK
<1>1. /\ r.pc \in {"closed", "active"} /\ imported' = imported \cup r.bundle[r.pc]
      /\ Goto(p, next)
      /\ UNCHANGED <<work, out, inn, asks, deciding, notices, leaving, moved,
                     disturbances, packed, lost>>
  BY DEF Import, Kinds
<1>2. next \in Stages
  BY DEF Stages
<1>3. to \in Runs /\ to.pc = next /\ to.m = r.m /\ to.bundle = r.bundle
  BY <1>t, <1>2, NextStage
<1>4. RunNow(p, to)
  BY <1>1, <1>2, RunGoes DEF MigInv
<1>5. Grows
  BY <1>1 DEF Grows
<1>6. /\ r.bundle \in packed[r.m]
      /\ r.pc = "active" => r.bundle["closed"] \subseteq imported
  BY <1>1 DEF MigInv, RunsHonest, Honest
<1> HIDE DEF to
<1>7. RunsHonest'
  <2>1. to.bundle \in packed'[to.m]
    BY <1>1, <1>3, <1>6
  <2>2. to.bundle["closed"] \subseteq imported'
    BY <1>1, <1>3, <1>6
  <2>3. to.pc = "mark" => to.bundle["active"] \subseteq imported'
    BY <1>1, <1>3
  <2> QED  BY <1>3, <1>4, <1>5, <2>1, <2>2, <2>3, RunMoves
<1>8. MigTypeOK'
  BY <1>t, <1>1, <1>4 DEF MigInv, MigTypeOK, RunNow
<1> QED  BY <1>1, <1>5, <1>7, <1>8, ReportsStay, WorkStays DEF MigInv

LEMMA MarkStep ==
  ASSUME MigInv, NEW p \in Approvals, MarkProcessing(p)
  PROVE  MigInv'
<1> DEFINE r == run[p]
           to == Answer(r, "acked")
<1>t. r \in Runs /\ r.m \in Migrations
  BY TypedRun DEF MigInv, MigTypeOK
<1>1. /\ r.pc = "mark" /\ inn' = [inn EXCEPT ![r.m] = "PROCESSING"]
      /\ notices' = notices \cup {r.m} /\ Set(p, to)
      /\ UNCHANGED <<work, out, asks, deciding, imported, leaving, moved,
                     disturbances, packed, lost>>
  BY DEF MarkProcessing, SetIn, Notify
<1>2. /\ to \in Runs /\ to.pc \in {"idle", "acked"}
      /\ to.pc = "acked" => to.m = r.m /\ to.bundle = r.bundle
  BY <1>t, Answered DEF Stages
<1> HIDE DEF to
<1>3. RunNow(p, to)
  BY <1>1, <1>2, RunSet DEF MigInv
<1>4. Grows
  BY <1>1 DEF Grows
<1>5. r.bundle \in packed'[r.m] /\ Contents(r.bundle) \subseteq imported'
  BY <1>1 DEF MigInv, RunsHonest, Honest, Contents
<1>6. RunsHonest'
  BY <1>2, <1>3, <1>4, <1>5, RunMoves
<1>7. MigTypeOK'
  BY <1>t, <1>1, <1>3, Statuses DEF MigInv, MigTypeOK, RunNow
<1>8. ReportsTrue'
  <2>1. \A n \in Migrations : n = r.m => Arrived(n)'
    BY <1>5 DEF Arrived
  <2> QED  BY <1>t, <1>1, <1>4, <2>1, ReportsStay DEF MigInv, MigTypeOK
<1> QED  BY <1>1, <1>4, <1>6, <1>7, <1>8, WorkStays DEF MigInv

LEMMA FaultStep ==
  ASSUME MigInv, NEW p \in Approvals,
         HandlerFails(p) \/ OriginGivesUp(p) \/ PostLost(p)
  PROVE  MigInv'
<1> DEFINE r == run[p]
<1>t. r \in Runs
  BY DEF MigInv, MigTypeOK
<1>1. /\ disturbances < MaxDisturbances /\ disturbances' = disturbances + 1
      /\ UNCHANGED <<work, out, inn, asks, deciding, imported, notices, leaving, moved,
                     packed, lost>>
  BY DEF HandlerFails, OriginGivesUp, PostLost, Disturbance
<1>2. Grows
  BY <1>1 DEF Grows
<1>3. PICK to \in Runs :
        /\ Set(p, to)
        /\ \/ to.pc = "idle"
           \/ /\ to.pc \in {r.pc, "refused"} /\ to.m = r.m /\ to.bundle = r.bundle
              /\ r.pc = "post" \/ r.pc \in Importing
  <2> DEFINE Follows(to) ==
        \/ to.pc = "idle"
        \/ /\ to.pc \in {r.pc, "refused"} /\ to.m = r.m /\ to.bundle = r.bundle
           /\ r.pc = "post" \/ r.pc \in Importing
  <2> SUFFICES \E to \in Runs : Set(p, to) /\ Follows(to)
    OBVIOUS
  <2>1. CASE PostLost(p)
    BY <2>1, IdleTyped DEF PostLost
  <2>2. CASE HandlerFails(p)
    <3>1. Answer(r, "refused") \in Runs /\ Follows(Answer(r, "refused"))
      BY <1>t, <2>2, Answered DEF HandlerFails, Stages
    <3> QED  BY <2>2, <3>1 DEF HandlerFails
  <2>3. CASE OriginGivesUp(p)
    <3>1. CASE r.pc = "post" \/ r.pc \in Importing
      <4> DEFINE to == [r EXCEPT !.waiting = FALSE]
      <4>1. to \in Runs /\ Follows(to)
        BY <1>t, <3>1 DEF Runs
      <4> QED  BY <2>3, <3>1, <4>1 DEF OriginGivesUp
    <3>2. CASE ~(r.pc = "post" \/ r.pc \in Importing)
      BY <2>3, <3>2, IdleTyped DEF OriginGivesUp
    <3> QED  BY <3>1, <3>2
  <2> QED  BY <2>1, <2>2, <2>3
<1>4. RunNow(p, to)
  BY <1>3, RunSet DEF MigInv
<1>5. RunsHonest'
  <2>1. Honest(p)
    BY DEF MigInv, RunsHonest
  <2> QED  BY <1>1, <1>2, <1>3, <1>4, <2>1, RunMoves DEF Honest, Importing, Kinds
<1>6. MigTypeOK'
  BY <1>1, <1>4, MigrationAssumption DEF MigInv, MigTypeOK, RunNow
<1> QED  BY <1>1, <1>2, <1>5, <1>6, ReportsStay, WorkStays DEF MigInv

LEMMA AnsweredStep ==
  ASSUME MigInv, NEW p \in Approvals, BundleSent(p) \/ BundleRefused(p)
  PROVE  MigInv'
<1> DEFINE m == run[p].m
<1>t. m \in Migrations
  BY TypedRun DEF MigInv, MigTypeOK
<1>1. /\ Set(p, Idle)
      /\ UNCHANGED <<work, inn, asks, deciding, imported, notices, leaving, moved,
                     disturbances, packed, lost>>
      /\ \/ out' = out
         \/ out' = [out EXCEPT ![m] = "FAILED"]
         \/ out' = [out EXCEPT ![m] = "BUNDLE_SENT"] /\ run[p].pc = "acked"
  BY DEF BundleSent, BundleRefused, SetOut
<1>2. Grows
  BY <1>1 DEF Grows
<1>3. RunNow(p, Idle)
  BY <1>1, IdleTyped, RunSet DEF MigInv
<1>4. RunsHonest'
  BY <1>2, <1>3, IdleTyped, RunMoves
<1>5. MigTypeOK'
  BY <1>t, <1>1, <1>3, Statuses DEF MigInv, MigTypeOK, RunNow
<1>6. \A n \in Migrations :
        out'[n] \in {"BUNDLE_SENT", "COMPLETED"} =>
          out[n] \in {"BUNDLE_SENT", "COMPLETED"} \/ Arrived(n)'
  <2>1. run[p].pc = "acked" => Arrived(m)
    BY DEF MigInv, RunsHonest, Honest
  <2> QED  BY <1>t, <1>1, <1>2, <2>1 DEF MigInv, MigTypeOK, Arrived
<1> QED  BY <1>1, <1>2, <1>4, <1>5, <1>6, ReportsStay, WorkStays DEF MigInv

LEMMA NoticeStep ==
  ASSUME MigInv, NEW m \in Migrations, Noticing(m) \/ CompleteWrites(m)
  PROVE  MigInv'
<1>1. /\ UNCHANGED <<work, inn, asks, run, deciding, imported, disturbances, packed>>
      /\ notices' \subseteq notices /\ lost' \subseteq lost \cup {m}
      /\ leaving' \subseteq leaving \cup {m}
      /\ m \in notices \/ m \in leaving
      /\ out' = out \/ out' = [out EXCEPT ![m] = "COMPLETED"]
      /\ moved' \in {moved, TRUE}
  BY DEF Noticing, Complete, NoticeLost, CompleteWrites, SetOut
<1>2. Grows
  BY <1>1 DEF Grows
<1>3. Arrived(m)'
  BY <1>1, <1>2, ArrivedStays DEF MigInv, ReportsTrue
<1>4. RunsHonest'
  BY <1>1, <1>2, RunsStay
<1>5. MigTypeOK'
  BY <1>1, Statuses DEF MigInv, MigTypeOK
<1>6. ReportsTrue'
  BY <1>1, <1>2, <1>3, ReportsStay
<1>7. WorkArrived'
  BY <1>1, <1>2, <1>3, WorkStays DEF MigInv, MigTypeOK
<1> QED  BY <1>4, <1>5, <1>6, <1>7 DEF MigInv

-----------------------------------------------------------------------------
LEMMA MigBegins ==
  ASSUME Init
  PROVE  MigInv
<1>1. MigTypeOK
  <2>1. work \in [Pieces -> {"absent", "closed", "active", "revise"}]
    BY DEF Init
  <2>2. out \in [Migrations -> OutStatuses] /\ inn \in [Migrations -> InStatuses]
    BY DEF Init, OutStatuses, InStatuses
  <2>3. run \in [Approvals -> Runs] /\ packed \in [Migrations -> SUBSET Bundles]
    BY IdleTyped DEF Init
  <2>4. disturbances \in 0..MaxDisturbances
    BY MigrationAssumption DEF Init
  <2> QED  BY <2>1, <2>2, <2>3, <2>4 DEF Init, MigTypeOK
<1>2. RunsHonest /\ ReportsTrue /\ WorkArrived
  BY IdleTyped DEF Init, RunsHonest, Honest, ReportsTrue, WorkArrived
<1> QED  BY <1>1, <1>2 DEF MigInv

LEMMA MigStep ==
  ASSUME MigInv, Migrating \/ UNCHANGED migVars
  PROVE  MigInv'
<1>1. CASE UNCHANGED migVars
  <2>1. Grows /\ UNCHANGED <<run, out, inn, notices, leaving, moved>>
    BY <1>1 DEF migVars, Grows
  <2>2. MigTypeOK'
    BY <1>1 DEF migVars, MigInv, MigTypeOK
  <2> QED  BY <2>1, <2>2, RunsStay, ReportsStay, WorkStays DEF MigInv
<1>2. CASE Migrating
  BY <1>2, WorksStep, AskingStep, DecideStep, PackStep, DeliverStep, ImportStep,
     MarkStep, FaultStep, AnsweredStep, NoticeStep DEF Migrating, Running
<1> QED  BY <1>1, <1>2

(* Migration composes Trust: its steps leave the rows alone, and those of  *)
(* Trust leave the migrations alone.                                       *)
Inv == TrustInv /\ MigInv

LEMMA InvBegins == Init => Inv
  BY TrustBegins, MigBegins DEF Init, Inv

LEMMA InvStep ==
  ASSUME Inv, [Next]_vars
  PROVE  Inv'
<1>1. CASE Migrating
  <2>1. UNCHANGED trustVars
    BY <1>1 DEF Migrating, Running, Noticing, Works, AskChecks, AskInserts, AskAnswered, Approve, Pack,
       Deliver, Import, MarkProcessing, HandlerFails, OriginGivesUp, PostLost,
       BundleSent, BundleRefused, DecideReads, DecideWrites, Complete, CompleteWrites,
       CompleteDies, NoticeLost
  <2> QED  BY <1>1, <2>1, TrustStep, MigStep DEF Inv
<1>2. CASE TrustNext /\ UNCHANGED migVars
  BY <1>2, TrustStep, MigStep DEF Inv
<1>3. CASE UNCHANGED vars
  BY <1>3, TrustStep, MigStep DEF Inv, vars
<1> QED  BY <1>1, <1>2, <1>3 DEF Next

LEMMA InvAlways == Spec => []Inv
  BY InvBegins, InvStep, PTL DEF Spec

(* Every variable of Trust and Migration keeps its type: statuses are the  *)
(* schema's, messages and approvals stay well formed.                      *)
THEOREM MigrationTyped == Spec => []TypeOK
<1>1. Inv => TypeOK
  BY DEF Inv, TrustInv, MigInv, MigTypeOK, TypeOK
<1> QED  BY <1>1, InvAlways, PTL

(* Trust stays agreed while migrations run on it (trust.service.ts).       *)
THEOREM TrustStaysAgreed == Spec => []TrustAgreed
<1>1. Inv => TrustAgreed
  BY DEF Inv, TrustInv
<1> QED  BY <1>1, InvAlways, PTL

(* No account is left, and no migration held for sent or completed, before *)
(* all of a bundle assembled for it is at the destination                  *)
(* (migration.service.ts).                                                 *)
THEOREM NoWorkLeftBehind == Spec => []WorkArrived
<1>1. Inv => WorkArrived
  BY DEF Inv, MigInv
<1> QED  BY <1>1, InvAlways, PTL
=============================================================================
