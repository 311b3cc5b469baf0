------------------------------- MODULE Trust -------------------------------
(***************************************************************************)
(* Trust between instances (services/trust.service.ts): an organization    *)
(* asks another instance for trust, the organizations there decide, and    *)
(* the answer comes back.  An instance only speaks to its peers by signed  *)
(* HTTP requests that are sent once; each organization keeps its own row   *)
(* per domain (schema/trusted-peers.ts) and its own transaction.           *)
(***************************************************************************)
EXTENDS Naturals

CONSTANTS
  Instances,
  Orgs,          \* organizations that take part in federation
  Home,          \* the instance an organization lives on
  OpenInstances, \* instances whose federation mode is 'open'
  Capabilities,
  MaxAdmin       \* bound: requests of admins

ASSUME TrustAssumption ==
  /\ Home \in [Orgs -> Instances]
  /\ OpenInstances \subseteq Instances
  /\ MaxAdmin \in Nat

PeerStates ==
  {"none", "pending_outbound", "pending_inbound", "active", "rejected", "revoked"}
Peers == [state : PeerStates, by : {"none", "local", "remote"},
          caps : SUBSET Capabilities]

(* A request or an accept on its way ("accept"), or the part of it that    *)
(* its receiver has still to apply, an organization at a time.             *)
Messages ==
  [kind : {"request", "accept", "applying"}, by : Orgs, to : Instances,
   caps : SUBSET Capabilities, todo : SUBSET Orgs]

(* An admin's request between its read and its UPDATE.                     *)
Acts == [kind : {"accept", "reject", "revoke"}, org : Orgs, inst : Instances]

VARIABLES
  peer,   \* per organization and instance: its row
  mail,   \* messages
  acts,
  admin,  \* requests of admins so far
  granted \* history: <<org, instance, capabilities>> of committed accepts

trustVars == <<peer, mail, acts, admin, granted>>

NoPeer == [state |-> "none", by |-> "none", caps |-> {}]
Peer(state, by, caps) == [state |-> state, by |-> by, caps |-> caps]
Residents(i) == {o \in Orgs : Home[o] = i}

TrustInit ==
  /\ peer = [o \in Orgs |-> [i \in Instances |-> NoPeer]]
  /\ mail = {} /\ acts = {} /\ admin = 0 /\ granted = {}

AdminAsks == admin < MaxAdmin /\ admin' = admin + 1

SetPeer(o, i, row) == peer' = [peer EXCEPT ![o][i] = row]
SetState(o, i, state) == peer' = [peer EXCEPT ![o][i].state = state]

(* m has been gone through for o.                                          *)
Handled(m, o) ==
  (mail \ {m}) \cup (IF m.todo = {o} THEN {} ELSE {[m EXCEPT !.todo = @ \ {o}]})

-----------------------------------------------------------------------------
(* initiateTrust: the row is committed before the request is sent.         *)
InitiateTrust(o, i, caps) ==
  /\ AdminAsks
  /\ Home[o] # i /\ peer[o][i] = NoPeer
  /\ SetPeer(o, i, Peer("pending_outbound", "local", {}))
  /\ mail' = mail \cup {[kind |-> "request", by |-> o, to |-> i, caps |-> caps,
                         todo |-> Residents(i)]}
  /\ UNCHANGED <<acts, granted>>

(* The row after a request: there is a relationship already, or it is      *)
(* accepted (open mode), or it waits for an admin.                         *)
(* Mutant: a request that crosses one's own is taken for its answer.       *)
CrossingAccepted(row, open, caps) ==
  IF row.state = "pending_outbound" THEN Peer("active", "local", caps)
  ELSE IF row # NoPeer THEN row
  ELSE IF open THEN Peer("active", "remote", caps)
  ELSE Peer("pending_inbound", "remote", {})

Requested(row, open, caps) ==
  IF row # NoPeer THEN row
  ELSE IF open THEN Peer("active", "remote", caps)
  ELSE Peer("pending_inbound", "remote", {})

(* handleInboundTrustRequest, for one of the organizations.                *)
ReceiveRequest(m, o) ==
  LET i == Home[m.by]
      open == m.to \in OpenInstances
  IN
  /\ m.kind = "request" /\ o \in m.todo
  /\ mail' = Handled(m, o)
  /\ SetPeer(o, i, Requested(peer[o][i], open, m.caps))
  /\ granted' = IF open /\ peer[o][i] = NoPeer THEN granted \cup {<<o, i, m.caps>>}
                ELSE granted
  /\ UNCHANGED <<acts, admin>>

Required(kind) == IF kind = "revoke" THEN "active" ELSE "pending_inbound"

(* acceptInboundTrust, rejectTrust and revokeTrust read the row unlocked...*)
ActReads(kind, o, i) ==
  /\ AdminAsks
  /\ peer[o][i].state = Required(kind)
  /\ acts' = acts \cup {[kind |-> kind, org |-> o, inst |-> i]}
  /\ UNCHANGED <<peer, mail, granted>>

(* ... and update it by id.  An accept is then sent to the other instance. *)
ActWrites(a, caps) ==
  /\ a \in acts
  /\ acts' = acts \ {a}
  /\ IF a.kind = "accept"
     THEN /\ peer' = [peer EXCEPT ![a.org][a.inst].state = "active",
                                  ![a.org][a.inst].caps = caps]
          /\ mail' = mail \cup {[kind |-> "accept", by |-> a.org, to |-> a.inst,
                                 caps |-> caps, todo |-> {}]}
          /\ granted' = granted \cup {<<a.org, a.inst, caps>>}
     ELSE /\ SetState(a.org, a.inst,
                      IF a.kind = "reject" THEN "rejected" ELSE "revoked")
          /\ UNCHANGED <<mail, granted>>
  /\ UNCHANGED admin

ActFails(a) ==
  /\ a \in acts
  /\ acts' = acts \ {a}
  /\ UNCHANGED <<peer, mail, admin, granted>>

(* The rows an accept from instance i is for; without one it is refused.   *)
AwaitingAccept(here, i) == {o \in Residents(here) : peer[o][i].state = "pending_outbound"}

(* handleInboundTrustAccept: the list of rows is read first...             *)
ReceiveAccept(m) ==
  /\ m.kind = "accept"
  /\ LET found == AwaitingAccept(m.to, Home[m.by])
     IN  mail' = (mail \ {m}) \cup
           (IF found = {} THEN {}
            ELSE {[m EXCEPT !.kind = "applying", !.todo = found]})
  /\ UNCHANGED <<peer, acts, admin, granted>>

(* ... and each is then activated by id.                                   *)
ApplyAccept(m, o) ==
  /\ m.kind = "applying" /\ o \in m.todo
  /\ mail' = Handled(m, o)
  /\ peer' = [peer EXCEPT ![o][Home[m.by]].state = "active",
                          ![o][Home[m.by]].caps = m.caps]
  /\ UNCHANGED <<acts, admin, granted>>

(* Nothing is sent again: the receiver is down, refuses the signature, or  *)
(* dies before it has gone through all organizations.                      *)
Lose(m) ==
  /\ mail' = mail \ {m}
  /\ UNCHANGED <<peer, acts, admin, granted>>

TrustNext ==
  \/ \E o \in Orgs, i \in Instances, caps \in SUBSET Capabilities : InitiateTrust(o, i, caps)
  \/ \E m \in mail : \E o \in m.todo : ReceiveRequest(m, o) \/ ApplyAccept(m, o)
  \/ \E m \in mail : ReceiveAccept(m) \/ Lose(m)
  \/ \E kind \in {"accept", "reject", "revoke"}, o \in Orgs, i \in Instances :
       ActReads(kind, o, i)
  \/ \E a \in acts :
       ActFails(a) \/ \E caps \in SUBSET Capabilities : ActWrites(a, caps)

TrustSpec == TrustInit /\ [][TrustNext]_trustVars

(* federation-auth.ts: a request is let in when any organization at the    *)
(* receiver has an active row for the sender's domain.                     *)
Authenticated(from, to) == \E o \in Residents(to) : peer[o][from].state = "active"

(* What broadcasts and migrations ask of a row.                            *)
Grants(o, i, cap) == peer[o][i].state = "active" /\ cap \in peer[o][i].caps

-----------------------------------------------------------------------------
TrustTypeOK ==
  /\ peer \in [Orgs -> [Instances -> Peers]]
  /\ mail \in SUBSET Messages
  /\ acts \in SUBSET Acts
  /\ admin \in 0..MaxAdmin
  /\ granted \in SUBSET (Orgs \X Instances \X SUBSET Capabilities)

(* Trust takes two: an active row that its organization asked for carries  *)
(* capabilities that an organization of the other instance granted to this *)
(* one, and an active row that was asked for from outside carries what its *)
(* own organization (or the instance's open mode) granted -- whatever was  *)
(* rejected, revoked, lost or answered late in between.                    *)
TrustAgreed ==
  \A o \in Orgs, i \in Instances :
    peer[o][i].state = "active" =>
      \/ /\ peer[o][i].by = "local"
         /\ \E r \in Residents(i) : <<r, Home[o], peer[o][i].caps>> \in granted
      \/ /\ peer[o][i].by = "remote"
         /\ <<o, i, peer[o][i].caps>> \in granted
=============================================================================
