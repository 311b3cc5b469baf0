------------------------------- MODULE SimSub -------------------------------
(***************************************************************************)
(* The check for simultaneous submissions (services/simsub.service.ts)     *)
(* that stands before a writer's submit (trpc/routers/submissions.ts): is  *)
(* the piece under consideration elsewhere?  Submissions of all            *)
(* organizations, other versions of the manuscript, what the writer has    *)
(* disclosed and what trusted instances answer are read one after the      *)
(* other, outside of the transaction that then submits, while the world    *)
(* goes on.                                                                *)
(*                                                                         *)
(* Pieces are compared by the fingerprint stored with a version            *)
(* (services/fingerprint.service.ts).  A version has none before its own   *)
(* first check, and keeps the one it has whatever becomes of its content.  *)
(* The content and the federation fingerprint are computed and stored      *)
(* together; one value stands for both.                                    *)
(***************************************************************************)
EXTENDS Naturals, FiniteSets

CONSTANTS
  Submissions,  \* one writer's
  Versions, Manuscript, \* versions of manuscripts
  Contents,     \* what a version may consist of, and its fingerprint
  NoPrint,      \* the fingerprint columns are NULL
  Remotes,      \* trusted instances that answer checks
  SiblingLimit, \* other versions that checkSiblingVersions looks at (50)
  MaxChanges    \* bound: what else happens to the writer's work

ASSUME SimSubAssumption ==
  /\ Manuscript \in [Versions -> Nat] /\ NoPrint \notin Contents
  /\ Remotes \cap {"local", "sibling", "disclosed"} = {}
  /\ SiblingLimit \in Nat /\ MaxChanges \in Nat

(* The effective policy of a submission: resolveEffectivePolicy of its     *)
(* period and the manuscript's genre, if it has a period.                  *)
Policies == {"no period", "allowed", "allowed_notify", "allowed_withdraw", "prohibited"}

(* SUBMITTED, UNDER_REVIEW and HOLD are "active" (ACTIVE_STATUSES);        *)
(* REVISE_AND_RESUBMIT is not.                                             *)
Statuses == {"absent", "DRAFT", "active", "revise", "closed"}

Checks == {"local", "sibling", "disclosed"} \cup Remotes
Conflicts == ({"here"} \X Submissions) \cup ({"disclosed"} \X Versions)
             \cup ({"abroad"} \X Remotes)

(* One submit request per draft: of two, one finds it submitted.           *)
Requests ==
  [pc : {"idle", "look up", "compute", "check", "submit"},
   print : Contents \cup {NoPrint}, todo : SUBSET Checks, found : BOOLEAN,
   partial : BOOLEAN]

VARIABLES
  policy,    \* per submission
  status, version,
  override,  \* submissions with sim_sub_override
  duty,      \* per submission: its simSubPolicyRequirement
  content,   \* per version: its title, text and CLEAN files
  prints,    \* per version: the stored fingerprint
  disclosed, \* versions whose manuscript is out by the writer's own account
  abroad,    \* per remote: contents that match a fingerprint stored there
             \* with an active submission of the writer
  known,     \* remotes that find the writer by the DID sent to them
  req,       \* per submission: the submit request
  changes,
  steady     \* history: conflicts there have been since the request has its
             \* fingerprint

decided == <<policy, override, duty>>
elsewhere == <<disclosed, abroad, known>>
simSubVars == <<decided, status, version, content, prints, elsewhere, req, changes, steady>>

Sibling(v, w) == Manuscript[v] = Manuscript[w] /\ v # w
FewSiblings(v) == Cardinality({w \in Versions : Sibling(v, w)}) <= SiblingLimit

(* The join with submission_periods leaves out what has no period.         *)
ActiveElsewhere(s) ==
  {t \in Submissions \ {s} : status[t] = "active" /\ policy[t] # "no period"}

(* What the records show of a piece.  A submission of the same version is  *)
(* among Local, as both read the same column, unless another request has   *)
(* computed the fingerprint of the version again.                          *)
Local(s) == {t \in ActiveElsewhere(s) : prints[version[t]] = req[s].print}
Siblings(s) == {t \in ActiveElsewhere(s) : Sibling(version[s], version[t])}
Disclosed(s) == {w \in disclosed : Manuscript[w] = Manuscript[version[s]]}

(* handleInboundCheck: an instance that does not find the writer answers   *)
(* that it has found nothing.                                              *)
Abroad(s) == {r \in known : req[s].print \in abroad[r]}

ConflictsOf(s) ==
  ({"here"} \X (Local(s) \cup IF FewSiblings(version[s]) THEN Siblings(s) ELSE {}))
  \cup ({"disclosed"} \X Disclosed(s)) \cup ({"abroad"} \X Abroad(s))

Idle == [pc |-> "idle", print |-> NoPrint, todo |-> {}, found |-> FALSE,
         partial |-> FALSE]

SimSubInit ==
  /\ policy \in [Submissions -> Policies]
  /\ status \in [Submissions -> {"absent", "DRAFT"}]
  /\ version \in [Submissions -> Versions]
  /\ override = {} /\ duty = [s \in Submissions |-> "none"]
  /\ content \in [Versions -> Contents]
  /\ prints = [v \in Versions |-> NoPrint]
  /\ disclosed = {} /\ abroad = [r \in Remotes |-> {}] /\ known = Remotes
  /\ req = [s \in Submissions |-> Idle]
  /\ changes = 0 /\ steady = [s \in Submissions |-> {}]

-----------------------------------------------------------------------------
(* What goes on meanwhile; a conflict that ends is steady no longer.       *)
Change ==
  /\ changes < MaxChanges /\ changes' = changes + 1
  /\ steady' = [s \in Submissions |-> {c \in steady[s] : c \in ConflictsOf(s)'}]

Toggled(S, x) == IF x \in S THEN S \ {x} ELSE S \cup {x}

(* Editors decide, the writer withdraws; an embed form or an import makes  *)
(* a submission that nobody checked.                                       *)
Moves(s) ==
  /\ \E to \in Statuses :
       /\ <<status[s], to>> \in {<<"absent", "active">>, <<"active", "revise">>,
                                 <<"active", "closed">>, <<"DRAFT", "closed">>}
       /\ status' = [status EXCEPT ![s] = to]
  /\ UNCHANGED <<decided, version, content, prints, elsewhere, req>>
  /\ Change

(* resubmitAsOwner: another version, and no check.                         *)
Resubmits(s, v) ==
  /\ status[s] = "revise"
  /\ status' = [status EXCEPT ![s] = "active"]
  /\ version' = [version EXCEPT ![s] = v]
  /\ UNCHANGED <<decided, content, prints, elsewhere, req>>
  /\ Change

(* The writer edits a draft or its manuscript's title, or a scan ends.     *)
Edits(v, c) ==
  /\ content[v] # c
  /\ content' = [content EXCEPT ![v] = c]
  /\ UNCHANGED <<decided, status, version, prints, elsewhere, req>>
  /\ Change

Discloses(v) ==
  /\ disclosed' = Toggled(disclosed, v)
  /\ UNCHANGED <<decided, status, version, content, prints, abroad, known, req>>
  /\ Change

MovesAbroad(r, c) ==
  /\ abroad' = [abroad EXCEPT ![r] = Toggled(@, c)]
  /\ UNCHANGED <<decided, status, version, content, prints, disclosed, known, req>>
  /\ Change

(* The account there is the one whose email address is the local part of   *)
(* the writer's, at the domain of this instance.                           *)
AccountAbroad(r) ==
  /\ known' = Toggled(known, r)
  /\ UNCHANGED <<decided, status, version, content, prints, disclosed, abroad, req>>
  /\ Change

(* grantOverride                                                           *)
GrantOverride(s) ==
  /\ s \notin override
  /\ override' = override \cup {s}
  /\ UNCHANGED <<policy, duty, status, version, content, prints, elsewhere, req>>
  /\ Change

-----------------------------------------------------------------------------
Exempt(s) == s \in override \/ policy[s] \in {"no period", "allowed"}

(* preSubmitCheck reads the draft and its policy.                          *)
BeginSubmit(s) ==
  /\ req[s].pc = "idle" /\ status[s] = "DRAFT"
  /\ req' = [req EXCEPT ![s].pc = IF Exempt(s) THEN "submit" ELSE "look up"]
  /\ UNCHANGED <<decided, status, version, content, prints, elsewhere, changes, steady>>

(* The request goes on to the checks with the fingerprint p.               *)
HasPrint(s, p) ==
  /\ req' = [req EXCEPT ![s].pc = "check", ![s].print = p, ![s].todo = Checks]
  /\ steady' = [t \in Submissions |->
       IF t = s THEN ConflictsOf(s)' ELSE {c \in steady[t] : c \in ConflictsOf(t)'}]

(* getOrCompute: the version has a fingerprint, or not; ...                *)
LookUp(s) ==
  /\ req[s].pc = "look up"
  /\ UNCHANGED <<decided, status, version, content, prints, elsewhere, changes>>
  /\ IF prints[version[s]] # NoPrint THEN HasPrint(s, prints[version[s]])
     ELSE req' = [req EXCEPT ![s].pc = "compute"] /\ UNCHANGED steady

(* ... computeAndStore does not look again.                                *)
Compute(s) ==
  LET v == version[s] IN
  /\ req[s].pc = "compute"
  /\ prints' = [prints EXCEPT ![v] = content[v]]
  /\ UNCHANGED <<decided, status, version, content, elsewhere, changes>>
  /\ HasPrint(s, content[v])

(* Mutant: other versions of the manuscript are not looked for.            *)
SeesSameOnly(s, check) ==
  {CASE check = "local" -> Local(s) # {}
     [] check = "sibling" -> FALSE
     [] check = "disclosed" -> Disclosed(s) # {}
     [] OTHER -> check \in Abroad(s)}

(* Whether checkLocal, checkSiblingVersions, checkWriterDisclosed and the  *)
(* answer of a remote instance show a conflict.  Of too many siblings,     *)
(* some are looked at.                                                     *)
Sees(s, check) ==
  CASE check = "local" -> {Local(s) # {}}
    [] check = "sibling" -> {Siblings(s) # {}}
         \cup IF FewSiblings(version[s]) THEN {} ELSE {FALSE}
    [] check = "disclosed" -> {Disclosed(s) # {}}
    [] OTHER -> {check \in Abroad(s)}

Check(s, check) ==
  /\ req[s].pc = "check" /\ check \in req[s].todo
  /\ \E seen \in Sees(s, check) :
       req' = [req EXCEPT ![s].todo = @ \ {check}, ![s].found = @ \/ seen]
  /\ UNCHANGED <<decided, status, version, content, prints, elsewhere, changes, steady>>

(* No answer within two seconds, or not a good one.                        *)
Unanswered(s, r) ==
  /\ req[s].pc = "check" /\ r \in req[s].todo
  /\ req' = [req EXCEPT ![s].todo = @ \ {r}, ![s].partial = TRUE]
  /\ UNCHANGED <<decided, status, version, content, prints, elsewhere, changes, steady>>

CheckVerdict(r) ==
  IF r.found THEN "CONFLICT" ELSE IF r.partial THEN "PARTIAL" ELSE "CLEAR"

(* performFullCheck records its result (in a transaction of its own; it is *)
(* read by nothing); for 'prohibited' a conflict then ends the request.    *)
Decide(s) ==
  LET stopped == CheckVerdict(req[s]) = "CONFLICT" /\ policy[s] = "prohibited" IN
  /\ req[s].pc = "check" /\ req[s].todo = {}
  /\ req' = [req EXCEPT ![s] = IF stopped THEN Idle ELSE [@ EXCEPT !.pc = "submit"]]
  /\ steady' = [steady EXCEPT ![s] = IF stopped THEN {} ELSE @]
  /\ UNCHANGED <<decided, status, version, content, prints, elsewhere, changes>>

(* What 'allowed_notify' and 'allowed_withdraw' make of a conflict.        *)
Duty(s) ==
  duty' = IF req[s].found
          THEN [duty EXCEPT ![s] = IF policy[s] = "allowed_notify" THEN "notify"
                                   ELSE "withdraw"]
          ELSE duty

Ends(s) ==
  /\ req' = [req EXCEPT ![s] = Idle]
  /\ steady' = [steady EXCEPT ![s] = {}]

(* The requirement and submitAsOwner are one transaction, which finds the  *)
(* draft still a draft.                                                    *)
Submit(s) ==
  /\ req[s].pc = "submit" /\ status[s] = "DRAFT"
  /\ Duty(s)
  /\ status' = [status EXCEPT ![s] = "active"]
  /\ Ends(s)
  /\ UNCHANGED <<policy, override, version, content, prints, elsewhere, changes>>

(* The request dies, or finds the draft gone.                              *)
RequestDies(s) ==
  /\ req[s].pc # "idle"
  /\ Ends(s)
  /\ UNCHANGED <<decided, status, version, content, prints, elsewhere, changes>>

SimSubNext ==
  \/ \E s \in Submissions :
       \/ Moves(s) \/ GrantOverride(s) \/ BeginSubmit(s) \/ LookUp(s) \/ Compute(s)
       \/ Decide(s) \/ Submit(s) \/ RequestDies(s)
       \/ \E v \in Versions : Resubmits(s, v)
       \/ \E check \in Checks : Check(s, check)
       \/ \E r \in Remotes : Unanswered(s, r)
  \/ \E v \in Versions : Discloses(v) \/ \E c \in Contents : Edits(v, c)
  \/ \E r \in Remotes : AccountAbroad(r) \/ \E c \in Contents : MovesAbroad(r, c)

SimSubSpec == SimSubInit /\ [][SimSubNext]_simSubVars

-----------------------------------------------------------------------------
SimSubTypeOK ==
  /\ policy \in [Submissions -> Policies]
  /\ status \in [Submissions -> Statuses]
  /\ version \in [Submissions -> Versions]
  /\ override \subseteq Submissions
  /\ duty \in [Submissions -> {"none", "notify", "withdraw"}]
  /\ content \in [Versions -> Contents]
  /\ prints \in [Versions -> Contents \cup {NoPrint}]
  /\ disclosed \subseteq Versions
  /\ abroad \in [Remotes -> SUBSET Contents] /\ known \subseteq Remotes
  /\ req \in [Submissions -> Requests] /\ changes \in 0..MaxChanges
  /\ steady \in [Submissions -> SUBSET Conflicts]

Submits(s) == status[s] = "DRAFT" /\ status'[s] = "active"

(* What a check may rely on.  A conflict that the stored fingerprints, the *)
(* manuscript, the writer's account or an instance that finds the writer   *)
(* have shown since the request looked up its fingerprint is not missed: a *)
(* submission that prohibits it is not sent, and one that allows it with a *)
(* duty bears the duty.  Only one with an instance that did not answer     *)
(* passes, as PARTIAL.                                                     *)
NoUnseenConflict ==
  [][ \A s \in Submissions :
        Submits(s) /\ steady[s] # {} =>
          \/ policy[s] # "prohibited" /\ duty'[s] # "none"
          \/ steady[s] \subseteq {"abroad"} \X Remotes /\ req[s].partial ]_simSubVars
=============================================================================
