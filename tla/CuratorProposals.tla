-------------------------- MODULE CuratorProposals --------------------------
(***************************************************************************)
(* Proposals of the atlas curator for the fields of an architecture topic, *)
(* their review, and people who edit the topic and lock fields meanwhile   *)
(* (server/src/routes/atlas-proposals.ts, architecture-topics.ts,          *)
(* atlasCurator/applyProposal.ts, intake.ts).                              *)
(*                                                                         *)
(* An acceptance is one transaction at the database's default isolation,   *)
(* read committed: it reads the proposal, reads the topic, updates the     *)
(* topic, whose row it holds from then on, and writes the proposal.  A     *)
(* rejection reads and writes with two statements of their own.            *)
(*                                                                         *)
(* A proposal is a patch of one field; gap reports and links, the filter   *)
(* of duplicates and the patch a reviewer may edit are left out.           *)
(***************************************************************************)
EXTENDS Naturals

CONSTANTS Proposals, Fields, Requests, NoProposal, NoField

VARIABLES
    status,   \* per proposal, "none" before it is created
    field,    \* the field it patches
    locked,   \* lockedFields of the topic
    applied,  \* history: how often a proposal's patch was applied
    pc,       \* the statement a request stands at
    job,      \* its proposal
    mishaps   \* history: what has happened so far

vars == <<status, field, locked, applied, pc, job, mishaps>>

PCs == {"idle", "create", "look", "apply", "commit", "reject"}
Status == {"none", "PENDING", "ACCEPTED", "REJECTED"}

(* "contest": two reviews of a proposal overlapped.  "lockrace": a field   *)
(* was locked after an acceptance had looked at its lock.  "trespass": a   *)
(* patch was applied to a locked field.                                    *)
Mishaps == {"contest", "lockrace", "trespass"}

TypeOK ==
    /\ status \in [Proposals -> Status]
    /\ field \in [Proposals -> Fields \cup {NoField}]
    /\ locked \subseteq Fields
    /\ applied \in [Proposals -> Nat]
    /\ pc \in [Requests -> PCs]
    /\ job \in [Requests -> Proposals \cup {NoProposal}]
    /\ mishaps \subseteq Mishaps

Init ==
    /\ status = [p \in Proposals |-> "none"]
    /\ field = [p \in Proposals |-> NoField]
    /\ locked \in SUBSET Fields
    /\ applied = [p \in Proposals |-> 0]
    /\ pc = [r \in Requests |-> "idle"]
    /\ job = [r \in Requests |-> NoProposal]
    /\ mishaps = {}

-----------------------------------------------------------------------------
Goto(r, at) == pc' = [pc EXCEPT ![r] = at] /\ UNCHANGED job

Start(r, at, p) ==
    /\ pc[r] = "idle"
    /\ pc' = [pc EXCEPT ![r] = at]
    /\ job' = [job EXCEPT ![r] = p]

End(r) ==
    /\ pc' = [pc EXCEPT ![r] = "idle"]
    /\ job' = [job EXCEPT ![r] = NoProposal]

Note(m, happened) == mishaps' = IF happened THEN mishaps \cup {m} ELSE mishaps

Reviewing(p) == {r \in Requests : pc[r] \in {"look", "apply", "commit", "reject"} /\ job[r] = p}

TopicHeld == \E r \in Requests : pc[r] = "commit"

(* POST /atlas-proposals, or a run of the curator: the field is not locked *)
(* when the topic is read.  For the curator the language model's answer    *)
(* lies between this and the creation.                                     *)
Propose(r, p, f) ==
    /\ status[p] = "none" /\ field[p] = NoField
    /\ f \notin locked
    /\ field' = [field EXCEPT ![p] = f]
    /\ Start(r, "create", p)
    /\ UNCHANGED <<status, locked, applied, mishaps>>

Create(r) ==
    /\ pc[r] = "create"
    /\ status' = [status EXCEPT ![job[r]] = "PENDING"]
    /\ End(r)
    /\ UNCHANGED <<field, locked, applied, mishaps>>

(* POST /:id/accept begins its transaction with the proposal, which must   *)
(* be PENDING.                                                             *)
Accept(r, p) ==
    /\ status[p] = "PENDING"
    /\ Start(r, "look", p)
    /\ Note("contest", Reviewing(p) # {})
    /\ UNCHANGED <<status, field, locked, applied>>

(* applyAcceptedProposal refuses a patch of a locked field. *)
LookAtLock(r) ==
    /\ pc[r] = "look"
    /\ IF field[job[r]] \in locked THEN End(r) ELSE Goto(r, "apply")
    /\ UNCHANGED <<status, field, locked, applied, mishaps>>

(* The update of the topic waits for its row, and keeps it. *)
Apply(r) ==
    /\ pc[r] = "apply" /\ ~TopicHeld
    /\ Goto(r, "commit")
    /\ UNCHANGED <<status, field, locked, applied, mishaps>>

(* The proposal is ACCEPTED, whatever it is by now, and topic and proposal *)
(* are committed together.                                                 *)
Commit(r) ==
    /\ pc[r] = "commit"
    /\ LET p == job[r] IN
          /\ status' = [status EXCEPT ![p] = "ACCEPTED"]
          /\ applied' = [applied EXCEPT ![p] = @ + 1]
          /\ Note("trespass", field[p] \in locked)
    /\ End(r)
    /\ UNCHANGED <<field, locked>>

(* The transaction fails, or the server restarts: nothing of it is left. *)
RollBack(r) ==
    /\ pc[r] # "idle"
    /\ End(r)
    /\ UNCHANGED <<status, field, locked, applied, mishaps>>

(* Mutant: a proposal that is decided can be rejected.                     *)
RejectAny(r, p) ==
    /\ status[p] # "none"
    /\ Start(r, "reject", p)
    /\ Note("contest", Reviewing(p) # {})
    /\ UNCHANGED <<status, field, locked, applied>>

(* POST /:id/reject reads the proposal ... *)
Reject(r, p) ==
    /\ status[p] = "PENDING"
    /\ Start(r, "reject", p)
    /\ Note("contest", Reviewing(p) # {})
    /\ UNCHANGED <<status, field, locked, applied>>

(* ... and writes without looking again. *)
WriteRejected(r) ==
    /\ pc[r] = "reject"
    /\ status' = [status EXCEPT ![job[r]] = "REJECTED"]
    /\ End(r)
    /\ UNCHANGED <<field, locked, applied, mishaps>>

(* PUT /architecture-topics/:id with lockedFields waits for the row too. *)
EditTopic ==
    /\ ~TopicHeld
    /\ locked' \in SUBSET Fields
    /\ Note("lockrace", \E r \in Requests :
          pc[r] = "apply" /\ field[job[r]] \in locked' \ locked)
    /\ UNCHANGED <<status, field, applied, pc, job>>

Next ==
    \/ \E r \in Requests, p \in Proposals, f \in Fields : Propose(r, p, f)
    \/ \E r \in Requests, p \in Proposals : Accept(r, p) \/ Reject(r, p)
    \/ \E r \in Requests :
          \/ Create(r) \/ LookAtLock(r) \/ Apply(r) \/ Commit(r)
          \/ RollBack(r) \/ WriteRejected(r)
    \/ EditTopic

Spec == Init /\ [][Next]_vars

-----------------------------------------------------------------------------
(* People decide.  As long as no two reviews of a proposal overlapped, its *)
(* patch is in the topic exactly if it is ACCEPTED, and once; and a patch  *)
(* goes into a locked field only if the lock came after the acceptance had *)
(* looked for it.                                                          *)
PeopleDecide ==
    /\ "contest" \notin mishaps =>
          \A p \in Proposals : applied[p] = IF status[p] = "ACCEPTED" THEN 1 ELSE 0
    /\ "trespass" \in mishaps => "lockrace" \in mishaps
=============================================================================
