--------------------------- MODULE IntakeSession ---------------------------
(***************************************************************************)
(* One AI intake session (server/src/routes/intake-sessions.ts) and what   *)
(* its commits create in the hub (server/src/intake/commitDrafts.ts).      *)
(*                                                                         *)
(* A request is a process.  Every handler reads the session once           *)
(* ("existing"), decides on what it read, and after its awaits writes      *)
(* without a condition: "seen" is that snapshot, cut down to the fields    *)
(* the handler uses later.  Other requests run at every await.             *)
(***************************************************************************)
EXTENDS Naturals

CONSTANTS
    Requests,       \* concurrent calls on the session
    DraftKeys,      \* keys of draft items
    NewInitiative,  \* stands for the initiative that a commit may create
    NoDrafts,       \* drafts = null
    NoResult,       \* sourceMeta has no commitResult
    LateFailures,   \* TRUE: the write of COMMITTED may fail
    MaxCopies       \* bound on the copies of one item in the hub, for TLC

Items == DraftKeys \cup {NewInitiative}
Approvals == {"pending", "approved", "skipped"}

(* drafts: the items present and their approval.  A key outside the domain *)
(* is a draft that this generation of the drafts does not have.            *)
Drafts == UNION {[D -> Approvals] : D \in (SUBSET DraftKeys) \ {{}}}

(* commitResult: per item 0, or which copy of it the commit created: the   *)
(* n-th copy of an item stands for its entity id.                          *)
Results == [Items -> Nat]

ASSUME IntakeAssumption ==
    /\ NewInitiative \notin DraftKeys
    /\ NoDrafts \notin Drafts
    /\ NoResult \notin Results
    /\ LateFailures \in BOOLEAN
    /\ MaxCopies \in Nat

VARIABLES
    session,  \* the row of IntakeSession
    created,  \* per item, its copies in the hub
    pc,       \* the await each request stands at
    seen,     \* the request's snapshot of the session
    out,      \* the result of the request's transaction
    crashed   \* history: the server has crashed and restarted

vars == <<session, created, pc, seen, out, crashed>>

Statuses == {"CAPTURING", "ANALYZING", "CLARIFYING", "PLAN_READY", "DRAFTING",
             "REVIEWING", "COMMITTING", "COMMITTED", "FAILED", "ABANDONED"}

Sessions == [status: Statuses, plan: BOOLEAN,
             drafts: Drafts \cup {NoDrafts}, result: Results \cup {NoResult}]

Snapshots == [drafts: Drafts \cup {NoDrafts}, result: Results \cup {NoResult}]

PCs == {"idle", "patch", "analyze", "planning", "clarify", "patchPlan", "draft",
        "drafting", "patchDraft", "commit", "committing", "record"}

TypeOK ==
    /\ session \in Sessions
    /\ created \in [Items -> Nat]
    /\ pc \in [Requests -> PCs]
    /\ seen \in [Requests -> Snapshots]
    /\ out \in [Requests -> Results \cup {NoResult}]
    /\ crashed \in BOOLEAN

Unseen == [drafts |-> NoDrafts, result |-> NoResult]

(* POST /: the session starts with nothing but an empty text. *)
Init ==
    /\ session = [status |-> "CAPTURING", plan |-> FALSE,
                  drafts |-> NoDrafts, result |-> NoResult]
    /\ created = [i \in Items |-> 0]
    /\ pc = [r \in Requests |-> "idle"]
    /\ seen = [r \in Requests |-> Unseen]
    /\ out = [r \in Requests |-> NoResult]
    /\ crashed = FALSE

(* Mutant: only COMMITTED counts as locked. *)
isLockedCommitted == session.status = "COMMITTED"

isLocked == session.status \in {"COMMITTED", "COMMITTING"}

-----------------------------------------------------------------------------
(* What handlers have in common *)

(* The handler has read the session and goes on to its first write.  A     *)
(* handler that answers 4xx here changes nothing and has no action.        *)
Begin(r, at, snapshot) ==
    /\ pc[r] = "idle"
    /\ pc' = [pc EXCEPT ![r] = at]
    /\ seen' = [seen EXCEPT ![r] = snapshot]
    /\ UNCHANGED <<session, created, out, crashed>>

(* The handler's last write, whatever the session has become meanwhile. *)
Finish(r, write) ==
    /\ session' = write
    /\ pc' = [pc EXCEPT ![r] = "idle"]
    /\ seen' = [seen EXCEPT ![r] = Unseen]
    /\ out' = [out EXCEPT ![r] = NoResult]
    /\ UNCHANGED <<created, crashed>>

(* A write in the middle of a handler. *)
Mark(r, at, status) ==
    /\ session' = [session EXCEPT !.status = status]
    /\ pc' = [pc EXCEPT ![r] = at]
    /\ UNCHANGED <<created, seen, out, crashed>>

-----------------------------------------------------------------------------
(* PATCH /:id: the text, the channel, and possibly a status *)

(* Mutant: abandoning is allowed in every status. *)
PatchSessionAnyStatus(r) == Begin(r, "patch", Unseen)

PatchSession(r) == ~isLocked /\ Begin(r, "patch", Unseen)

PatchSessionWrite(r) ==
    /\ pc[r] = "patch"
    /\ \E s \in {"CAPTURING", "ABANDONED", "FAILED", session.status} :
          Finish(r, [session EXCEPT !.status = s])

-----------------------------------------------------------------------------
(* POST /:id/analyze and /:id/clarify: both end by storing the plan and    *)
(* sourceMeta, which is spread from the snapshot: a commitResult stored    *)
(* meanwhile is overwritten.                                               *)

Analyze(r) ==
    ~isLocked /\ Begin(r, "analyze", [Unseen EXCEPT !.result = session.result])

AnalyzeMark(r) == pc[r] = "analyze" /\ Mark(r, "planning", "ANALYZING")

(* Mutant: the plan is stored, the status left as it is. *)
StorePlanOnly(r) ==
    Finish(r, [session EXCEPT !.plan = TRUE, !.result = seen[r].result])

StorePlan(r) ==
    \E s \in {"CLARIFYING", "PLAN_READY"} :
        Finish(r, [session EXCEPT !.status = s, !.plan = TRUE,
                                  !.result = seen[r].result])

AnalyzeStore(r) == pc[r] = "planning" /\ StorePlan(r)

AnalyzeFail(r) ==
    /\ pc[r] \in {"analyze", "planning"}
    /\ Finish(r, [session EXCEPT !.status = "FAILED"])

Clarify(r) ==
    ~isLocked /\ Begin(r, "clarify", [Unseen EXCEPT !.result = session.result])

ClarifyStore(r) == pc[r] = "clarify" /\ StorePlan(r)

-----------------------------------------------------------------------------
(* PATCH /:id/plan *)

PatchPlan(r) == ~isLocked /\ Begin(r, "patchPlan", Unseen)

PatchPlanWrite(r) ==
    /\ pc[r] = "patchPlan"
    /\ Finish(r, [session EXCEPT !.status = "PLAN_READY", !.plan = TRUE])

-----------------------------------------------------------------------------
(* POST /:id/drafts *)

GenerateDrafts(r) ==
    /\ ~isLocked
    /\ session.status \in {"PLAN_READY", "REVIEWING", "DRAFTING"}
    /\ session.plan
    /\ Begin(r, "draft", [Unseen EXCEPT !.result = session.result])

GenerateDraftsMark(r) == pc[r] = "draft" /\ Mark(r, "drafting", "DRAFTING")

(* Mutant: a parse that found nothing is stored. *)
GenerateDraftsEmpty(r) ==
    /\ pc[r] = "drafting"
    /\ \E D \in SUBSET DraftKeys :
          Finish(r, [session EXCEPT !.status = "REVIEWING",
                                    !.drafts = [k \in D |-> "pending"],
                                    !.result = seen[r].result])

(* The parsers return at least one item, every one of them pending. *)
GenerateDraftsStore(r) ==
    /\ pc[r] = "drafting"
    /\ \E D \in (SUBSET DraftKeys) \ {{}} :
          Finish(r, [session EXCEPT !.status = "REVIEWING",
                                    !.drafts = [k \in D |-> "pending"],
                                    !.result = seen[r].result])

GenerateDraftsFail(r) ==
    /\ pc[r] \in {"draft", "drafting"}
    /\ Finish(r, [session EXCEPT !.status = "FAILED"])

-----------------------------------------------------------------------------
(* PATCH /:id/drafts/:draftKey: writes back all drafts of the snapshot *)

(* Mutant: drafts may be edited in every status. *)
PatchDraftUnlocked(r) ==
    /\ session.drafts # NoDrafts
    /\ Begin(r, "patchDraft", [Unseen EXCEPT !.drafts = session.drafts])

PatchDraft(r) ==
    /\ ~isLocked
    /\ session.drafts # NoDrafts
    /\ Begin(r, "patchDraft", [Unseen EXCEPT !.drafts = session.drafts])

PatchDraftWrite(r) ==
    /\ pc[r] = "patchDraft"
    /\ \E k \in DOMAIN seen[r].drafts, a \in Approvals :
          Finish(r, [session EXCEPT !.status = "REVIEWING",
                                    !.drafts = [seen[r].drafts EXCEPT ![k] = a]])

-----------------------------------------------------------------------------
(* POST /:id/commit *)

(* Mutant: the check for drafts is dropped. *)
CommitWithoutDrafts(r) ==
    ~isLocked /\ Begin(r, "commit", [Unseen EXCEPT !.drafts = session.drafts])

Commit(r) ==
    /\ ~isLocked
    /\ session.drafts # NoDrafts
    /\ Begin(r, "commit", [Unseen EXCEPT !.drafts = session.drafts])

CommitMark(r) == pc[r] = "commit" /\ Mark(r, "committing", "COMMITTING")

With(drafts, approval) == {k \in DOMAIN drafts : drafts[k] = approval}

(* Mutant: all drafts skipped is good enough. *)
evaluateCommitGateSkipped(drafts) == With(drafts, "pending") = {}

evaluateCommitGate(drafts) ==
    /\ With(drafts, "pending") = {}
    /\ With(drafts, "approved") # {}

(* The transaction of commitIntakeDrafts: a feature per approved draft,    *)
(* with its requirements and link copies, and possibly an initiative.      *)
CommitTransaction(r) ==
    /\ pc[r] = "committing"
    /\ evaluateCommitGate(seen[r].drafts)
    /\ \E new \in SUBSET {NewInitiative} :
          LET made == With(seen[r].drafts, "approved") \cup new
              copies == [i \in Items |-> IF i \in made THEN created[i] + 1 ELSE created[i]]
          IN  /\ \A i \in made : created[i] < MaxCopies
              /\ created' = copies
              /\ out' = [out EXCEPT ![r] =
                           [i \in Items |-> IF i \in made THEN copies[i] ELSE 0]]
    /\ pc' = [pc EXCEPT ![r] = "record"]
    /\ UNCHANGED <<session, seen, crashed>>

(* Mutant: a refusal answers without reopening the session. *)
CommitRefuseLeavesLock(r) == pc[r] = "committing" /\ Finish(r, session)

(* The gate or the placement check refuses, or the transaction rolls back. *)
CommitRefuse(r) ==
    /\ pc[r] = "committing"
    /\ Finish(r, [session EXCEPT !.status = "REVIEWING"])

CommitRecord(r) ==
    /\ pc[r] = "record"
    /\ Finish(r, [session EXCEPT !.status = "COMMITTED", !.result = out[r]])

(* The update after the transaction fails: the catch reopens the session. *)
CommitRecordFail(r) ==
    /\ LateFailures
    /\ pc[r] = "record"
    /\ Finish(r, [session EXCEPT !.status = "REVIEWING"])

-----------------------------------------------------------------------------
(* The process dies: only the database survives. *)
Crash ==
    /\ crashed' = TRUE
    /\ pc' = [r \in Requests |-> "idle"]
    /\ seen' = [r \in Requests |-> Unseen]
    /\ out' = [r \in Requests |-> NoResult]
    /\ UNCHANGED <<session, created>>

Arrive(r) ==
    \/ PatchSession(r) \/ Analyze(r) \/ Clarify(r) \/ PatchPlan(r)
    \/ GenerateDrafts(r) \/ PatchDraft(r) \/ Commit(r)

Continue(r) ==
    \/ PatchSessionWrite(r)
    \/ AnalyzeMark(r) \/ AnalyzeStore(r) \/ AnalyzeFail(r)
    \/ ClarifyStore(r)
    \/ PatchPlanWrite(r)
    \/ GenerateDraftsMark(r) \/ GenerateDraftsStore(r) \/ GenerateDraftsFail(r)
    \/ PatchDraftWrite(r)
    \/ CommitMark(r) \/ CommitTransaction(r) \/ CommitRefuse(r)
    \/ CommitRecord(r) \/ CommitRecordFail(r)

Next == (\E r \in Requests : Arrive(r) \/ Continue(r)) \/ Crash

Spec == Init /\ [][Next]_vars

(* The database and the language model answer or time out, so a handler    *)
(* that has begun goes on; nobody is obliged to send a request.            *)
FairSpec == Spec /\ \A r \in Requests : WF_vars(Continue(r))

-----------------------------------------------------------------------------
(* Properties that hold however requests interleave, crash and fail *)

(* The status never runs ahead of the data it promises: POST /drafts and   *)
(* /commit, which decide on the status, find the plan and the drafts.      *)
StatusHasItsData ==
    /\ session.status \in {"PLAN_READY", "DRAFTING"} => session.plan
    /\ session.status \in {"REVIEWING", "COMMITTING", "COMMITTED"} =>
          session.plan /\ session.drafts # NoDrafts

(* A COMMITTED session can always answer a second commit: although every   *)
(* handler writes back sourceMeta as it first read it, the commitResult    *)
(* is there, names at least one feature, and only features that exist.     *)
CommittedHasResult ==
    session.status = "COMMITTED" =>
        /\ session.result # NoResult
        /\ \E k \in DraftKeys : session.result[k] > 0
        /\ \A i \in Items : session.result[i] <= created[i]

(* A commit cut off by a crash is never repeated, and never finished: a    *)
(* COMMITTING session that no request works on is refused by every handler *)
(* before it does anything.                                                *)
OrphanStaysLocked ==
    [][(session.status = "COMMITTING" /\ \A r \in Requests : pc[r] = "idle")
          => UNCHANGED <<session, created, pc>>]_vars

(* A locked session is locked for a commit that is still at work, however  *)
(* other requests overwrite its row, unless the server has crashed.        *)
LockHasOwner ==
    session.status = "COMMITTING" /\ ~crashed =>
        \E r \in Requests : pc[r] \in {"committing", "record"}

(* The lock of a commit is released whatever fails, unless the server      *)
(* crashes.                                                                *)
CommitLockReleased ==
    session.status = "COMMITTING" ~> (session.status # "COMMITTING" \/ crashed)

-----------------------------------------------------------------------------
(* Properties that hold when calls do not overlap (one request at a time)  *)
(* and the write of COMMITTED does not fail                                *)

(* No draft is created twice (H9 of the commit design), crash or not. *)
NoDupes == \A i \in Items : created[i] <= 1

(* The drafts a user sees in a COMMITTED session are those it created: its *)
(* approved drafts and no others are in the hub.                           *)
CommittedMatchesDrafts ==
    session.status = "COMMITTED" =>
        \A k \in DraftKeys : created[k] = 1 <=> k \in With(session.drafts, "approved")

(* phase is what the session promises to a caller of commit. *)
phase == CASE session.status = "COMMITTED" -> "committed"
           [] session.status = "COMMITTING" -> "committing"
           [] OTHER -> "open"

Promise == INSTANCE CommitOnce WITH created <- {i \in Items : created[i] > 0}

(* The session implements the commit-once promise of CommitOnce. *)
ImplementsCommitOnce == Promise!PSpec

=============================================================================
