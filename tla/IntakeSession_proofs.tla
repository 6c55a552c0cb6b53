----------------------- MODULE IntakeSession_proofs -----------------------
(***************************************************************************)
(* Proofs about IntakeSession: first for any number of overlapping         *)
(* requests with crashes and failing writes, then for requests that do not *)
(* overlap.                                                                *)
(***************************************************************************)
EXTENDS IntakeSession, TLAPS

-----------------------------------------------------------------------------
(* The invariant behind the first part.  A request that will write a       *)
(* status needing a plan or drafts holds on to the fact that they exist:   *)
(* the plan and the drafts, once stored, never disappear.                  *)

WorkingOnDrafts == {"patchDraft", "commit", "committing", "record"}

(* What a row of the table satisfies. *)
RowOK(s) ==
    /\ s \in Sessions
    /\ s.drafts # NoDrafts => s.plan
    /\ s.status \in {"PLAN_READY", "DRAFTING"} => s.plan
    /\ s.status \in {"REVIEWING", "COMMITTING", "COMMITTED"} => s.drafts # NoDrafts

(* A result that a commit may answer with. *)
Names(result) ==
    /\ result \in Results
    /\ \E k \in DraftKeys : result[k] > 0
    /\ \A i \in Items : result[i] <= created[i]

RequestOK(r) ==
    /\ pc[r] = "idle" => seen[r] = Unseen /\ out[r] = NoResult
    /\ pc[r] \in {"draft", "drafting"} => session.plan
    /\ pc[r] \in WorkingOnDrafts => seen[r].drafts \in Drafts /\ session.drafts # NoDrafts
    /\ pc[r] = "record" => Names(out[r])

IInv ==
    /\ TypeOK
    /\ RowOK(session)
    /\ session.status = "COMMITTED" => Names(session.result)
    /\ \A r \in Requests : RequestOK(r)

(* What a handler's write must respect for the others to stay right. *)
Write(s) ==
    /\ RowOK(s)
    /\ session.plan => s.plan
    /\ session.drafts # NoDrafts => s.drafts # NoDrafts
    /\ s.status = "COMMITTED" => Names(s.result)

(* Of the value of a nonempty map of approvals. *)
LEMMA DraftsDef ==
    ASSUME NEW d
    PROVE  d \in Drafts <=> \E D \in (SUBSET DraftKeys) \ {{}} : d \in [D -> Approvals]
  BY DEF Drafts

LEMMA InitIInv == Init => IInv
  <1> SUFFICES ASSUME Init PROVE IInv
    OBVIOUS
  <1> USE DEF Init
  <1>1. session \in Sessions /\ Unseen \in Snapshots
    BY DEF Sessions, Statuses, Unseen, Snapshots
  <1>2. TypeOK
    BY <1>1 DEF TypeOK, PCs
  <1>3. RowOK(session) /\ session.status # "COMMITTED"
    BY <1>1 DEF RowOK
  <1>4. \A r \in Requests : RequestOK(r)
    BY DEF RequestOK, WorkingOnDrafts
  <1> QED BY <1>2, <1>3, <1>4 DEF IInv

(* The last write of a handler keeps the invariant. *)
LEMMA FinishIInv ==
    ASSUME IInv, NEW r \in Requests, NEW s, Write(s), Finish(r, s)
    PROVE  IInv'
  <1> USE DEF Finish, IInv
  <1>1. Unseen \in Snapshots
    BY DEF Unseen, Snapshots
  <1>2. TypeOK'
    BY <1>1 DEF TypeOK, PCs, Write, RowOK
  <1>3. RowOK(session)' /\ (session.status = "COMMITTED" => Names(session.result))'
    BY DEF Write, RowOK, Names
  <1>4. ASSUME NEW q \in Requests PROVE RequestOK(q)'
    BY <1>4 DEF RequestOK, Names, Write, TypeOK, WorkingOnDrafts
  <1> QED BY <1>2, <1>3, <1>4

(* A request that begins only takes its snapshot. *)
LEMMA BeginIInv ==
    ASSUME IInv, NEW r \in Requests, NEW at \in PCs \ {"idle", "record"},
           NEW snapshot \in Snapshots, Begin(r, at, snapshot),
           at \in {"draft", "drafting"} => session.plan,
           at \in WorkingOnDrafts => snapshot.drafts \in Drafts /\ session.drafts # NoDrafts
    PROVE  IInv'
  <1> USE DEF Begin, IInv
  <1>1. TypeOK'
    BY DEF TypeOK
  <1>2. RowOK(session)' /\ (session.status = "COMMITTED" => Names(session.result))'
    BY DEF RowOK, Names
  <1>3. ASSUME NEW q \in Requests PROVE RequestOK(q)'
    BY <1>3 DEF RequestOK, Names, TypeOK
  <1> QED BY <1>1, <1>2, <1>3

(* A handler that marks the session and goes on keeps the invariant. *)
LEMMA MarkIInv ==
    ASSUME IInv, NEW r \in Requests, NEW at \in {"planning", "drafting", "committing"},
           NEW status \in Statuses \ {"COMMITTED"}, Mark(r, at, status),
           Write([session EXCEPT !.status = status]),
           at = "drafting" => pc[r] = "draft",
           at = "committing" => pc[r] = "commit"
    PROVE  IInv'
  <1> USE DEF Mark, IInv
  <1>1. TypeOK'
    BY DEF TypeOK, PCs, Write, RowOK
  <1>2. RowOK(session)' /\ session'.status # "COMMITTED"
    BY DEF Write, RowOK, Sessions, TypeOK
  <1>3. ASSUME NEW q \in Requests PROVE RequestOK(q)'
    BY <1>3 DEF RequestOK, Names, TypeOK, WorkingOnDrafts, Sessions
  <1> QED BY <1>1, <1>2, <1>3

LEMMA NextIInv == IInv /\ [Next]_vars => IInv'
  <1> SUFFICES ASSUME IInv, [Next]_vars PROVE IInv'
    OBVIOUS
  <1>0. session \in Sessions /\ TypeOK /\ RowOK(session)
    BY DEF IInv, TypeOK
  <1> DEFINE Same(f) == [session EXCEPT !.status = f]
  <1>1. ASSUME NEW r \in Requests, Arrive(r) PROVE IInv'
    <2>0. /\ Unseen \in Snapshots
          /\ [Unseen EXCEPT !.result = session.result] \in Snapshots
          /\ [Unseen EXCEPT !.drafts = session.drafts] \in Snapshots
          /\ [Unseen EXCEPT !.drafts = session.drafts].drafts = session.drafts
      BY <1>0 DEF Sessions, Snapshots, Unseen
    <2>1. CASE PatchSession(r) \/ Analyze(r) \/ Clarify(r) \/ PatchPlan(r)
      BY <2>0, <2>1, BeginIInv DEF PatchSession, Analyze, Clarify, PatchPlan, PCs, WorkingOnDrafts
    <2>2. CASE GenerateDrafts(r)
      BY <2>0, <2>2, BeginIInv DEF GenerateDrafts, PCs, WorkingOnDrafts
    <2>3. CASE PatchDraft(r)
      BY <1>0, <2>0, <2>3, BeginIInv DEF PatchDraft, PCs, Sessions
    <2>4. CASE Commit(r)
      BY <1>0, <2>0, <2>4, BeginIInv DEF Commit, PCs, Sessions
    <2> QED BY <1>1, <2>1, <2>2, <2>3, <2>4 DEF Arrive
  <1>2. ASSUME NEW r \in Requests, Continue(r) PROVE IInv'
    <2>0. RequestOK(r) /\ seen[r] \in Snapshots
      BY DEF IInv, TypeOK
    <2>1. CASE PatchSessionWrite(r)
      <3>1. PICK f \in {"CAPTURING", "ABANDONED", "FAILED", session.status} : Finish(r, Same(f))
        BY <2>1 DEF PatchSessionWrite
      <3>2. Write(Same(f))
        BY <1>0 DEF Write, RowOK, Sessions, Statuses, IInv, Names
      <3> QED BY <3>1, <3>2, FinishIInv
    <2>2. CASE AnalyzeMark(r)
      <3>1. Write(Same("ANALYZING"))
        BY <1>0 DEF Write, RowOK, Sessions, Statuses
      <3> QED BY <2>2, <3>1, MarkIInv DEF AnalyzeMark, Statuses
    <2>3. CASE AnalyzeStore(r) \/ ClarifyStore(r)
      <3>1. PICK f \in {"CLARIFYING", "PLAN_READY"} :
               Finish(r, [session EXCEPT !.status = f, !.plan = TRUE, !.result = seen[r].result])
        BY <2>3 DEF AnalyzeStore, ClarifyStore, StorePlan
      <3>2. Write([session EXCEPT !.status = f, !.plan = TRUE, !.result = seen[r].result])
        BY <1>0, <2>0 DEF Write, RowOK, Sessions, Statuses, Snapshots
      <3> QED BY <3>1, <3>2, FinishIInv
    <2>4. CASE AnalyzeFail(r) \/ GenerateDraftsFail(r)
      <3>1. Write(Same("FAILED"))
        BY <1>0 DEF Write, RowOK, Sessions, Statuses
      <3> QED BY <2>4, <3>1, FinishIInv DEF AnalyzeFail, GenerateDraftsFail
    <2>5. CASE PatchPlanWrite(r)
      <3>1. Write([session EXCEPT !.status = "PLAN_READY", !.plan = TRUE])
        BY <1>0 DEF Write, RowOK, Sessions, Statuses
      <3> QED BY <2>5, <3>1, FinishIInv DEF PatchPlanWrite
    <2>6. CASE GenerateDraftsMark(r)
      <3>1. Write(Same("DRAFTING"))
        BY <1>0, <2>0, <2>6 DEF Write, RowOK, Sessions, Statuses, RequestOK, GenerateDraftsMark
      <3> QED BY <2>6, <3>1, MarkIInv DEF GenerateDraftsMark, Statuses
    <2>7. CASE GenerateDraftsStore(r)
      <3>1. PICK D \in (SUBSET DraftKeys) \ {{}} :
               Finish(r, [session EXCEPT !.status = "REVIEWING",
                                         !.drafts = [k \in D |-> "pending"],
                                         !.result = seen[r].result])
        BY <2>7 DEF GenerateDraftsStore
      <3>2. [k \in D |-> "pending"] \in Drafts
        BY DraftsDef DEF Approvals
      <3>3. session.plan
        BY <2>0, <2>7 DEF RequestOK, GenerateDraftsStore
      <3>4. Write([session EXCEPT !.status = "REVIEWING",
                                  !.drafts = [k \in D |-> "pending"],
                                  !.result = seen[r].result])
        BY <1>0, <2>0, <3>2, <3>3, IntakeAssumption DEF Write, RowOK, Sessions, Statuses, Snapshots
      <3> QED BY <3>1, <3>4, FinishIInv
    <2>8. CASE PatchDraftWrite(r)
      <3>0. seen[r].drafts \in Drafts /\ session.drafts # NoDrafts /\ session.plan
        BY <1>0, <2>0, <2>8 DEF RequestOK, PatchDraftWrite, WorkingOnDrafts, RowOK
      <3>1. PICK k \in DOMAIN seen[r].drafts, a \in Approvals :
               Finish(r, [session EXCEPT !.status = "REVIEWING",
                                         !.drafts = [seen[r].drafts EXCEPT ![k] = a]])
        BY <2>8 DEF PatchDraftWrite
      <3>2. [seen[r].drafts EXCEPT ![k] = a] \in Drafts
        BY <3>0, DraftsDef
      <3>3. Write([session EXCEPT !.status = "REVIEWING",
                                  !.drafts = [seen[r].drafts EXCEPT ![k] = a]])
        BY <1>0, <3>0, <3>2, IntakeAssumption DEF Write, RowOK, Sessions, Statuses
      <3> QED BY <3>1, <3>3, FinishIInv
    <2>9. CASE CommitMark(r)
      <3>1. Write(Same("COMMITTING"))
        BY <1>0, <2>0, <2>9
           DEF Write, RowOK, Sessions, Statuses, RequestOK, CommitMark, WorkingOnDrafts
      <3> QED BY <2>9, <3>1, MarkIInv DEF CommitMark, Statuses
    <2>10. CASE CommitTransaction(r)
      <3>0. /\ pc[r] = "committing" /\ pc' = [pc EXCEPT ![r] = "record"]
            /\ UNCHANGED <<session, seen, crashed>> /\ seen[r].drafts \in Drafts
            /\ With(seen[r].drafts, "approved") # {}
        BY <2>0, <2>10 DEF CommitTransaction, RequestOK, WorkingOnDrafts, evaluateCommitGate
      <3>1. PICK new \in SUBSET {NewInitiative} :
              LET made == With(seen[r].drafts, "approved") \cup new
                  copies == [i \in Items |-> IF i \in made THEN created[i] + 1 ELSE created[i]]
              IN  /\ created' = copies
                  /\ out' = [out EXCEPT ![r] =
                               [i \in Items |-> IF i \in made THEN copies[i] ELSE 0]]
        BY <2>10 DEF CommitTransaction
      <3> DEFINE made == With(seen[r].drafts, "approved") \cup new
                 res == [i \in Items |-> IF i \in made THEN created[i] + 1 ELSE 0]
      <3>2. /\ created' = [i \in Items |-> IF i \in made THEN created[i] + 1 ELSE created[i]]
            /\ out' = [out EXCEPT ![r] = res]
        BY <3>1 DEF Items
      <3>3. PICK k \in DraftKeys : k \in With(seen[r].drafts, "approved")
        BY <3>0, DraftsDef DEF With
      <3>4. /\ created \in [Items -> Nat] /\ created' \in [Items -> Nat] /\ res \in Results
            /\ \A i \in Items : created[i] <= created'[i] /\ res[i] <= created'[i]
            /\ res[k] > 0
        BY <3>2, <3>3, <1>0 DEF TypeOK, Results, Items
      <3>5. TypeOK'
        BY <3>0, <3>2, <3>4, <1>0 DEF TypeOK, PCs
      <3>6. RowOK(session)' /\ (session.status = "COMMITTED" => Names(session.result))'
        <4>1. ASSUME Names(session.result) PROVE Names(session.result)'
          <5>1. \A i \in Items : session.result[i] \in Nat /\ session.result[i] <= created'[i]
            BY <3>4, <4>1 DEF Names, Results
          <5> QED BY <3>0, <4>1, <5>1 DEF Names
        <4> QED BY <3>0, <4>1 DEF IInv, RowOK
      <3>7. ASSUME NEW q \in Requests PROVE RequestOK(q)'
        <4>1. CASE q = r
          <5>1. out'[r] = res /\ pc'[r] = "record"
            BY <3>0, <3>2, <1>0 DEF TypeOK
          <5>2. Names(out[r])'
            BY <3>3, <3>4, <5>1 DEF Names
          <5> QED BY <3>0, <2>0, <4>1, <5>1, <5>2 DEF RequestOK, WorkingOnDrafts
        <4>2. CASE q # r
          <5>1. RequestOK(q) /\ out'[q] = out[q] /\ pc'[q] = pc[q]
            BY <3>0, <3>2, <4>2 DEF IInv, TypeOK
          <5>2. ASSUME Names(out[q]) PROVE Names(out[q])'
            <6>1. \A i \in Items : out[q][i] \in Nat /\ out[q][i] <= created'[i]
              BY <3>4, <5>2 DEF Names, Results
            <6> QED BY <5>1, <5>2, <6>1 DEF Names
          <5> QED BY <3>0, <5>1, <5>2 DEF RequestOK
        <4> QED BY <4>1, <4>2
      <3> QED BY <3>5, <3>6, <3>7 DEF IInv
    <2>11. CASE CommitRefuse(r) \/ CommitRecordFail(r)
      <3>1. Write(Same("REVIEWING"))
        BY <1>0, <2>0, <2>11
           DEF Write, RowOK, Sessions, Statuses, RequestOK, CommitRefuse, CommitRecordFail, WorkingOnDrafts
      <3> QED BY <2>11, <3>1, FinishIInv DEF CommitRefuse, CommitRecordFail
    <2>12. CASE CommitRecord(r)
      <3>0. Names(out[r]) /\ session.drafts # NoDrafts
        BY <2>0, <2>12 DEF RequestOK, CommitRecord, WorkingOnDrafts
      <3>1. Write([session EXCEPT !.status = "COMMITTED", !.result = out[r]])
        BY <1>0, <3>0 DEF Write, RowOK, Sessions, Statuses, Names
      <3> QED BY <2>12, <3>1, FinishIInv DEF CommitRecord
    <2> QED BY <1>2, <2>1, <2>2, <2>3, <2>4, <2>5, <2>6, <2>7, <2>8, <2>9, <2>10, <2>11, <2>12
            DEF Continue
  <1>3. CASE Crash
    <2>1. Unseen \in Snapshots
      BY DEF Unseen, Snapshots
    <2> QED BY <1>3, <2>1 DEF Crash, IInv, TypeOK, PCs, RowOK, Names, RequestOK, WorkingOnDrafts
  <1>4. CASE UNCHANGED vars
    BY <1>4 DEF vars, IInv, TypeOK, RowOK, Names, RequestOK
  <1> QED BY <1>1, <1>2, <1>3, <1>4 DEF Next

LEMMA AlwaysIInv == Spec => []IInv
  BY InitIInv, NextIInv, PTL DEF Spec

(* Every variable of the session model keeps its type. *)
THEOREM TypeCorrect == Spec => []TypeOK
  <1>1. IInv => TypeOK
    BY DEF IInv
  <1> QED BY <1>1, AlwaysIInv, PTL

(* For every number of overlapping requests, with crashes and failing      *)
(* writes: the status of the session never runs ahead of its data.         *)
THEOREM StatusJustified == Spec => []StatusHasItsData
  <1>1. IInv => StatusHasItsData
    BY DEF IInv, RowOK, StatusHasItsData
  <1> QED BY <1>1, AlwaysIInv, PTL

(* For every number of overlapping requests, with crashes and failing      *)
(* writes: a COMMITTED session answers a second commit with features that  *)
(* exist.                                                                  *)
THEOREM ReplayAlwaysAnswers == Spec => []CommittedHasResult
  <1>1. IInv => CommittedHasResult
    BY IntakeAssumption DEF IInv, Names, CommittedHasResult
  <1> QED BY <1>1, AlwaysIInv, PTL

(* A commit cut off by a crash is neither repeated nor finished. *)
THEOREM OrphanNeverRepeated == Spec => OrphanStaysLocked
  <1>1. IInv /\ [Next]_vars =>
          [(session.status = "COMMITTING" /\ \A r \in Requests : pc[r] = "idle")
             => UNCHANGED <<session, created, pc>>]_vars
    <2> SUFFICES ASSUME IInv, Next, session.status = "COMMITTING",
                        \A r \in Requests : pc[r] = "idle"
                 PROVE  UNCHANGED <<session, created, pc>>
      OBVIOUS
    <2>1. ASSUME NEW r \in Requests PROVE ~Arrive(r)
      BY DEF Arrive, PatchSession, Analyze, Clarify, PatchPlan, GenerateDrafts, PatchDraft,
             Commit, isLocked
    <2>2. ASSUME NEW r \in Requests PROVE ~Continue(r)
      BY DEF Continue, PatchSessionWrite, AnalyzeMark, AnalyzeStore, AnalyzeFail, ClarifyStore,
             PatchPlanWrite, GenerateDraftsMark, GenerateDraftsStore, GenerateDraftsFail,
             PatchDraftWrite, CommitMark, CommitTransaction, CommitRefuse, CommitRecord,
             CommitRecordFail
    <2>3. Crash
      BY <2>1, <2>2 DEF Next
    <2>4. pc' = pc
      BY <2>3 DEF Crash, IInv, TypeOK
    <2> QED BY <2>3, <2>4 DEF Crash
  <1> QED BY <1>1, AlwaysIInv, PTL DEF Spec, OrphanStaysLocked

(* Unless the server crashes, a COMMITTING session has a commit at work,   *)
(* whose end writes another status: for every number of requests.          *)
THEOREM LockIsOwned == Spec => []LockHasOwner
  <1>1. Init => LockHasOwner
    BY DEF Init, LockHasOwner
  <1>2. IInv /\ LockHasOwner /\ [Next]_vars => LockHasOwner'
    <2> SUFFICES ASSUME IInv, LockHasOwner, [Next]_vars PROVE LockHasOwner'
      OBVIOUS
    <2> USE DEF LockHasOwner
    <2>0. pc \in [Requests -> PCs] /\ session \in Sessions
      BY DEF IInv, TypeOK
    <2>1. ASSUME NEW r \in Requests, Arrive(r) PROVE LockHasOwner'
      <3>1. /\ pc[r] = "idle" /\ UNCHANGED <<session, crashed>>
            /\ \A q \in Requests : q # r => pc'[q] = pc[q]
        BY <2>0, <2>1 DEF Arrive, PatchSession, Analyze, Clarify, PatchPlan, GenerateDrafts,
                         PatchDraft, Commit, Begin
      <3> QED BY <3>1
    <2>2. ASSUME NEW r \in Requests, Continue(r) PROVE LockHasOwner'
      <3> USE <2>0 DEF Finish, Mark, Sessions
      <3>1. CASE PatchSessionWrite(r)
        <4>1. pc[r] = "patch" /\ crashed' = crashed
              /\ session'.status \in {"CAPTURING", "ABANDONED", "FAILED", session.status}
              /\ \A q \in Requests : q # r => pc'[q] = pc[q]
          BY <3>1 DEF PatchSessionWrite
        <4> QED BY <4>1
      <3>2. CASE CommitMark(r) \/ CommitTransaction(r)
        <4>1. pc'[r] \in {"committing", "record"}
          BY <3>2 DEF CommitMark, CommitTransaction
        <4> QED BY <4>1
      <3>3. CASE AnalyzeMark(r) \/ AnalyzeStore(r) \/ AnalyzeFail(r) \/ ClarifyStore(r)
        <4>1. session'.status # "COMMITTING"
          BY <3>3 DEF AnalyzeMark, AnalyzeStore, AnalyzeFail, ClarifyStore, StorePlan
        <4> QED BY <4>1
      <3>4. CASE PatchPlanWrite(r) \/ GenerateDraftsMark(r) \/ GenerateDraftsStore(r)
                 \/ GenerateDraftsFail(r) \/ PatchDraftWrite(r)
        <4>1. session'.status # "COMMITTING"
          BY <3>4 DEF PatchPlanWrite, GenerateDraftsMark, GenerateDraftsStore,
                      GenerateDraftsFail, PatchDraftWrite
        <4> QED BY <4>1
      <3>5. CASE CommitRefuse(r) \/ CommitRecord(r) \/ CommitRecordFail(r)
        <4>1. session'.status # "COMMITTING"
          BY <3>5 DEF CommitRefuse, CommitRecord, CommitRecordFail
        <4> QED BY <4>1
      <3> QED BY <2>2, <3>1, <3>2, <3>3, <3>4, <3>5 DEF Continue
    <2>3. CASE Crash
      BY <2>3 DEF Crash
    <2>4. CASE UNCHANGED vars
      BY <2>4 DEF vars
    <2> QED BY <2>1, <2>2, <2>3, <2>4 DEF Next
  <1> QED BY <1>1, <1>2, AlwaysIInv, PTL DEF Spec

-----------------------------------------------------------------------------
(* The second part: calls that do not overlap, and a write of COMMITTED    *)
(* that does not fail.  The server may still crash at any await.           *)

OneAtATime ==
    /\ \A r, q \in Requests : r = q
    /\ LateFailures = FALSE

Nothing == [i \in Items |-> 0]

(* The hub has the approved drafts of d, once each, and no others. *)
HubHas(d) == \A k \in DraftKeys : created[k] = 1 <=> k \in With(d, "approved")

(* The request under way has seen the session as it is, and holds the lock *)
(* from its mark to its last write.                                        *)
AloneOK(r) ==
    /\ pc[r] \notin {"idle", "committing", "record"} => ~isLocked
    /\ pc[r] \in WorkingOnDrafts => seen[r].drafts = session.drafts
    /\ pc[r] \in {"committing", "record"} => session.status = "COMMITTING"
    /\ pc[r] = "committing" => created = Nothing
    /\ pc[r] = "record" => HubHas(session.drafts)

SerialInv ==
    /\ ~isLocked => created = Nothing
    /\ NoDupes
    /\ session.status = "COMMITTED" => HubHas(session.drafts)
    /\ \A r \in Requests : AloneOK(r)

LEMMA InitSerialInv == Init => SerialInv
  BY DEF Init, SerialInv, isLocked, NoDupes, Nothing, AloneOK, WorkingOnDrafts, Items

(* A write that leaves the session unlocked, by a request that found the   *)
(* hub empty.                                                              *)
LEMMA FinishOpen ==
    ASSUME OneAtATime, IInv, NEW r \in Requests, NEW s, Finish(r, s),
           s.status \notin {"COMMITTED", "COMMITTING"}, created = Nothing
    PROVE  SerialInv'
  <1>1. created' = Nothing /\ ~isLocked' /\ pc'[r] = "idle" /\ session' = s
    BY DEF Finish, isLocked, IInv, TypeOK
  <1>2. NoDupes'
    BY <1>1 DEF NoDupes, Nothing
  <1>3. ASSUME NEW q \in Requests PROVE AloneOK(q)'
    BY <1>1 DEF OneAtATime, AloneOK, WorkingOnDrafts
  <1> QED BY <1>1, <1>2, <1>3 DEF SerialInv, isLocked

LEMMA NextSerialInv ==
    ASSUME OneAtATime
    PROVE  IInv /\ SerialInv /\ [Next]_vars => SerialInv'
  <1> SUFFICES ASSUME IInv, SerialInv, [Next]_vars PROVE SerialInv'
    OBVIOUS
  <1>0. TypeOK /\ session \in Sessions
    BY DEF IInv, TypeOK
  <1>1. ASSUME NEW r \in Requests, Arrive(r) PROVE SerialInv'
    <2>1. PICK at \in {"patch", "analyze", "clarify", "patchPlan", "draft", "patchDraft", "commit"},
               snapshot \in {Unseen, [Unseen EXCEPT !.result = session.result],
                            [Unseen EXCEPT !.drafts = session.drafts]} :
            /\ Begin(r, at, snapshot) /\ ~isLocked
            /\ at \in WorkingOnDrafts => snapshot.drafts = session.drafts
      <3>1. [Unseen EXCEPT !.drafts = session.drafts].drafts = session.drafts
        BY DEF Unseen
      <3> QED BY <1>1, <3>1
                 DEF Arrive, PatchSession, Analyze, Clarify, PatchPlan, GenerateDrafts, PatchDraft,
                     Commit, WorkingOnDrafts
    <2>2. pc'[r] = at /\ seen'[r] = snapshot /\ UNCHANGED <<session, created>>
      BY <1>0, <2>1 DEF Begin, TypeOK
    <2>3. ASSUME NEW q \in Requests PROVE AloneOK(q)'
      BY <2>1, <2>2 DEF OneAtATime, AloneOK, isLocked, WorkingOnDrafts
    <2> QED BY <2>1, <2>2, <2>3 DEF SerialInv, isLocked, NoDupes, HubHas
  <1>2. ASSUME NEW r \in Requests, Continue(r) PROVE SerialInv'
    <2>0. AloneOK(r) /\ RequestOK(r)
      BY DEF SerialInv, IInv
    <2>1. CASE \/ PatchSessionWrite(r) \/ AnalyzeStore(r) \/ AnalyzeFail(r) \/ ClarifyStore(r)
               \/ PatchPlanWrite(r) \/ GenerateDraftsStore(r) \/ GenerateDraftsFail(r)
               \/ PatchDraftWrite(r)
      <3>1. ~isLocked /\ created = Nothing
        BY <2>0, <2>1
           DEF AloneOK, SerialInv, PatchSessionWrite, AnalyzeStore, AnalyzeFail, ClarifyStore,
               PatchPlanWrite, GenerateDraftsStore, GenerateDraftsFail, PatchDraftWrite
      <3>2. Finish(r, session') /\ session'.status \notin {"COMMITTED", "COMMITTING"}
        BY <1>0, <2>1, <3>1
           DEF Sessions, isLocked, StorePlan, Finish, PatchSessionWrite, AnalyzeStore, AnalyzeFail,
               ClarifyStore, PatchPlanWrite, GenerateDraftsStore, GenerateDraftsFail,
               PatchDraftWrite
      <3> QED BY <3>1, <3>2, FinishOpen
    <2>2. CASE AnalyzeMark(r) \/ GenerateDraftsMark(r)
      <3>1. ~isLocked /\ created = Nothing
        BY <2>0, <2>2 DEF AloneOK, SerialInv, AnalyzeMark, GenerateDraftsMark
      <3>2. /\ pc'[r] \in {"planning", "drafting"} /\ created' = Nothing /\ ~isLocked'
            /\ session'.status \in {"ANALYZING", "DRAFTING"}
        BY <1>0, <2>2, <3>1 DEF AnalyzeMark, GenerateDraftsMark, Mark, TypeOK, Sessions, isLocked
      <3>3. ASSUME NEW q \in Requests PROVE AloneOK(q)'
        BY <3>2 DEF OneAtATime, AloneOK, WorkingOnDrafts
      <3> QED BY <3>2, <3>3 DEF SerialInv, NoDupes, Nothing
    <2>3. CASE CommitMark(r)
      <3>1. created = Nothing /\ seen[r].drafts = session.drafts
        BY <2>0, <2>3 DEF AloneOK, SerialInv, CommitMark, WorkingOnDrafts
      <3>2. /\ pc'[r] = "committing" /\ created' = Nothing /\ seen'[r] = seen[r]
            /\ session'.status = "COMMITTING" /\ session'.drafts = session.drafts
        BY <1>0, <2>3, <3>1 DEF CommitMark, Mark, TypeOK, Sessions
      <3>3. ASSUME NEW q \in Requests PROVE AloneOK(q)'
        BY <3>1, <3>2 DEF OneAtATime, AloneOK
      <3> QED BY <3>2, <3>3 DEF SerialInv, NoDupes, Nothing, isLocked
    <2>4. CASE CommitTransaction(r)
      <3>1. /\ created = Nothing /\ seen[r].drafts = session.drafts
            /\ session.status = "COMMITTING" /\ UNCHANGED <<session, seen>> /\ pc'[r] = "record"
        BY <1>0, <2>0, <2>4 DEF AloneOK, CommitTransaction, WorkingOnDrafts, TypeOK
      <3>2. PICK new \in SUBSET {NewInitiative} :
               created' = [i \in Items |->
                             IF i \in With(seen[r].drafts, "approved") \cup new
                             THEN created[i] + 1 ELSE created[i]]
        BY <2>4 DEF CommitTransaction
      <3>3. \A i \in Items :
               created'[i] = IF i \in With(seen[r].drafts, "approved") \cup new THEN 1 ELSE 0
        BY <3>1, <3>2 DEF Nothing
      <3>4. NoDupes' /\ HubHas(session.drafts)'
        BY <3>1, <3>3, IntakeAssumption DEF NoDupes, HubHas, Items
      <3>5. ASSUME NEW q \in Requests PROVE AloneOK(q)'
        BY <3>1, <3>4 DEF OneAtATime, AloneOK
      <3> QED BY <3>1, <3>4, <3>5 DEF SerialInv, isLocked
    <2>5. CASE CommitRefuse(r)
      <3>1. created = Nothing
        BY <2>0, <2>5 DEF AloneOK, CommitRefuse
      <3>2. [session EXCEPT !.status = "REVIEWING"].status = "REVIEWING"
        BY <1>0 DEF Sessions
      <3> QED BY <2>5, <3>1, <3>2, FinishOpen DEF CommitRefuse
    <2>6. CASE CommitRecord(r)
      <3>1. HubHas(session.drafts)
        BY <2>0, <2>6 DEF AloneOK, CommitRecord
      <3>2. /\ pc'[r] = "idle" /\ UNCHANGED created
            /\ session'.status = "COMMITTED" /\ session'.drafts = session.drafts
        BY <1>0, <2>6 DEF CommitRecord, Finish, TypeOK, Sessions
      <3>3. ASSUME NEW q \in Requests PROVE AloneOK(q)'
        BY <3>2 DEF OneAtATime, AloneOK, WorkingOnDrafts
      <3> QED BY <3>1, <3>2, <3>3 DEF SerialInv, NoDupes, HubHas, isLocked
    <2> QED BY <1>2, <2>1, <2>2, <2>3, <2>4, <2>5, <2>6
            DEF Continue, CommitRecordFail, OneAtATime
  <1>3. CASE Crash
    BY <1>3 DEF Crash, SerialInv, AloneOK, NoDupes, HubHas, isLocked, WorkingOnDrafts
  <1>4. CASE UNCHANGED vars
    BY <1>4 DEF vars, SerialInv, AloneOK, NoDupes, HubHas, isLocked
  <1> QED BY <1>1, <1>2, <1>3, <1>4 DEF Next

LEMMA AlwaysSerialInv == ASSUME OneAtATime PROVE Spec => [](IInv /\ SerialInv)
  <1>1. Init => IInv /\ SerialInv
    BY InitIInv, InitSerialInv
  <1>2. IInv /\ SerialInv /\ [Next]_vars => (IInv /\ SerialInv)'
    BY NextIInv, NextSerialInv
  <1> QED BY <1>1, <1>2, PTL DEF Spec

(* When calls do not overlap and the write of COMMITTED does not fail, no  *)
(* draft is created twice, wherever the server crashes.                    *)
THEOREM NoDupesAlone == ASSUME OneAtATime PROVE Spec => []NoDupes
  <1>1. IInv /\ SerialInv => NoDupes
    BY DEF SerialInv
  <1> QED BY <1>1, AlwaysSerialInv, PTL

(* Under the same assumptions a COMMITTED session shows exactly the drafts *)
(* it has created.                                                         *)
THEOREM CommittedShowsHub == ASSUME OneAtATime PROVE Spec => []CommittedMatchesDrafts
  <1>1. IInv /\ SerialInv => CommittedMatchesDrafts
    BY DEF SerialInv, HubHas, CommittedMatchesDrafts
  <1> QED BY <1>1, AlwaysSerialInv, PTL

(* Under the same assumptions the session implements CommitOnce. *)
THEOREM SessionImplementsCommitOnce == ASSUME OneAtATime PROVE Spec => ImplementsCommitOnce
  <1> DEFINE Hub == {i \in Items : created[i] > 0}
  <1>1. Init => Promise!PInit
    BY DEF Init, Promise!PInit, phase
  <1>2. ASSUME IInv, SerialInv, [Next]_vars
        PROVE  [Promise!PNext]_<<phase, Hub>>
    <2>0. session \in Sessions /\ TypeOK
      BY <1>2 DEF IInv, TypeOK
    <2> USE DEF phase
    <2>1. ASSUME NEW r \in Requests, Arrive(r) PROVE UNCHANGED <<phase, Hub>>
      BY <2>1 DEF Arrive, Begin, PatchSession, Analyze, Clarify, PatchPlan, GenerateDrafts,
                  PatchDraft, Commit
    <2>2. ASSUME NEW r \in Requests, Continue(r) PROVE [Promise!PNext]_<<phase, Hub>>
      <3>0. AloneOK(r) /\ RequestOK(r)
        BY <1>2 DEF SerialInv, IInv
      <3>1. CASE \/ PatchSessionWrite(r) \/ AnalyzeStore(r) \/ AnalyzeFail(r) \/ ClarifyStore(r)
                 \/ PatchPlanWrite(r) \/ GenerateDraftsStore(r) \/ GenerateDraftsFail(r)
                 \/ PatchDraftWrite(r) \/ AnalyzeMark(r) \/ GenerateDraftsMark(r)
        <4>1. ~isLocked
          BY <3>0, <3>1
             DEF AloneOK, PatchSessionWrite, AnalyzeStore, AnalyzeFail, ClarifyStore,
                 PatchPlanWrite, GenerateDraftsStore, GenerateDraftsFail, PatchDraftWrite,
                 AnalyzeMark, GenerateDraftsMark
        <4>2. session'.status \notin {"COMMITTED", "COMMITTING"} /\ created' = created
          BY <2>0, <3>1, <4>1
             DEF Sessions, isLocked, Finish, Mark, StorePlan, PatchSessionWrite, AnalyzeStore,
                 AnalyzeFail, ClarifyStore, PatchPlanWrite, GenerateDraftsStore,
                 GenerateDraftsFail, PatchDraftWrite, AnalyzeMark, GenerateDraftsMark
        <4> QED BY <4>1, <4>2 DEF isLocked
      <3>2. CASE CommitMark(r)
        <4>1. ~isLocked /\ session'.status = "COMMITTING" /\ created' = created
          BY <2>0, <3>0, <3>2 DEF AloneOK, CommitMark, Mark, Sessions
        <4>2. Promise!Lock
          BY <4>1 DEF Promise!Lock, isLocked
        <4> QED BY <4>2 DEF Promise!PNext
      <3>3. CASE CommitTransaction(r)
        <4>1. /\ created = Nothing /\ session.status = "COMMITTING" /\ session' = session
          BY <3>0, <3>3 DEF AloneOK, CommitTransaction
        <4>2. /\ seen[r].drafts \in Drafts
              /\ With(seen[r].drafts, "approved") # {}
          BY <3>0, <3>3 DEF RequestOK, CommitTransaction, WorkingOnDrafts, evaluateCommitGate
        <4>3. PICK k \in DraftKeys : k \in With(seen[r].drafts, "approved")
          BY <4>2, DraftsDef DEF With
        <4>4. PICK new \in SUBSET {NewInitiative} :
                 created' = [i \in Items |->
                               IF i \in With(seen[r].drafts, "approved") \cup new
                               THEN created[i] + 1 ELSE created[i]]
          BY <3>3 DEF CommitTransaction
        <4>5. k \in Hub' /\ Hub = {}
          BY <4>1, <4>3, <4>4 DEF Nothing, Items
        <4>6. Promise!Create
          BY <4>1, <4>5 DEF Promise!Create
        <4> QED BY <4>6 DEF Promise!PNext
      <3>4. CASE CommitRefuse(r)
        <4>1. /\ created = Nothing /\ created' = created /\ session.status = "COMMITTING"
              /\ session'.status = "REVIEWING"
          BY <2>0, <3>0, <3>4 DEF AloneOK, CommitRefuse, Finish, Sessions
        <4>2. Promise!Reopen
          BY <4>1 DEF Promise!Reopen, Nothing
        <4> QED BY <4>2 DEF Promise!PNext
      <3>5. CASE CommitRecord(r)
        <4>1. /\ created' = created /\ session.status = "COMMITTING"
              /\ session'.status = "COMMITTED" /\ Names(out[r])
          BY <2>0, <3>0, <3>5 DEF AloneOK, RequestOK, CommitRecord, Finish, Sessions
        <4>2. PICK k \in DraftKeys : out[r][k] > 0 /\ out[r][k] <= created[k]
          BY <4>1 DEF Names, Items
        <4>3. k \in Hub
          BY <2>0, <4>1, <4>2 DEF Names, Results, TypeOK, Items
        <4>4. Promise!Close
          BY <4>1, <4>3 DEF Promise!Close
        <4> QED BY <4>4 DEF Promise!PNext
      <3> QED BY <2>2, <3>1, <3>2, <3>3, <3>4, <3>5
              DEF Continue, CommitRecordFail, OneAtATime
    <2>3. CASE Crash
      BY <2>3 DEF Crash
    <2>4. CASE UNCHANGED vars
      BY <2>4 DEF vars
    <2> QED BY <1>2, <2>1, <2>2, <2>3, <2>4 DEF Next
  <1> QED BY <1>1, <1>2, AlwaysSerialInv, PTL DEF Spec, ImplementsCommitOnce, Promise!PSpec
=============================================================================
